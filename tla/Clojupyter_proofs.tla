------------------------- MODULE Clojupyter_proofs -------------------------
(***************************************************************************)
(* Proofs about Clojupyter: however the threads race for `pending', the    *)
(* handler is called with an echo only if sends or updates crossed,        *)
(* nothing the page said is lost, and a probe never says too much.         *)
(***************************************************************************)
EXTENDS Clojupyter, FiniteSets, FiniteSetTheorems, TLAPS

States == [count : Nat, label : Nat, derived : Nat]
Labels == [label : Nat]
Derivations == [derived : Nat]
Counts == [count : Nat]
OwnDeltas == Labels \cup Derivations
Actions == [own : {TRUE}, delta : OwnDeltas] \cup [own : {FALSE}, delta : Counts]
Notices ==
  {Idle} \cup [at : {"watch"}, own : BOOLEAN, state : States]
         \cup [at : {"decide"}, own : BOOLEAN, state : States, expected : {None} \cup OwnDeltas]
         \cup [at : {"send"}, delta : Derivations]

\* The state of a kernel that runs a program over ClojupyterTransport.
Shapes ==
  /\ program \in Transported /\ probe.at = "none"
  /\ atom \in States /\ mirror \in States /\ page \in States
  /\ mailbox \in Seq(Actions) /\ notice \in Notices
  /\ pending \in {None} \cup OwnDeltas /\ sending \in {None} \cup Labels
  /\ toPage \in Seq([type : {"comm_msg"}, state : States])
  /\ toKernel \in Seq([type : {"update"}, state : Counts])
  /\ crossed \in BOOLEAN /\ echoed \in BOOLEAN

\* The agent waits for its watch: what the watch was given is the comm-atom's state.
Watched == notice.at \in {"watch", "decide"} => notice.state = atom

Shows(state, delta) == delta = SelectKeys(state, DOMAIN delta)

\* What is expected is about to be sent, waits for the agent, or is shown by the state
\* that the watch looks at.
Awaited ==
  pending # None =>
    \/ sending = pending
    \/ notice.at = "send" /\ notice.delta = pending
    \/ \E i \in DOMAIN mailbox : mailbox[i].own /\ mailbox[i].delta = pending
    \/ notice.at = "watch" /\ Shows(notice.state, pending)
    \/ notice.at = "decide" /\ notice.expected = pending /\ Shows(notice.state, pending)

\* The sends the watch has not been called for, and the one it has.
OwnIn(box) == {i \in DOMAIN box : box[i].own}
One(b) == IF b THEN 1 ELSE 0
Ahead == Cardinality(OwnIn(mailbox)) + One(sending # None) + One(notice.at = "send")
Here == One(notice.at \in {"watch", "decide"} /\ notice.own)
Token == One(pending # None)

\* While no sends have crossed there is one at a time, the one that is expected.
OneAtATime == ~crossed => Ahead + Here = Token

\* A count the handler has not seen is looked at by the watch, or there are more sends to
\* come than can be taken for echoes: the watch looks at it again.
Lags == mirror.count # atom.count
Seen ==
  /\ notice.at \in {"idle", "send"} /\ Lags => Ahead >= 1 + Token
  /\ notice.at = "watch" /\ (Lags \/ ~notice.own) => Ahead >= Token
  /\ notice.at = "decide" /\ (Lags \/ ~notice.own) /\ notice.expected # None => Ahead >= 1

\* The last value that was derived, sent or still to be sent, is that of the count the
\* handler saw last.
Derived ==
  program = "derive" =>
    \/ notice.at = "send" /\ notice.delta = [derived |-> mirror.count]
    \/ /\ notice.at # "send"
       /\ \E i \in DOMAIN mailbox :
            /\ mailbox[i].delta = [derived |-> mirror.count]
            /\ \A j \in DOMAIN mailbox : j > i => "derived" \notin DOMAIN mailbox[j].delta
    \/ /\ notice.at # "send" /\ atom.derived = mirror.count
       /\ \A j \in DOMAIN mailbox : "derived" \notin DOMAIN mailbox[j].delta

RunInv == Shapes /\ Watched /\ Awaited /\ OneAtATime /\ (echoed => crossed) /\ Seen /\ Derived
-----------------------------------------------------------------------------
\* A kernel that is probed: the transport is not used, and the types of what is.
Probes == [at : {"execute", "opens", "echo", "done"}, seen : SUBSET {"comm_open", "comm_msg"},
           tier : {"none", "raised", "NO_COMM", "BROADCAST_ONLY", "BIDIRECTIONAL"}, early : BOOLEAN]
ProbeStates == UNION {[keys -> {1}] : keys \in SUBSET {"hello", "ping", "echo"}}
ProbeMessages == [type : {"comm_open", "comm_msg"}, state : ProbeStates]
ProbeActions == [own : {TRUE}, delta : [echo : {1}]] \cup [own : {FALSE}, delta : [ping : {1}]]
ProbeShapes ==
  /\ program \in Probed /\ probe \in Probes
  /\ pending = None /\ sending = None /\ ~crossed /\ ~echoed /\ DOMAIN mirror = DOMAIN page
  /\ atom \in ProbeStates /\ toPage \in Seq(ProbeMessages) /\ mailbox \in Seq(ProbeActions)
  /\ notice.at \in {"idle", "watch", "send"}
  /\ notice.at = "watch" => notice.own \in BOOLEAN /\ notice.state = atom
  /\ notice.at = "send" => notice.delta \in [echo : {1}]
  /\ toKernel \in Seq({PingPayload})

\* What the client has heard of since it last asked, or will with its next message.
Types(messages) == {messages[i].type : i \in DOMAIN messages}
Heard == probe.seen \cup Types(toPage)

\* The program of a kernel that cannot do it neither opens a comm nor answers, and none
\* answers before it is asked.
Honest ==
  /\ Heard \subseteq {"comm_open", "comm_msg"}
  /\ "comm_open" \in Heard \/ probe.at = "echo" => program \notin {"mute", "broken"}
  /\ "comm_msg" \in Heard => program \in {"clojure", "python3"}
  /\ program # "clojure" => mailbox = << >> /\ notice = Idle
  /\ probe.at # "echo" => mailbox = << >> /\ notice = Idle /\ toKernel = << >> /\ "comm_msg" \notin Heard

\* An answer, or what leads to one, is somewhere on its way.
Answering ==
  /\ probe.at = "opens" /\ program \notin {"mute", "broken"} => "comm_open" \in Heard
  /\ probe.at = "echo" /\ program = "clojure" =>
       /\ "echo" \in DOMAIN atom => "comm_msg" \in Heard
       /\ "comm_msg" \in Heard \/ toKernel # << >> \/ mailbox # << >> \/ notice # Idle
  /\ probe.at = "echo" /\ program = "python3" => "comm_msg" \in Heard \/ toKernel # << >>
  /\ probe.at \in {"execute", "opens"} => "echo" \notin DOMAIN atom

ProbeInv == ProbeShapes /\ Honest /\ Answering /\ Verdict

CljInv == RunInv \/ ProbeInv
-----------------------------------------------------------------------------
(***************************************************************************)
(* The mailbox: how many of the actions are sends of the program.          *)
(***************************************************************************)
LEMMA OwnFinite ==
  ASSUME NEW S, NEW q \in Seq(S)
  PROVE  IsFiniteSet(OwnIn(q)) /\ Cardinality(OwnIn(q)) \in Nat /\ (q = << >> => Cardinality(OwnIn(q)) = 0)
<1>1. Len(q) \in Nat /\ DOMAIN q = 1 .. Len(q)
  OBVIOUS
<1>2. IsFiniteSet(1 .. Len(q))
  BY <1>1, FS_Interval
<1>3. OwnIn(q) \in SUBSET (1 .. Len(q))
  BY <1>1 DEF OwnIn
<1>4. IsFiniteSet(OwnIn(q))
  BY <1>2, <1>3, FS_Subset
<1>5. q = << >> => OwnIn(q) = {}
  BY DEF OwnIn
<1> QED BY <1>4, <1>5, FS_CardinalityType, FS_EmptySet

LEMMA OwnAppended ==
  ASSUME NEW S, NEW q \in Seq(S), NEW a \in S, a.own \in BOOLEAN
  PROVE  Cardinality(OwnIn(Append(q, a))) = Cardinality(OwnIn(q)) + One(a.own)
<1> DEFINE n == Len(q)
           r == Append(q, a)
<1>1. /\ n \in Nat /\ DOMAIN q = 1 .. n /\ DOMAIN r = 1 .. n + 1
      /\ \A i \in 1 .. n : r[i] = q[i]
      /\ r[n + 1] = a
  OBVIOUS
<1> HIDE DEF n, r
<1>2. IsFiniteSet(OwnIn(q)) /\ Cardinality(OwnIn(q)) \in Nat
  BY OwnFinite
<1>3. n + 1 \notin OwnIn(q)
  BY <1>1 DEF OwnIn
<1>4. CASE a.own
  <2>1. OwnIn(r) = OwnIn(q) \cup {n + 1}
    BY <1>1, <1>4 DEF OwnIn
  <2>2. Cardinality(OwnIn(q) \cup {n + 1}) = Cardinality(OwnIn(q)) + 1
    BY <1>2, <1>3, FS_AddElement
  <2> QED BY <1>4, <2>1, <2>2 DEF One, r
<1>5. CASE ~a.own
  <2>1. OwnIn(r) = OwnIn(q)
    BY <1>1, <1>5 DEF OwnIn
  <2> QED BY <1>2, <1>5, <2>1 DEF One, r
<1> QED BY <1>4, <1>5

LEMMA OwnTaken ==
  ASSUME NEW S, NEW q \in Seq(S), q # << >>, Head(q).own \in BOOLEAN
  PROVE  Cardinality(OwnIn(q)) = Cardinality(OwnIn(Tail(q))) + One(Head(q).own)
<1> DEFINE n == Len(q)
           r == Tail(q)
           P == OwnIn(q)
           R == OwnIn(r)
           f == [i \in R |-> i + 1]
<1>1. /\ n \in Nat \ {0} /\ DOMAIN q = 1 .. n /\ DOMAIN r = 1 .. n - 1 /\ r \in Seq(S)
      /\ \A i \in 1 .. n - 1 : r[i] = q[i + 1]
      /\ Head(q) = q[1]
  OBVIOUS
<1> HIDE DEF n, r
<1>2. IsFiniteSet(P) /\ IsFiniteSet(R) /\ Cardinality(R) \in Nat
  BY <1>1, OwnFinite
<1>3. P = {i \in 1 .. n : q[i].own} /\ R = {i \in 1 .. n - 1 : q[i + 1].own}
  BY <1>1 DEF OwnIn
<1> HIDE DEF P, R
<1>4. ExistsBijection(R, P \ {1})
  <2>1. \A i \in R : i + 1 \in P \ {1}
    BY <1>1, <1>3
  <2>2. f \in [R -> P \ {1}]
    BY <2>1
  <2>3. \A i, j \in R : f[i] = f[j] => i = j
    BY <1>3
  <2>4. \A j \in P \ {1} : j - 1 \in R /\ f[j - 1] = j
    <3>1. \A j \in P \ {1} : j \in 1 .. n /\ j - 1 \in 1 .. n - 1 /\ (j - 1) + 1 = j
      BY <1>1, <1>3
    <3> QED BY <1>3, <3>1
  <2> HIDE DEF f
  <2>5. f \in Bijection(R, P \ {1})
    BY <2>2, <2>3, <2>4 DEF Bijection, Injection, Surjection, IsInjective
  <2> QED BY <2>5 DEF ExistsBijection
<1>5. Cardinality(R) = Cardinality(P \ {1})
  BY <1>2, <1>4, FS_Bijection
<1>6. Cardinality(P \ {1}) = IF 1 \in P THEN Cardinality(P) - 1 ELSE Cardinality(P)
  BY <1>2, FS_RemoveElement
<1>7. 1 \in P <=> Head(q).own
  BY <1>1, <1>3
<1>8. Cardinality(P) \in Nat
  BY <1>2, FS_CardinalityType
<1> QED BY <1>2, <1>5, <1>6, <1>7, <1>8 DEF One, P, R, r
-----------------------------------------------------------------------------
(***************************************************************************)
(* A kernel with the transport.                                            *)
(***************************************************************************)
LEMMA NoticeShape ==
  ASSUME Shapes
  PROVE  /\ notice.at \in {"idle", "watch", "decide", "send"}
         /\ notice.at = "idle" <=> notice = Idle
         /\ notice.at \in {"watch", "decide"} => notice.own \in BOOLEAN /\ notice.state \in States
         /\ notice.at = "decide" => notice.expected \in {None} \cup OwnDeltas
         /\ notice.at = "send" => notice.delta \in Derivations
  BY DEF Shapes, Notices, Idle

LEMMA MergeShape ==
  ASSUME NEW state \in States, NEW delta \in OwnDeltas \cup Counts
  PROVE  /\ Merge(state, delta) \in States /\ Shows(Merge(state, delta), delta)
         /\ delta \in Labels => Merge(state, delta).count = state.count /\ Merge(state, delta).derived = state.derived
         /\ delta \in Derivations => Merge(state, delta).count = state.count /\ Merge(state, delta).derived = delta.derived
         /\ delta \in Counts => Merge(state, delta).derived = state.derived
<1>1. CASE delta \in Labels
  BY <1>1 DEF Merge, Shows, SelectKeys, States, Labels, Derivations, Counts
<1>2. CASE delta \in Derivations
  BY <1>2 DEF Merge, Shows, SelectKeys, States, Labels, Derivations, Counts
<1>3. CASE delta \in Counts
  BY <1>3 DEF Merge, Shows, SelectKeys, States, Labels, Derivations, Counts
<1> QED BY <1>1, <1>2, <1>3 DEF OwnDeltas

LEMMA DeltaShape ==
  /\ \A delta \in Labels : DOMAIN delta = {"label"} /\ delta # None
  /\ \A delta \in Derivations : DOMAIN delta = {"derived"} /\ delta # None
  /\ \A delta \in Counts : DOMAIN delta = {"count"} /\ delta # None
<1>1. \A delta \in Labels : DOMAIN delta = {"label"} /\ delta # None
  BY DEF Labels, None
<1>2. \A delta \in Derivations : DOMAIN delta = {"derived"} /\ delta # None
  BY DEF Derivations, None
<1>3. \A delta \in Counts : DOMAIN delta = {"count"} /\ delta # None
  BY DEF Counts, None
<1> QED BY <1>1, <1>2, <1>3

LEMMA ActionShape ==
  ASSUME NEW action \in Actions
  PROVE  /\ action.own \in BOOLEAN /\ action.delta \in OwnDeltas \cup Counts
         /\ action.own => action.delta \in OwnDeltas
         /\ ~action.own => action.delta \in Counts
  BY DEF Actions

\* An action is sent to the agent.
LEMMA Mailed ==
  ASSUME Shapes, NEW a \in Actions, mailbox' = Append(mailbox, a)
  PROVE  /\ mailbox' \in Seq(Actions)
         /\ Cardinality(OwnIn(mailbox)) \in Nat
         /\ Cardinality(OwnIn(mailbox')) = Cardinality(OwnIn(mailbox)) + One(a.own)
         /\ DOMAIN mailbox = 1 .. Len(mailbox) /\ DOMAIN mailbox' = 1 .. Len(mailbox) + 1 /\ Len(mailbox) \in Nat
         /\ \A i \in DOMAIN mailbox : i \in DOMAIN mailbox' /\ mailbox'[i] = mailbox[i]
         /\ mailbox'[Len(mailbox) + 1] = a
<1>1. mailbox \in Seq(Actions) /\ a.own \in BOOLEAN
  BY ActionShape DEF Shapes
<1>2. /\ Cardinality(OwnIn(mailbox)) \in Nat
      /\ Cardinality(OwnIn(mailbox')) = Cardinality(OwnIn(mailbox)) + One(a.own)
  BY <1>1, OwnFinite, OwnAppended
<1> QED BY <1>1, <1>2

\* The agent takes one.
LEMMA Taken ==
  ASSUME Shapes, mailbox # << >>, mailbox' = Tail(mailbox)
  PROVE  /\ mailbox' \in Seq(Actions) /\ Head(mailbox) \in Actions /\ Head(mailbox) = mailbox[1]
         /\ Cardinality(OwnIn(mailbox')) \in Nat
         /\ Cardinality(OwnIn(mailbox)) = Cardinality(OwnIn(mailbox')) + One(Head(mailbox).own)
         /\ \A i \in DOMAIN mailbox : i # 1 => i - 1 \in DOMAIN mailbox' /\ mailbox'[i - 1] = mailbox[i]
         /\ \A i \in DOMAIN mailbox' : i \in Nat \ {0} /\ i + 1 \in DOMAIN mailbox /\ mailbox'[i] = mailbox[i + 1]
<1>1. mailbox \in Seq(Actions) /\ Tail(mailbox) \in Seq(Actions) /\ Head(mailbox) \in Actions
  BY DEF Shapes
<1>2. Head(mailbox).own \in BOOLEAN
  BY <1>1, ActionShape
<1>3. /\ Cardinality(OwnIn(mailbox')) \in Nat
      /\ Cardinality(OwnIn(mailbox)) = Cardinality(OwnIn(mailbox')) + One(Head(mailbox).own)
  BY <1>1, <1>2, OwnFinite, OwnTaken
<1>4. /\ Len(mailbox) \in Nat \ {0} /\ DOMAIN mailbox = 1 .. Len(mailbox) /\ DOMAIN mailbox' = 1 .. Len(mailbox) - 1
      /\ \A i \in 1 .. Len(mailbox) - 1 : mailbox'[i] = mailbox[i + 1]
      /\ Head(mailbox) = mailbox[1]
  BY <1>1
<1>5. \A i \in DOMAIN mailbox : i # 1 => i - 1 \in 1 .. Len(mailbox) - 1 /\ (i - 1) + 1 = i
  BY <1>4
<1>6. \A i \in DOMAIN mailbox' : i \in Nat \ {0} /\ i + 1 \in DOMAIN mailbox
  BY <1>4
<1> QED BY <1>1, <1>3, <1>4, <1>5, <1>6

\* The agent runs an action: what it was sent for is what the watch is shown next.
LEMMA AgentStep ==
  ASSUME RunInv, AgentRuns
  PROVE  RunInv'
<1> DEFINE action == Head(mailbox)
           state == Merge(atom, action.delta)
<1>1. /\ notice = Idle /\ mailbox # << >> /\ mailbox' = Tail(mailbox)
      /\ atom' = state
      /\ toPage' = IF action.own THEN Append(toPage, CommMsg("comm_msg", state)) ELSE toPage
      /\ notice' = [at |-> "watch", own |-> action.own, state |-> state]
      /\ UNCHANGED <<program, pending, sending, mirror, crossed, echoed, page, toKernel, probe>>
  BY DEF AgentRuns, transport
<1>2. Shapes
  BY DEF RunInv
<1>3. /\ action \in Actions /\ action.own \in BOOLEAN /\ action.delta \in OwnDeltas \cup Counts
      /\ action.own => action.delta \in OwnDeltas
      /\ ~action.own => action.delta \in Counts
      /\ action = mailbox[1]
  BY <1>1, <1>2, Taken, ActionShape
<1>4. /\ state \in States /\ Shows(state, action.delta)
      /\ action.delta \in Labels => state.count = atom.count /\ state.derived = atom.derived
      /\ action.delta \in Derivations => state.count = atom.count /\ state.derived = action.delta.derived
      /\ action.delta \in Counts => state.derived = atom.derived
  BY <1>2, <1>3, MergeShape DEF Shapes
<1> HIDE DEF state, action
<1>5. /\ notice.at = "idle" /\ notice'.at = "watch" /\ notice'.own = action.own /\ notice'.state = state
      /\ notice' \in Notices
  BY <1>1, <1>3, <1>4 DEF Idle, Notices
<1>6. PICK n \in Nat, m \in Nat :
         /\ n = Cardinality(OwnIn(mailbox)) /\ m = Cardinality(OwnIn(mailbox'))
         /\ n = m + One(action.own)
  <2>1. Cardinality(OwnIn(mailbox')) \in Nat /\ Cardinality(OwnIn(mailbox)) = Cardinality(OwnIn(mailbox')) + One(action.own)
    BY <1>1, <1>2, Taken DEF action
  <2>2. Cardinality(OwnIn(mailbox)) \in Nat
    BY <2>1 DEF One
  <2> QED BY <2>1, <2>2
<1>7. Shapes'
  <2>1. toPage' \in Seq([type : {"comm_msg"}, state : States])
    <3> DEFINE Messages == [type : {"comm_msg"}, state : States]
               message == CommMsg("comm_msg", state)
    <3>1. message \in Messages
      BY <1>4 DEF CommMsg
    <3>2. toPage \in Seq(Messages)
      BY <1>2 DEF Shapes
    <3>3. toPage' = IF action.own THEN Append(toPage, message) ELSE toPage
      BY <1>1
    <3> HIDE DEF Messages, message
    <3>4. toPage' \in Seq(Messages)
      BY <3>1, <3>2, <3>3
    <3> QED BY <3>4 DEF Messages
  <2>2. mailbox' \in Seq(Actions)
    BY <1>1, <1>2, Taken
  <2> QED BY <1>1, <1>2, <1>4, <1>5, <2>1, <2>2 DEF Shapes
<1>8. Watched'
  BY <1>1, <1>5 DEF Watched
<1>9. Awaited'
  <2> SUFFICES ASSUME pending # None
               PROVE  \/ sending = pending
                      \/ \E i \in DOMAIN mailbox' : mailbox'[i].own /\ mailbox'[i].delta = pending
                      \/ Shows(state, pending)
    BY <1>1, <1>5 DEF Awaited, Shows, SelectKeys
  <2>1. CASE \E i \in DOMAIN mailbox : mailbox[i].own /\ mailbox[i].delta = pending
    <3>1. PICK i \in DOMAIN mailbox : mailbox[i].own /\ mailbox[i].delta = pending
      BY <2>1
    <3>2. CASE i = 1
      BY <1>3, <1>4, <3>1, <3>2
    <3>3. CASE i # 1
      <4>1. i - 1 \in DOMAIN mailbox' /\ mailbox'[i - 1] = mailbox[i]
        BY <1>1, <1>2, <3>3, Taken
      <4> QED BY <3>1, <4>1
    <3> QED BY <3>2, <3>3
  <2> QED BY <1>5, <2>1 DEF RunInv, Awaited
<1>10. OneAtATime'
  <2>1. crossed' = crossed /\ pending' = pending /\ sending' = sending
    BY <1>1
  <2>2. ~crossed => n + One(sending # None) = One(pending # None)
    BY <1>5, <1>6 DEF RunInv, OneAtATime, Ahead, Here, Token, One
  <2>3. ~crossed => m + One(sending # None) + One(action.own) = One(pending # None)
    BY <1>6, <2>2 DEF One
  <2> QED BY <1>5, <1>6, <2>1, <2>3 DEF OneAtATime, Ahead, Here, Token, One
<1>11. (echoed => crossed)'
  BY <1>1 DEF RunInv
<1>12. Seen'
  <2>1. pending' = pending /\ sending' = sending /\ mirror' = mirror
    BY <1>1
  <2>2. Lags => n + One(sending # None) >= 1 + One(pending # None)
    BY <1>5, <1>6 DEF RunInv, Seen, Ahead, Token, One
  <2>3. action.own => (Lags' => Lags)
    BY <1>1, <1>3, <1>4 DEF Lags, OwnDeltas
  <2>4. pending # None => n + One(sending # None) >= 1
    <3>1. CASE sending # None
      BY <1>6, <3>1 DEF One
    <3>2. CASE sending = None
      <4> SUFFICES ASSUME pending # None PROVE n >= 1
        BY <1>6 DEF One
      <4>1. OwnIn(mailbox) # {}
        BY <1>5, <3>2 DEF RunInv, Awaited, OwnIn
      <4>2. IsFiniteSet(OwnIn(mailbox))
        BY <1>2, OwnFinite DEF Shapes
      <4>3. n # 0
        BY <1>6, <4>1, <4>2, FS_EmptySet
      <4> QED BY <1>6, <4>3
    <3> QED BY <3>1, <3>2
  <2>5. Lags' \/ ~action.own => m + One(sending # None) >= One(pending # None)
    BY <1>6, <2>2, <2>3, <2>4 DEF One
  <2> QED BY <1>5, <1>6, <2>1, <2>5 DEF Seen, Ahead, Token, One
<1>13. Derived'
  <2> SUFFICES ASSUME program = "derive"
               PROVE  \/ \E i \in DOMAIN mailbox' :
                           /\ mailbox'[i].delta = [derived |-> mirror.count]
                           /\ \A k \in DOMAIN mailbox' : k > i => "derived" \notin DOMAIN mailbox'[k].delta
                      \/ /\ state.derived = mirror.count
                         /\ \A k \in DOMAIN mailbox' : "derived" \notin DOMAIN mailbox'[k].delta
    BY <1>1, <1>5 DEF Derived
  <2>1. /\ \A i \in DOMAIN mailbox : i # 1 => i - 1 \in DOMAIN mailbox' /\ mailbox'[i - 1] = mailbox[i]
        /\ \A k \in DOMAIN mailbox' : k \in Nat \ {0} /\ k + 1 \in DOMAIN mailbox /\ mailbox'[k] = mailbox[k + 1]
    BY <1>1, <1>2, Taken
  <2>2. CASE \E i \in DOMAIN mailbox :
               /\ mailbox[i].delta = [derived |-> mirror.count]
               /\ \A k \in DOMAIN mailbox : k > i => "derived" \notin DOMAIN mailbox[k].delta
    <3>1. PICK i \in DOMAIN mailbox :
               /\ mailbox[i].delta = [derived |-> mirror.count]
               /\ \A k \in DOMAIN mailbox : k > i => "derived" \notin DOMAIN mailbox[k].delta
      BY <2>2
    <3>2. i \in Nat
      BY <1>2 DEF Shapes
    <3>3. CASE i = 1
      <4>1. action.delta = [derived |-> mirror.count]
        BY <1>3, <3>1, <3>3
      <4>2. action.delta \in Derivations
        BY <1>2, <4>1 DEF Shapes, States, Derivations
      <4>3. state.derived = mirror.count
        BY <1>4, <4>1, <4>2
      <4>4. ASSUME NEW k \in DOMAIN mailbox' PROVE "derived" \notin DOMAIN mailbox'[k].delta
        <5>1. k + 1 \in DOMAIN mailbox /\ k + 1 > i /\ mailbox'[k] = mailbox[k + 1]
          BY <2>1, <3>3
        <5> QED BY <3>1, <5>1
      <4> QED BY <4>3, <4>4
    <3>4. CASE i # 1
      <4>1. i - 1 \in DOMAIN mailbox' /\ mailbox'[i - 1] = mailbox[i]
        BY <2>1, <3>4
      <4>2. ASSUME NEW k \in DOMAIN mailbox', k > i - 1 PROVE "derived" \notin DOMAIN mailbox'[k].delta
        <5>1. k + 1 \in DOMAIN mailbox /\ k + 1 > i /\ mailbox'[k] = mailbox[k + 1]
          BY <2>1, <3>2, <4>2
        <5> QED BY <3>1, <5>1
      <4> QED BY <3>1, <4>1, <4>2
    <3> QED BY <3>3, <3>4
  <2>3. CASE /\ atom.derived = mirror.count
             /\ \A k \in DOMAIN mailbox : "derived" \notin DOMAIN mailbox[k].delta
    <3>1. 1 \in DOMAIN mailbox
      BY <1>1, <1>2 DEF Shapes
    <3>2. "derived" \notin DOMAIN action.delta
      BY <1>3, <2>3, <3>1
    <3>3. state.derived = atom.derived
      BY <1>3, <1>4, <3>2, DeltaShape DEF OwnDeltas
    <3>4. \A k \in DOMAIN mailbox' : "derived" \notin DOMAIN mailbox'[k].delta
      BY <2>1, <2>3
    <3> QED BY <2>3, <3>3, <3>4
  <2> QED BY <1>5, <2>2, <2>3 DEF RunInv, Derived
<1> QED BY <1>7, <1>8, <1>9, <1>10, <1>11, <1>12, <1>13 DEF RunInv

\* An action that derives nothing leaves what is derived last as it was.
LEMMA DerivedMailed ==
  ASSUME Shapes, Derived, NEW a \in Actions, "derived" \notin DOMAIN a.delta,
         mailbox' = Append(mailbox, a), UNCHANGED <<program, notice, atom, mirror>>
  PROVE  Derived'
<1> SUFFICES ASSUME program = "derive"
             PROVE  \/ notice.at = "send" /\ notice.delta = [derived |-> mirror.count]
                    \/ /\ notice.at # "send"
                       /\ \E i \in DOMAIN mailbox' :
                            /\ mailbox'[i].delta = [derived |-> mirror.count]
                            /\ \A k \in DOMAIN mailbox' : k > i => "derived" \notin DOMAIN mailbox'[k].delta
                    \/ /\ notice.at # "send" /\ atom.derived = mirror.count
                       /\ \A k \in DOMAIN mailbox' : "derived" \notin DOMAIN mailbox'[k].delta
  BY DEF Derived
<1>1. \A k \in DOMAIN mailbox' :
        (k \in DOMAIN mailbox /\ mailbox'[k] = mailbox[k]) \/ "derived" \notin DOMAIN mailbox'[k].delta
  <2>1. /\ DOMAIN mailbox = 1 .. Len(mailbox) /\ DOMAIN mailbox' = 1 .. Len(mailbox) + 1 /\ Len(mailbox) \in Nat
        /\ \A i \in DOMAIN mailbox : i \in DOMAIN mailbox' /\ mailbox'[i] = mailbox[i]
        /\ mailbox'[Len(mailbox) + 1] = a
    BY Mailed
  <2>2. \A k \in DOMAIN mailbox' : k \in DOMAIN mailbox \/ k = Len(mailbox) + 1
    BY <2>1
  <2> QED BY <2>1, <2>2
<1>2. \A i \in DOMAIN mailbox : i \in DOMAIN mailbox' /\ mailbox'[i] = mailbox[i]
  BY Mailed
<1> QED BY <1>1, <1>2 DEF Derived

\* A cell foretells what it is about to send.
LEMMA PredictStep ==
  ASSUME RunInv, Predict
  PROVE  RunInv'
<1>1. PICK label \in {0, 1} : Expects([label |-> label]) /\ sending' = [label |-> label]
  BY DEF Predict
<1>2. /\ sending = None
      /\ UNCHANGED <<program, atom, mailbox, notice, mirror, echoed, page, toPage, toKernel, probe>>
  BY DEF Predict
<1>3. [label |-> label] \in Labels /\ [label |-> label] # None
  <2>1. [label |-> label] \in Labels
    BY DEF Labels
  <2> QED BY <2>1, DeltaShape
<1>4. /\ pending' = [label |-> label] /\ pending' # None /\ sending' # None
      /\ crossed' = (crossed \/ pending # None)
  BY <1>1, <1>3 DEF Expects
<1>5. Shapes
  BY DEF RunInv
<1>6. PICK n \in Nat : n = Cardinality(OwnIn(mailbox))
  BY <1>5, OwnFinite DEF Shapes
<1>7. crossed' \in BOOLEAN /\ (~crossed' => ~crossed /\ pending = None) /\ (crossed => crossed')
  BY <1>4, <1>5 DEF Shapes
<1>8. Shapes'
  BY <1>1, <1>2, <1>3, <1>4, <1>5, <1>7 DEF Shapes, OwnDeltas
<1>9. Watched' /\ Derived'
  BY <1>2 DEF RunInv, Watched, Derived
<1>10. Awaited'
  BY <1>1, <1>4 DEF Awaited
<1>11. OneAtATime'
  <2>1. ~crossed /\ pending = None => n + One(notice.at = "send") + Here = 0
    BY <1>2, <1>6 DEF RunInv, OneAtATime, Ahead, Here, Token, One
  <2>2. ~crossed' => n + 1 + One(notice.at = "send") + Here = 1
    BY <1>7, <2>1 DEF Here, One
  <2> QED BY <1>2, <1>4, <1>6, <2>2 DEF OneAtATime, Ahead, Here, Token, One
<1>12. (echoed => crossed)'
  BY <1>2, <1>7 DEF RunInv
<1>13. Seen'
  <2>1. Lags' = Lags /\ One(sending' # None) = 1 /\ One(sending # None) = 0 /\ One(pending' # None) = 1
        /\ One(pending # None) \in {0, 1} /\ One(notice.at = "send") \in {0, 1}
    BY <1>2, <1>4 DEF Lags, One
  <2>2. Ahead' = n + 1 + One(notice.at = "send") /\ Ahead = n + One(notice.at = "send") /\ Token' = 1 /\ Token \in {0, 1}
    BY <1>2, <1>6, <2>1 DEF Ahead, Token
  <2>3. Ahead \in Nat /\ Ahead' = Ahead + 1
    BY <2>1, <2>2
  <2>4. UNCHANGED notice
    BY <1>2
  <2> HIDE DEF Ahead, Token, Lags
  <2> QED BY <2>1, <2>2, <2>3, <2>4 DEF RunInv, Seen
<1> QED BY <1>8, <1>9, <1>10, <1>11, <1>12, <1>13 DEF RunInv

\* ... and sends it.
LEMMA StateUpdateStep ==
  ASSUME RunInv, StateUpdate
  PROVE  RunInv'
<1> DEFINE a == Action(TRUE, sending)
<1>1. /\ sending # None /\ mailbox' = Append(mailbox, a) /\ sending' = None
      /\ UNCHANGED <<program, atom, notice, pending, mirror, crossed, echoed, page, toPage, toKernel, probe>>
  BY DEF StateUpdate
<1>2. Shapes /\ sending \in Labels
  BY <1>1 DEF RunInv, Shapes
<1>3. a \in Actions /\ a.own = TRUE /\ a.delta = sending /\ "derived" \notin DOMAIN a.delta
  <2>1. a \in Actions /\ a.own = TRUE /\ a.delta = sending
    BY <1>2 DEF Action, Actions, OwnDeltas
  <2>2. DOMAIN sending = {"label"}
    BY <1>2, DeltaShape
  <2> HIDE DEF a
  <2>3. "derived" \notin DOMAIN a.delta
    BY <2>1, <2>2
  <2> QED BY <2>1, <2>3
<1> HIDE DEF a
<1>4. /\ mailbox' \in Seq(Actions)
      /\ \A i \in DOMAIN mailbox : i \in DOMAIN mailbox' /\ mailbox'[i] = mailbox[i]
      /\ Len(mailbox) + 1 \in DOMAIN mailbox' /\ mailbox'[Len(mailbox) + 1] = a
  BY <1>1, <1>2, <1>3, Mailed
<1>5. PICK n \in Nat : n = Cardinality(OwnIn(mailbox)) /\ n + 1 = Cardinality(OwnIn(mailbox'))
  <2>1. Cardinality(OwnIn(mailbox)) \in Nat /\ Cardinality(OwnIn(mailbox')) = Cardinality(OwnIn(mailbox)) + One(a.own)
    BY <1>1, <1>2, <1>3, Mailed
  <2> QED BY <1>3, <2>1 DEF One
<1>6. Shapes'
  BY <1>1, <1>2, <1>4 DEF Shapes
<1>7. Watched'
  BY <1>1 DEF RunInv, Watched
<1>8. Derived'
  BY <1>1, <1>2, <1>3, DerivedMailed DEF RunInv
<1>9. Awaited'
  <2> SUFFICES ASSUME pending # None
               PROVE  \/ notice.at = "send" /\ notice.delta = pending
                      \/ \E i \in DOMAIN mailbox' : mailbox'[i].own /\ mailbox'[i].delta = pending
                      \/ notice.at = "watch" /\ Shows(notice.state, pending)
                      \/ notice.at = "decide" /\ notice.expected = pending /\ Shows(notice.state, pending)
    BY <1>1 DEF Awaited, Shows, SelectKeys
  <2>1. CASE sending = pending
    BY <1>3, <1>4, <2>1
  <2> QED BY <1>4, <2>1 DEF RunInv, Awaited
<1>10. Ahead' = Ahead /\ Here' = Here /\ Token' = Token /\ Lags' = Lags
  BY <1>1, <1>5 DEF Ahead, Here, Token, Lags, One
<1>11. OneAtATime' /\ Seen' /\ (echoed => crossed)'
  BY <1>1, <1>10 DEF RunInv, OneAtATime, Seen
<1> QED BY <1>6, <1>7, <1>8, <1>9, <1>11 DEF RunInv

\* The handler's send waits for the agent, too.
LEMMA HandlerSendsStep ==
  ASSUME RunInv, HandlerSends
  PROVE  RunInv'
<1> DEFINE a == Action(TRUE, notice.delta)
<1>1. /\ notice.at = "send" /\ mailbox' = Append(mailbox, a) /\ notice' = Idle
      /\ UNCHANGED <<program, atom, pending, sending, mirror, crossed, echoed, page, toPage, toKernel, probe>>
  BY DEF HandlerSends, transport
<1>2. Shapes /\ notice.delta \in Derivations
  BY <1>1, NoticeShape DEF RunInv
<1>3. a \in Actions /\ a.own = TRUE /\ a.delta = notice.delta
  BY <1>2 DEF Action, Actions, OwnDeltas
<1> HIDE DEF a
<1>4. /\ mailbox' \in Seq(Actions)
      /\ \A i \in DOMAIN mailbox : i \in DOMAIN mailbox' /\ mailbox'[i] = mailbox[i]
      /\ Len(mailbox) + 1 \in DOMAIN mailbox' /\ mailbox'[Len(mailbox) + 1] = a
      /\ \A i \in DOMAIN mailbox' : ~(i > Len(mailbox) + 1)
  BY <1>1, <1>2, <1>3, Mailed
<1>5. PICK n \in Nat : n = Cardinality(OwnIn(mailbox)) /\ n + 1 = Cardinality(OwnIn(mailbox'))
  <2>1. Cardinality(OwnIn(mailbox)) \in Nat /\ Cardinality(OwnIn(mailbox')) = Cardinality(OwnIn(mailbox)) + One(a.own)
    BY <1>1, <1>2, <1>3, Mailed
  <2> QED BY <1>3, <2>1 DEF One
<1>6. notice'.at = "idle" /\ notice' \in Notices
  BY <1>1 DEF Idle, Notices
<1>7. Shapes'
  BY <1>1, <1>2, <1>4, <1>6 DEF Shapes
<1>8. Watched'
  BY <1>6 DEF Watched
<1>9. Derived'
  <2> SUFFICES ASSUME program = "derive"
               PROVE  \E i \in DOMAIN mailbox' :
                        /\ mailbox'[i].delta = [derived |-> mirror.count]
                        /\ \A k \in DOMAIN mailbox' : k > i => "derived" \notin DOMAIN mailbox'[k].delta
    BY <1>1, <1>6 DEF Derived
  <2>1. notice.delta = [derived |-> mirror.count]
    BY <1>1 DEF RunInv, Derived
  <2> QED BY <1>3, <1>4, <2>1
<1>10. Awaited'
  <2> SUFFICES ASSUME pending # None
               PROVE  \/ sending = pending
                      \/ \E i \in DOMAIN mailbox' : mailbox'[i].own /\ mailbox'[i].delta = pending
    BY <1>1 DEF Awaited
  <2>1. CASE notice.delta = pending
    BY <1>3, <1>4, <2>1
  <2> QED BY <1>1, <1>4, <2>1 DEF RunInv, Awaited
<1>11. Ahead' = Ahead /\ Here' = Here /\ Token' = Token /\ Lags' = Lags
  BY <1>1, <1>5, <1>6 DEF Ahead, Here, Token, Lags, One
<1>12. OneAtATime' /\ (echoed => crossed)'
  BY <1>1, <1>11 DEF RunInv, OneAtATime
<1>13. Seen'
  BY <1>1, <1>6, <1>11 DEF RunInv, Seen
<1> QED BY <1>7, <1>8, <1>9, <1>10, <1>12, <1>13 DEF RunInv

\* An update of the page reaches the agent.
LEMMA DispatchStep ==
  ASSUME RunInv, KernelDispatches
  PROVE  RunInv'
<1> DEFINE message == Head(toKernel)
           a == Action(FALSE, message.state)
<1>1. /\ toKernel # << >> /\ toKernel' = Tail(toKernel)
      /\ mailbox' = IF message.type = "update" THEN Append(mailbox, a) ELSE mailbox
      /\ UNCHANGED <<program, atom, notice, pending, sending, mirror, crossed, echoed, page, toPage, probe>>
  BY DEF KernelDispatches, transport
<1>2. Shapes
  BY DEF RunInv
<1>3. /\ toKernel' \in Seq([type : {"update"}, state : Counts])
      /\ message \in [type : {"update"}, state : Counts]
  <2> DEFINE M == [type : {"update"}, state : Counts]
  <2>1. toKernel \in Seq(M)
    BY <1>2 DEF Shapes
  <2> HIDE DEF M
  <2>2. Tail(toKernel) \in Seq(M) /\ Head(toKernel) \in M
    BY <1>1, <2>1
  <2> QED BY <1>1, <2>2 DEF M
<1>4. a \in Actions /\ a.own = FALSE /\ a.delta \in Counts
  BY <1>3 DEF Action, Actions
<1>5. mailbox' = Append(mailbox, a)
  BY <1>1, <1>3
<1> HIDE DEF a, message
<1>6. "derived" \notin DOMAIN a.delta
  BY <1>4, DeltaShape
<1>7. mailbox' \in Seq(Actions) /\ \A i \in DOMAIN mailbox : i \in DOMAIN mailbox' /\ mailbox'[i] = mailbox[i]
  BY <1>2, <1>4, <1>5, Mailed
<1>8. PICK n \in Nat : n = Cardinality(OwnIn(mailbox)) /\ n = Cardinality(OwnIn(mailbox'))
  <2>1. Cardinality(OwnIn(mailbox)) \in Nat /\ Cardinality(OwnIn(mailbox')) = Cardinality(OwnIn(mailbox)) + One(a.own)
    BY <1>2, <1>4, <1>5, Mailed
  <2> QED BY <1>4, <2>1 DEF One
<1>9. Shapes'
  BY <1>1, <1>2, <1>3, <1>7 DEF Shapes
<1>10. Watched'
  BY <1>1 DEF RunInv, Watched
<1>11. Derived'
  BY <1>1, <1>2, <1>4, <1>5, <1>6, DerivedMailed DEF RunInv
<1>12. Awaited'
  <2> SUFFICES ASSUME pending # None
               PROVE  \/ sending = pending
                      \/ notice.at = "send" /\ notice.delta = pending
                      \/ \E i \in DOMAIN mailbox' : mailbox'[i].own /\ mailbox'[i].delta = pending
                      \/ notice.at = "watch" /\ Shows(notice.state, pending)
                      \/ notice.at = "decide" /\ notice.expected = pending /\ Shows(notice.state, pending)
    BY <1>1 DEF Awaited, Shows, SelectKeys
  <2> QED BY <1>7 DEF RunInv, Awaited
<1>13. Ahead' = Ahead /\ Here' = Here /\ Token' = Token /\ Lags' = Lags
  BY <1>1, <1>8 DEF Ahead, Here, Token, Lags, One
<1>14. OneAtATime' /\ Seen' /\ (echoed => crossed)'
  BY <1>1, <1>13 DEF RunInv, OneAtATime, Seen
<1> QED BY <1>9, <1>10, <1>11, <1>12, <1>14 DEF RunInv

\* The watch reads what is expected.
LEMMA WatchReadsStep ==
  ASSUME RunInv, WatchReads
  PROVE  RunInv'
<1>1. /\ notice.at = "watch"
      /\ notice' = [at |-> "decide", own |-> notice.own, state |-> notice.state, expected |-> pending]
      /\ UNCHANGED <<program, atom, mailbox, pending, sending, mirror, crossed, echoed, page, toPage, toKernel, probe>>
  BY DEF WatchReads, transport
<1>2. /\ Shapes /\ notice.own \in BOOLEAN /\ notice.state \in States /\ notice.state = atom
      /\ pending \in {None} \cup OwnDeltas
  BY <1>1, NoticeShape DEF RunInv, Watched, Shapes
<1>3. /\ notice'.at = "decide" /\ notice'.own = notice.own /\ notice'.state = notice.state /\ notice'.expected = pending
      /\ notice' \in Notices
  BY <1>1, <1>2 DEF Notices
<1>4. Shapes'
  BY <1>1, <1>2, <1>3 DEF Shapes
<1>5. Watched'
  BY <1>1, <1>2, <1>3 DEF Watched
<1>6. Derived'
  BY <1>1, <1>3 DEF RunInv, Derived
<1>7. Awaited'
  <2> SUFFICES ASSUME pending # None
               PROVE  \/ sending = pending
                      \/ \E i \in DOMAIN mailbox : mailbox[i].own /\ mailbox[i].delta = pending
                      \/ Shows(notice.state, pending)
    BY <1>1, <1>3 DEF Awaited, Shows, SelectKeys
  <2> QED BY <1>1 DEF RunInv, Awaited
<1>8. PICK n \in Nat : n = Cardinality(OwnIn(mailbox))
  BY <1>2, OwnFinite DEF Shapes
<1>9. /\ Ahead' = Ahead /\ Here' = Here /\ Token' = Token /\ Lags' = Lags
      /\ Ahead \in Nat /\ Token = One(pending # None)
  BY <1>1, <1>3, <1>8 DEF Ahead, Here, Token, Lags, One
<1>10. OneAtATime' /\ (echoed => crossed)'
  BY <1>1, <1>9 DEF RunInv, OneAtATime
<1>11. Seen'
  <2>1. (Lags \/ ~notice.own) => Ahead >= Token
    BY <1>1 DEF RunInv, Seen
  <2>2. (Lags \/ ~notice.own) /\ pending # None => Ahead >= 1
    BY <1>9, <2>1 DEF One
  <2> QED BY <1>3, <1>9, <2>2 DEF Seen
<1> QED BY <1>4, <1>5, <1>6, <1>7, <1>10, <1>11 DEF RunInv

Matches == notice.expected # None /\ Shows(notice.state, notice.expected)

\* What it shows is taken for an echo: no expectation is left.
LEMMA EchoStep ==
  ASSUME RunInv, WatchDecides, Matches
  PROVE  RunInv'
<1>1. /\ notice.at = "decide" /\ pending' = None /\ notice' = Idle
      /\ crossed' = (crossed \/ ~notice.own \/ pending # notice.expected)
      /\ UNCHANGED <<program, atom, mailbox, sending, mirror, echoed, page, toPage, toKernel, probe>>
  BY DEF WatchDecides, Decide, Matches, Shows
<1>2. Shapes /\ notice.own \in BOOLEAN
  BY <1>1, NoticeShape DEF RunInv
<1>3. /\ crossed' \in BOOLEAN /\ (crossed => crossed')
      /\ ~crossed' => ~crossed /\ notice.own /\ pending = notice.expected
  BY <1>1, <1>2 DEF Shapes
<1>4. notice'.at = "idle" /\ notice' \in Notices
  BY <1>1 DEF Idle, Notices
<1>5. Shapes'
  BY <1>1, <1>2, <1>3, <1>4 DEF Shapes
<1>6. Watched' /\ Awaited'
  BY <1>1, <1>4 DEF Watched, Awaited
<1>7. Derived'
  BY <1>1, <1>4 DEF RunInv, Derived
<1>8. PICK n \in Nat : n = Cardinality(OwnIn(mailbox))
  BY <1>2, OwnFinite DEF Shapes
<1>9. /\ Ahead' = Ahead /\ Ahead \in Nat /\ Here' = 0 /\ Token' = 0 /\ Lags' = Lags
  BY <1>1, <1>4, <1>8 DEF Ahead, Here, Token, Lags, One
<1>10. OneAtATime'
  <2> SUFFICES ASSUME ~crossed' PROVE Ahead = 0
    BY <1>9 DEF OneAtATime
  <2>1. Here = 1 /\ Token = 1
    BY <1>1, <1>3 DEF Here, Token, One, Matches
  <2>2. Ahead + Here = Token
    BY <1>3 DEF RunInv, OneAtATime
  <2> QED BY <1>9, <2>1, <2>2
<1>11. (echoed => crossed)'
  BY <1>1, <1>3 DEF RunInv
<1>12. Seen'
  <2>1. Lags => Ahead >= 1
    BY <1>1 DEF RunInv, Seen, Matches
  <2> QED BY <1>4, <1>9, <2>1 DEF Seen
<1> QED BY <1>5, <1>6, <1>7, <1>10, <1>11, <1>12 DEF RunInv

\* The handler is called.  Were it with an echo and nothing had crossed, the one send
\* under way would be the one that is expected, and the state would show it.
LEMMA HandlerStep ==
  ASSUME RunInv, WatchDecides, ~Matches
  PROVE  RunInv'
<1>1. /\ notice.at = "decide" /\ Handle(notice.state)
      /\ UNCHANGED <<program, atom, mailbox, sending, page, toPage, toKernel, probe>>
  BY DEF WatchDecides, Decide, Matches, Shows
<1>2. Shapes /\ notice.own \in BOOLEAN /\ notice.state \in States /\ notice.state = atom
  BY <1>1, NoticeShape DEF RunInv, Watched
<1>3. mirror' = notice.state /\ echoed' = (echoed \/ notice.own)
  BY <1>1 DEF Handle
<1>4. echoed' \in BOOLEAN /\ (echoed' => echoed \/ notice.own)
  BY <1>2, <1>3 DEF Shapes
<1>5. PICK n \in Nat : n = Cardinality(OwnIn(mailbox))
  BY <1>2, OwnFinite DEF Shapes
<1>6. Lags' = FALSE /\ Ahead = n + One(sending # None)
  BY <1>1, <1>2, <1>3, <1>5 DEF Lags, Ahead, One
<1>7. ASSUME pending # None
      PROVE  sending = pending \/ \E i \in DOMAIN mailbox : mailbox[i].own /\ mailbox[i].delta = pending
  BY <1>1, <1>7 DEF RunInv, Awaited, Matches
<1>8. notice.own => crossed
  <2> SUFFICES ASSUME notice.own, ~crossed PROVE FALSE
    BY <1>2 DEF Shapes
  <2>1. Ahead + 1 = Token
    BY <1>1 DEF RunInv, OneAtATime, Here, One
  <2>2. n = 0 /\ sending = None /\ pending # None
    BY <1>6, <2>1 DEF Token, One
  <2>3. IsFiniteSet(OwnIn(mailbox))
    BY <1>2, OwnFinite DEF Shapes
  <2>4. OwnIn(mailbox) = {}
    BY <1>5, <2>2, <2>3, FS_EmptySet
  <2> QED BY <1>7, <2>2, <2>4 DEF OwnIn
<1>9. ~crossed => Here = 0 /\ Ahead = Token
  <2> SUFFICES ASSUME ~crossed PROVE Here = 0 /\ Ahead = Token
    OBVIOUS
  <2>1. Here = 0
    BY <1>8 DEF Here, One
  <2>2. Ahead + Here = Token
    BY DEF RunInv, OneAtATime
  <2> QED BY <1>6, <2>1, <2>2 DEF One
<1>10. CASE program = "derive"
  <2> DEFINE derived == [derived |-> notice.state.count]
  <2>1. /\ pending' = derived /\ notice' = [at |-> "send", delta |-> derived]
        /\ crossed' = (crossed \/ pending # None)
    BY <1>1, <1>10 DEF Handle, Expects
  <2>2. derived \in Derivations /\ derived # None /\ derived = [derived |-> mirror'.count]
    <3>1. derived \in Derivations /\ derived = [derived |-> mirror'.count]
      BY <1>2, <1>3 DEF Derivations, States
    <3> QED BY <3>1, DeltaShape
  <2> HIDE DEF derived
  <2>3. notice'.at = "send" /\ notice'.delta = derived /\ notice' \in Notices
    BY <2>1, <2>2 DEF Notices
  <2>4. crossed' \in BOOLEAN /\ (crossed => crossed') /\ (~crossed' => ~crossed /\ pending = None)
    BY <1>2, <2>1 DEF Shapes
  <2>5. Shapes'
    BY <1>1, <1>2, <1>3, <1>4, <2>1, <2>2, <2>3, <2>4 DEF Shapes, OwnDeltas
  <2>6. Watched' /\ Awaited'
    BY <2>1, <2>3 DEF Watched, Awaited
  <2>7. Derived'
    BY <2>2, <2>3 DEF Derived
  <2>8. Ahead' = Ahead + 1 /\ Here' = 0 /\ Token' = 1
    BY <1>1, <1>5, <1>6, <2>1, <2>2, <2>3 DEF Ahead, Here, Token, One
  <2>9. OneAtATime'
    <3> SUFFICES ASSUME ~crossed' PROVE Ahead = 0
      BY <1>6, <2>8 DEF OneAtATime, One
    <3> QED BY <1>9, <2>4 DEF Token, One
  <2>10. (echoed => crossed)'
    BY <1>4, <1>8, <2>4 DEF RunInv
  <2>11. Seen'
    BY <1>6, <2>3 DEF Seen
  <2> QED BY <2>5, <2>6, <2>7, <2>9, <2>10, <2>11 DEF RunInv
<1>11. CASE program # "derive"
  <2>1. notice' = Idle /\ UNCHANGED <<pending, crossed>>
    BY <1>1, <1>11 DEF Handle
  <2>2. notice'.at = "idle" /\ notice' \in Notices
    BY <2>1 DEF Idle, Notices
  <2>3. Shapes'
    BY <1>1, <1>2, <1>3, <1>4, <2>1, <2>2 DEF Shapes
  <2>4. Watched' /\ Derived'
    BY <1>1, <1>11, <2>2 DEF Watched, Derived
  <2>5. Awaited'
    BY <1>1, <1>7, <2>1 DEF Awaited
  <2>6. Ahead' = Ahead /\ Here' = 0 /\ Token' = Token
    BY <1>1, <1>5, <1>6, <2>1, <2>2 DEF Ahead, Here, Token, One
  <2>7. OneAtATime'
    <3> SUFFICES ASSUME ~crossed PROVE Ahead + 0 = Token
      BY <2>1, <2>6 DEF OneAtATime
    <3> QED BY <1>5, <1>6, <1>9 DEF One
  <2>8. (echoed => crossed)'
    BY <1>4, <1>8, <2>1 DEF RunInv
  <2>9. Seen'
    BY <1>6, <2>2 DEF Seen
  <2> QED BY <2>3, <2>4, <2>5, <2>7, <2>8, <2>9 DEF RunInv
<1> QED BY <1>10, <1>11

\* The page: a click and an update reach neither the comm-atom nor the transport.
LEMMA PageStep ==
  ASSUME RunInv, Click \/ PageReceives
  PROVE  RunInv'
<1>1. UNCHANGED <<program, atom, mailbox, notice, pending, sending, mirror, crossed, echoed, probe>>
  BY DEF Click, PageReceives, transport
<1>2. Shapes
  BY DEF RunInv
<1>3. page' \in States /\ toPage' \in Seq([type : {"comm_msg"}, state : States])
      /\ toKernel' \in Seq([type : {"update"}, state : Counts])
  <2> DEFINE Down == [type : {"comm_msg"}, state : States]
             Up == [type : {"update"}, state : Counts]
  <2>1. page \in States /\ toPage \in Seq(Down) /\ toKernel \in Seq(Up)
    BY <1>2 DEF Shapes
  <2>2. CASE Click
    <3> DEFINE message == CommMsg("update", [count |-> page'.count])
    <3>1. page' = [page EXCEPT !.count = @ + 1] /\ toKernel' = Append(toKernel, message) /\ toPage' = toPage
      BY <2>2 DEF Click
    <3>2. page' \in States
      <4> HIDE DEF message, Down, Up
      <4>1. page \in States /\ page' = [page EXCEPT !.count = page.count + 1]
        BY <2>1, <3>1
      <4>2. page \in [count : Nat, label : Nat, derived : Nat] /\ page.count + 1 \in Nat
        BY <4>1 DEF States
      <4> QED BY <4>1, <4>2 DEF States
    <3>3. PICK count \in Nat : count = page'.count
      BY <3>2 DEF States
    <3>4. CommMsg("update", [count |-> count]) \in Up
      BY DEF CommMsg, Counts
    <3>5. message \in Up
      BY <3>3, <3>4
    <3> HIDE DEF message, Down, Up
    <3>6. toKernel' \in Seq(Up) /\ toPage' \in Seq(Down)
      BY <2>1, <3>1, <3>5
    <3> QED BY <3>2, <3>6 DEF Up, Down
  <2>3. CASE PageReceives
    <3>1. toPage # << >> /\ page' = Head(toPage).state /\ toPage' = Tail(toPage) /\ toKernel' = toKernel
      BY <2>3 DEF PageReceives
    <3> HIDE DEF Down, Up
    <3>2. Head(toPage) \in Down /\ toPage' \in Seq(Down) /\ toKernel' \in Seq(Up)
      BY <2>1, <3>1
    <3>3. page' \in States
      BY <3>1, <3>2 DEF Down
    <3> QED BY <3>2, <3>3 DEF Up, Down
  <2> QED BY <2>2, <2>3
<1>4. Shapes'
  BY <1>1, <1>2, <1>3 DEF Shapes
<1>5. Watched' /\ Awaited' /\ Derived'
  BY <1>1 DEF RunInv, Watched, Awaited, Derived, Shows, SelectKeys
<1>6. OneAtATime' /\ Seen' /\ (echoed => crossed)'
  BY <1>1 DEF RunInv, OneAtATime, Seen, Ahead, Here, Token, Lags
<1> QED BY <1>4, <1>5, <1>6 DEF RunInv

-----------------------------------------------------------------------------
(***************************************************************************)
(* A kernel that is probed.                                                *)
(***************************************************************************)
LEMMA ProbeDeltas ==
  /\ [echo |-> 1] \in [echo : {1}] /\ [echo |-> 1] \in ProbeStates /\ DOMAIN [echo |-> 1] = {"echo"}
  /\ \A delta \in [echo : {1}] : DOMAIN delta = {"echo"} /\ delta \in [{"echo"} -> {1}]
  /\ \A delta \in [ping : {1}] : DOMAIN delta = {"ping"} /\ delta \in [{"ping"} -> {1}]
<1>1. /\ \A delta \in [echo : {1}] : DOMAIN delta = {"echo"} /\ delta \in [{"echo"} -> {1}]
      /\ \A delta \in [ping : {1}] : DOMAIN delta = {"ping"} /\ delta \in [{"ping"} -> {1}]
  OBVIOUS
<1>2. [echo |-> 1] \in [echo : {1}]
  OBVIOUS
<1>3. [echo |-> 1] \in [{"echo"} -> {1}] /\ DOMAIN [echo |-> 1] = {"echo"}
  BY <1>1, <1>2
<1> QED BY <1>1, <1>2, <1>3 DEF ProbeStates

LEMMA ProbeMerge ==
  ASSUME NEW state \in ProbeStates, NEW delta \in [echo : {1}] \cup [ping : {1}]
  PROVE  Merge(state, delta) \in ProbeStates /\ DOMAIN Merge(state, delta) = DOMAIN state \cup DOMAIN delta
<1>1. PICK keys \in SUBSET {"hello", "ping", "echo"} : state \in [keys -> {1}]
  BY DEF ProbeStates
<1>2. PICK more \in SUBSET {"ping", "echo"} : delta \in [more -> {1}]
  <2>1. delta \in [{"echo"} -> {1}] \/ delta \in [{"ping"} -> {1}]
    BY ProbeDeltas
  <2>2. {"echo"} \in SUBSET {"ping", "echo"} /\ {"ping"} \in SUBSET {"ping", "echo"}
    OBVIOUS
  <2> QED BY <2>1, <2>2
<1>3. Merge(state, delta) \in [keys \cup more -> {1}]
  BY <1>1, <1>2 DEF Merge
<1>4. keys \cup more \in SUBSET {"hello", "ping", "echo"}
  BY <1>1, <1>2
<1> QED BY <1>1, <1>2, <1>3, <1>4 DEF ProbeStates

LEMMA TypesAppended ==
  ASSUME NEW S, NEW q \in Seq(S), NEW m \in S
  PROVE  Types(Append(q, m)) = Types(q) \cup {m.type}
<1> DEFINE n == Len(q)
           r == Append(q, m)
<1>1. /\ n \in Nat /\ DOMAIN q = 1 .. n /\ DOMAIN r = 1 .. n + 1
      /\ \A i \in 1 .. n : r[i] = q[i]
      /\ r[n + 1] = m
  OBVIOUS
<1> HIDE DEF n, r
<1>2. /\ \A i \in DOMAIN r : i \in DOMAIN q \/ i = n + 1
      /\ \A i \in DOMAIN q : i \in DOMAIN r
      /\ n + 1 \in DOMAIN r
  BY <1>1
<1>3. Types(r) = Types(q) \cup {m.type}
  BY <1>1, <1>2 DEF Types
<1> QED BY <1>3 DEF r

LEMMA TypesTaken ==
  ASSUME NEW S, NEW q \in Seq(S), q # << >>
  PROVE  Types(q) = Types(Tail(q)) \cup {Head(q).type}
<1> DEFINE n == Len(q)
           r == Tail(q)
<1>1. /\ n \in Nat \ {0} /\ DOMAIN q = 1 .. n /\ DOMAIN r = 1 .. n - 1
      /\ \A i \in 1 .. n - 1 : r[i] = q[i + 1]
      /\ Head(q) = q[1]
  OBVIOUS
<1> HIDE DEF n, r
<1>2. /\ \A i \in DOMAIN q : i = 1 \/ (i - 1 \in DOMAIN r /\ r[i - 1] = q[i])
      /\ 1 \in DOMAIN q
      /\ \A i \in DOMAIN r : i + 1 \in DOMAIN q /\ r[i] = q[i + 1]
  <2>1. \A i \in DOMAIN q : i # 1 => i - 1 \in 1 .. n - 1 /\ (i - 1) + 1 = i
    BY <1>1
  <2> QED BY <1>1, <2>1
<1>3. Types(q) = Types(r) \cup {Head(q).type}
  <2>1. \A i \in DOMAIN q : q[i].type \in Types(r) \cup {Head(q).type}
    BY <1>1, <1>2 DEF Types
  <2>2. \A i \in DOMAIN r : r[i].type \in Types(q)
    BY <1>2 DEF Types
  <2>3. Head(q).type \in Types(q)
    BY <1>1, <1>2 DEF Types
  <2>4. Types(q) \subseteq Types(r) \cup {Head(q).type}
    BY <2>1 DEF Types
  <2>5. Types(r) \subseteq Types(q)
    BY <2>2 DEF Types
  <2> QED BY <2>3, <2>4, <2>5
<1> QED BY <1>3 DEF r

\* What is in the probe's record, and what its fields become.
LEMMA ProbeFields ==
  ASSUME ProbeShapes
  PROVE  /\ probe.at \in {"execute", "opens", "echo", "done"} /\ probe.seen \subseteq {"comm_open", "comm_msg"}
         /\ probe.early \in BOOLEAN
         /\ notice = Idle => notice.at = "idle"
         /\ Types(toPage) \subseteq {"comm_open", "comm_msg"}
<1>1. probe \in Probes /\ toPage \in Seq(ProbeMessages)
  BY DEF ProbeShapes
<1>2. \A i \in DOMAIN toPage : toPage[i].type \in {"comm_open", "comm_msg"}
  <2>1. \A i \in DOMAIN toPage : toPage[i] \in ProbeMessages
    BY <1>1
  <2> QED BY <2>1 DEF ProbeMessages
<1> QED BY <1>1, <1>2 DEF Probes, Types, Idle

\* The agent of the probed kernel: what it was sent by the program it also publishes.
LEMMA ProbeAgentStep ==
  ASSUME ProbeInv, AgentRuns
  PROVE  ProbeInv'
<1> DEFINE action == Head(mailbox)
           state == Merge(atom, action.delta)
           message == CommMsg("comm_msg", state)
<1>1. /\ notice = Idle /\ mailbox # << >> /\ mailbox' = Tail(mailbox)
      /\ atom' = state
      /\ toPage' = IF action.own THEN Append(toPage, message) ELSE toPage
      /\ notice' = [at |-> "watch", own |-> action.own, state |-> state]
      /\ UNCHANGED <<program, pending, sending, mirror, crossed, echoed, page, toKernel, probe>>
  BY DEF AgentRuns, transport
<1>2. ProbeShapes /\ Honest /\ Answering /\ Verdict
  BY DEF ProbeInv
<1>3. program = "clojure" /\ probe.at = "echo"
  BY <1>1, <1>2 DEF Honest
<1>4. mailbox' \in Seq(ProbeActions) /\ action \in ProbeActions
  BY <1>1, <1>2 DEF ProbeShapes
<1>5. /\ action.own \in BOOLEAN /\ action.delta \in [echo : {1}] \cup [ping : {1}]
      /\ ~action.own => action.delta \in [ping : {1}]
  BY <1>4 DEF ProbeActions
<1>6. state \in ProbeStates /\ DOMAIN state = DOMAIN atom \cup DOMAIN action.delta
  BY <1>2, <1>5, ProbeMerge DEF ProbeShapes
<1>7. message \in ProbeMessages /\ message.type = "comm_msg"
  BY <1>6 DEF CommMsg, ProbeMessages
<1> HIDE DEF action, state, message
<1>8. toPage' \in Seq(ProbeMessages) /\ Types(toPage') = Types(toPage) \cup IF action.own THEN {"comm_msg"} ELSE {}
  <2>1. toPage \in Seq(ProbeMessages)
    BY <1>2 DEF ProbeShapes
  <2>2. Append(toPage, message) \in Seq(ProbeMessages)
    BY <1>7, <2>1
  <2>3. Types(Append(toPage, message)) = Types(toPage) \cup {"comm_msg"}
    BY <1>7, <2>1, TypesAppended
  <2> QED BY <1>1, <1>5, <2>1, <2>2, <2>3
<1>9. notice'.at = "watch" /\ notice'.own = action.own /\ notice'.state = state /\ notice' # Idle
  BY <1>1 DEF Idle
<1>10. ProbeShapes'
  BY <1>1, <1>2, <1>4, <1>5, <1>6, <1>8, <1>9 DEF ProbeShapes, PingPayload, CommMsg
<1>11. Heard' = Heard \cup IF action.own THEN {"comm_msg"} ELSE {}
  BY <1>1, <1>8 DEF Heard
<1>12. Honest'
  BY <1>1, <1>2, <1>3, <1>11 DEF Honest
<1>13. Answering'
  <2>1. "echo" \in DOMAIN atom' => "comm_msg" \in Heard'
    <3>1. ~action.own => "echo" \notin DOMAIN action.delta
      BY <1>5, ProbeDeltas
    <3>2. "echo" \in DOMAIN atom => "comm_msg" \in Heard
      BY <1>2, <1>3 DEF Answering
    <3> QED BY <1>1, <1>5, <1>6, <1>11, <3>1, <3>2
  <2> QED BY <1>1, <1>3, <1>9, <2>1 DEF Answering
<1>14. Verdict'
  BY <1>1, <1>3 DEF Verdict
<1> QED BY <1>10, <1>12, <1>13, <1>14 DEF ProbeInv

\* A ping reaches the agent of "clojure".
LEMMA ProbeDispatchStep ==
  ASSUME ProbeInv, KernelDispatches
  PROVE  ProbeInv'
<1> DEFINE a == Action(FALSE, Head(toKernel).state)
<1>1. /\ program \in Transported \cup {"clojure"} /\ toKernel # << >> /\ toKernel' = Tail(toKernel)
      /\ mailbox' = IF Head(toKernel).type = "update" THEN Append(mailbox, a) ELSE mailbox
      /\ UNCHANGED <<program, atom, notice, pending, sending, mirror, crossed, echoed, page, toPage, probe>>
  BY DEF KernelDispatches, transport
<1>2. ProbeShapes /\ Honest /\ Answering /\ Verdict
  BY DEF ProbeInv
<1>3. program = "clojure"
  BY <1>1, <1>2 DEF ProbeShapes, Transported, Probed
<1>4. probe.at = "echo"
  BY <1>1, <1>2 DEF Honest
<1>5. Tail(toKernel) \in Seq({PingPayload}) /\ Head(toKernel) = PingPayload
  <2> DEFINE P == {PingPayload}
  <2>1. toKernel \in Seq(P)
    BY <1>2 DEF ProbeShapes
  <2> HIDE DEF P
  <2>2. Tail(toKernel) \in Seq(P) /\ Head(toKernel) \in P
    BY <1>1, <2>1
  <2> QED BY <2>2 DEF P
<1>6. Head(toKernel).type = "update" /\ Head(toKernel).state = [ping |-> 1]
  BY <1>3, <1>5 DEF PingPayload, CommMsg
<1>7. a \in ProbeActions
  BY <1>6 DEF Action, ProbeActions
<1> HIDE DEF a
<1>8. mailbox' = Append(mailbox, a) /\ mailbox' \in Seq(ProbeActions) /\ mailbox' # << >>
  <2>1. mailbox' = Append(mailbox, a)
    BY <1>1, <1>6
  <2>2. mailbox \in Seq(ProbeActions)
    BY <1>2 DEF ProbeShapes
  <2>3. Append(mailbox, a) \in Seq(ProbeActions) /\ Len(Append(mailbox, a)) = Len(mailbox) + 1
    BY <1>7, <2>2
  <2>4. Append(mailbox, a) # << >>
    <3>1. Len(mailbox) \in Nat /\ Len(<< >>) = 0
      BY <2>2
    <3> QED BY <2>3, <3>1
  <2> QED BY <2>1, <2>3, <2>4
<1>9. ProbeShapes'
  BY <1>1, <1>2, <1>5, <1>8 DEF ProbeShapes, PingPayload
<1>10. Heard' = Heard
  BY <1>1 DEF Heard, Types
<1>11. Honest' /\ Answering' /\ Verdict'
  BY <1>1, <1>2, <1>3, <1>4, <1>8, <1>10 DEF Honest, Answering, Verdict
<1> QED BY <1>9, <1>11 DEF ProbeInv

\* The watch of "clojure" answers, unless it has.
LEMMA ProbeWatchStep ==
  ASSUME ProbeInv, ProbeWatch \/ HandlerSends
  PROVE  ProbeInv'
<1>1. ProbeShapes /\ Honest /\ Answering /\ Verdict
  BY DEF ProbeInv
<1>2. UNCHANGED <<program, atom, pending, sending, mirror, crossed, echoed, page, toPage, toKernel, probe>>
  BY DEF ProbeWatch, HandlerSends, transport
<1>3. notice.at \in {"watch", "send"} /\ notice # Idle
  <2>1. notice.at \in {"watch", "send"}
    BY DEF ProbeWatch, HandlerSends
  <2> QED BY <1>1, <2>1, ProbeFields
<1>4. program = "clojure" /\ probe.at = "echo"
  BY <1>1, <1>3 DEF Honest
<1>5. Heard' = Heard
  BY <1>2 DEF Heard, Types
<1>6. CASE ProbeWatch
  <2>1. /\ notice.at = "watch" /\ mailbox' = mailbox
        /\ notice' = IF "echo" \in DOMAIN notice.state THEN Idle ELSE [at |-> "send", delta |-> [echo |-> 1]]
    BY <1>6 DEF ProbeWatch
  <2>2. notice.state = atom
    BY <1>1, <2>1 DEF ProbeShapes
  <2>3. /\ notice'.at \in {"idle", "send"} /\ (notice'.at = "send" => notice'.delta \in [echo : {1}])
        /\ notice' = Idle => "echo" \in DOMAIN atom
    <3>1. CASE "echo" \in DOMAIN notice.state
      BY <2>1, <2>2, <3>1 DEF Idle
    <3>2. CASE "echo" \notin DOMAIN notice.state
      BY <2>1, <3>2 DEF Idle
    <3> QED BY <3>1, <3>2
  <2>4. ProbeShapes'
    BY <1>1, <1>2, <2>1, <2>3 DEF ProbeShapes, PingPayload
  <2>5. Honest' /\ Answering' /\ Verdict'
    BY <1>1, <1>2, <1>4, <1>5, <2>1, <2>3 DEF Honest, Answering, Verdict
  <2> QED BY <2>4, <2>5 DEF ProbeInv
<1>7. CASE HandlerSends
  <2> DEFINE a == Action(TRUE, notice.delta)
  <2>1. notice.at = "send" /\ mailbox' = Append(mailbox, a) /\ notice' = Idle
    BY <1>7 DEF HandlerSends
  <2>2. a \in ProbeActions
    BY <1>1, <2>1 DEF ProbeShapes, Action, ProbeActions
  <2> HIDE DEF a
  <2>3. mailbox' \in Seq(ProbeActions) /\ mailbox' # << >>
    BY <1>1, <2>1, <2>2 DEF ProbeShapes
  <2>4. notice'.at = "idle"
    BY <2>1 DEF Idle
  <2>5. ProbeShapes'
    BY <1>1, <1>2, <2>3, <2>4 DEF ProbeShapes, PingPayload
  <2>6. Honest' /\ Answering' /\ Verdict'
    BY <1>1, <1>2, <1>4, <1>5, <2>3 DEF Honest, Answering, Verdict
  <2> QED BY <2>5, <2>6 DEF ProbeInv
<1> QED BY <1>6, <1>7

\* The callback of the others answers each message, or never.
LEMMA ProbeCallbackStep ==
  ASSUME ProbeInv, ProbeCallback
  PROVE  ProbeInv'
<1> DEFINE message == CommMsg("comm_msg", [echo |-> 1])
<1>1. /\ program \in {"python3", "deaf"} /\ toKernel # << >> /\ toKernel' = Tail(toKernel)
      /\ toPage' = IF program = "python3" THEN Append(toPage, message) ELSE toPage
      /\ UNCHANGED <<program, atom, mailbox, notice, pending, sending, mirror, crossed, echoed, page, probe>>
  BY DEF ProbeCallback, transport
<1>2. ProbeShapes /\ Honest /\ Answering /\ Verdict
  BY DEF ProbeInv
<1>3. probe.at = "echo"
  BY <1>1, <1>2 DEF Honest
<1>4. toKernel' \in Seq({PingPayload})
  <2> DEFINE P == {PingPayload}
  <2>1. toKernel \in Seq(P)
    BY <1>2 DEF ProbeShapes
  <2> HIDE DEF P
  <2>2. toKernel' \in Seq(P)
    BY <1>1, <2>1
  <2> QED BY <2>2 DEF P
<1>5. message \in ProbeMessages /\ message.type = "comm_msg"
  BY ProbeDeltas DEF CommMsg, ProbeMessages
<1> HIDE DEF message
<1>6. toPage' \in Seq(ProbeMessages) /\ Types(toPage') = Types(toPage) \cup IF program = "python3" THEN {"comm_msg"} ELSE {}
  <2>1. toPage \in Seq(ProbeMessages)
    BY <1>2 DEF ProbeShapes
  <2>2. Append(toPage, message) \in Seq(ProbeMessages)
    BY <1>5, <2>1
  <2>3. Types(Append(toPage, message)) = Types(toPage) \cup {"comm_msg"}
    BY <1>5, <2>1, TypesAppended
  <2> QED BY <1>1, <2>1, <2>2, <2>3
<1>7. Heard' = Heard \cup IF program = "python3" THEN {"comm_msg"} ELSE {}
  BY <1>1, <1>6 DEF Heard
<1>8. ProbeShapes'
  BY <1>1, <1>2, <1>4, <1>6 DEF ProbeShapes, PingPayload
<1>9. Honest' /\ Answering' /\ Verdict'
  BY <1>1, <1>2, <1>3, <1>7 DEF Honest, Answering, Verdict
<1> QED BY <1>8, <1>9 DEF ProbeInv

\* _execute: the comm_open is the first thing that can be heard.
LEMMA ProbeExecutesStep ==
  ASSUME ProbeInv, ProbeExecutes
  PROVE  ProbeInv'
<1> DEFINE message == CommMsg("comm_open", atom)
<1>1. /\ probe.at = "execute" /\ program # "broken"
      /\ toPage' = IF program = "mute" THEN << >> ELSE <<message>>
      /\ probe' = [probe EXCEPT !.at = "opens"]
      /\ UNCHANGED <<program, atom, mailbox, notice, pending, sending, mirror, crossed, echoed, page, toKernel>>
  BY DEF ProbeExecutes, kernel, rest, transport
<1>2. ProbeShapes /\ Honest /\ Answering /\ Verdict
  BY DEF ProbeInv
<1>3. message \in ProbeMessages /\ message.type = "comm_open"
  BY <1>2 DEF CommMsg, ProbeMessages, ProbeShapes
<1> HIDE DEF message
<1>4. probe' \in Probes /\ probe'.at = "opens" /\ probe'.seen = probe.seen /\ probe'.early = probe.early
  BY <1>1, <1>2 DEF ProbeShapes, Probes
<1>5. toPage' \in Seq(ProbeMessages) /\ Types(toPage') = IF program = "mute" THEN {} ELSE {"comm_open"}
  <2>1. CASE program = "mute"
    BY <1>1, <2>1 DEF Types
  <2>2. CASE program # "mute"
    <3>1. toPage' = <<message>> /\ <<message>> \in Seq(ProbeMessages)
      BY <1>1, <1>3, <2>2
    <3>2. DOMAIN <<message>> = {1} /\ <<message>>[1] = message
      OBVIOUS
    <3>3. Types(<<message>>) = {"comm_open"}
      BY <1>3, <3>2 DEF Types
    <3> QED BY <2>2, <3>1, <3>3
  <2> QED BY <2>1, <2>2
<1>6. "comm_open" \in probe.seen => program \notin {"mute", "broken"}
  BY <1>2 DEF Honest, Heard
<1>7. Heard' = probe.seen \cup IF program = "mute" THEN {} ELSE {"comm_open"}
  BY <1>4, <1>5 DEF Heard
<1>8. "comm_msg" \notin probe.seen /\ probe.seen \subseteq {"comm_open", "comm_msg"}
  BY <1>1, <1>2 DEF Honest, Heard
<1>9. ProbeShapes'
  BY <1>1, <1>2, <1>4, <1>5 DEF ProbeShapes, PingPayload
<1>10. Honest'
  BY <1>1, <1>2, <1>4, <1>6, <1>7, <1>8 DEF Honest
<1>11. Answering'
  BY <1>1, <1>2, <1>4, <1>7 DEF Answering
<1>12. Verdict'
  BY <1>4 DEF Verdict
<1> QED BY <1>9, <1>10, <1>11, <1>12 DEF ProbeInv

\* _drain_iopub: what is taken is still heard of.
LEMMA ProbeTakesStep ==
  ASSUME ProbeInv, ProbeTakes
  PROVE  ProbeInv'
<1> DEFINE type == Head(toPage).type
<1>1. /\ probe.at \in {"opens", "echo"} /\ toPage # << >>
      /\ probe' = [probe EXCEPT !.seen = @ \cup {type}]
      /\ toPage' = Tail(toPage)
      /\ UNCHANGED <<program, atom, mailbox, notice, pending, sending, mirror, crossed, echoed, page, toKernel>>
  BY DEF ProbeTakes, kernel, rest, transport
<1>2. ProbeShapes /\ Honest /\ Answering /\ Verdict
  BY DEF ProbeInv
<1>3. toPage \in Seq(ProbeMessages) /\ toPage' \in Seq(ProbeMessages)
  BY <1>1, <1>2 DEF ProbeShapes
<1>4. Types(toPage) = Types(toPage') \cup {type}
  BY <1>1, <1>3, TypesTaken
<1> HIDE DEF type
<1>5. type \in {"comm_open", "comm_msg"}
  BY <1>2, <1>4, ProbeFields
<1>6. /\ probe' \in Probes /\ probe'.at = probe.at /\ probe'.seen = probe.seen \cup {type} /\ probe'.early = probe.early
      /\ probe'.tier = probe.tier
  BY <1>1, <1>2, <1>5 DEF ProbeShapes, Probes
<1>7. Heard' = Heard
  BY <1>4, <1>6 DEF Heard
<1>8. ProbeShapes'
  BY <1>1, <1>2, <1>3, <1>6 DEF ProbeShapes, PingPayload
<1>9. Honest' /\ Answering' /\ Verdict'
  BY <1>1, <1>2, <1>6, <1>7 DEF Honest, Answering, Verdict
<1> QED BY <1>8, <1>9 DEF ProbeInv

\* The ping starts its way.
LEMMA ProbePingsStep ==
  ASSUME ProbeInv, ProbePings
  PROVE  ProbeInv'
<1>1. /\ probe.at = "opens" /\ "comm_open" \in probe.seen
      /\ probe' = [probe EXCEPT !.at = "echo", !.seen = {}, !.early = Early]
      /\ toKernel' = <<PingPayload>>
      /\ UNCHANGED <<program, atom, mailbox, notice, pending, sending, mirror, crossed, echoed, page, toPage>>
  BY DEF ProbePings, kernel, rest, transport
<1>2. ProbeShapes /\ Honest /\ Answering /\ Verdict
  BY DEF ProbeInv
<1>3. Early \in BOOLEAN
  BY <1>2, ProbeFields DEF Early
<1>4. probe' \in Probes /\ probe'.at = "echo" /\ probe'.seen = {}
  <2> HIDE DEF Early
  <2> QED BY <1>1, <1>2, <1>3 DEF ProbeShapes, Probes
<1>5. toKernel' \in Seq({PingPayload}) /\ toKernel' # << >>
  <2> DEFINE p == PingPayload
  <2> HIDE DEF p
  <2>1. <<p>> \in Seq({p}) /\ <<p>> # << >>
    OBVIOUS
  <2> QED BY <1>1, <2>1 DEF p
<1>6. Heard' \subseteq Heard /\ "comm_msg" \notin Heard /\ "comm_open" \in Heard
  BY <1>1, <1>2, <1>4 DEF Heard, Types, Honest
<1>7. ProbeShapes'
  BY <1>1, <1>2, <1>4, <1>5 DEF ProbeShapes, PingPayload
<1>8. Honest'
  BY <1>1, <1>2, <1>4, <1>6 DEF Honest
<1>9. Answering'
  BY <1>1, <1>2, <1>4, <1>5 DEF Answering
<1>10. Verdict'
  BY <1>4 DEF Verdict
<1> QED BY <1>7, <1>8, <1>9, <1>10 DEF ProbeInv

\* The probe ends, raising or with a tier: a tier is never more than the program can do,
\* and exactly that if the drain that came before it left nothing on its way.
LEMMA ProbeEndsStep ==
  ASSUME ProbeInv, ProbeRaises \/ ProbeConcludes
  PROVE  ProbeInv'
<1>1. ProbeShapes /\ Honest /\ Answering /\ Verdict
  BY DEF ProbeInv
<1>2. PICK tier \in {"raised", "NO_COMM", "BROADCAST_ONLY", "BIDIRECTIONAL"}, early \in BOOLEAN :
         /\ Ends(tier, early)
         /\ \/ tier = "raised"
            \/ probe.at = "opens" /\ "comm_open" \notin probe.seen /\ tier = "NO_COMM" /\ early = Early
            \/ /\ probe.at = "echo" /\ early = Early
               /\ tier = IF "comm_msg" \in probe.seen THEN "BIDIRECTIONAL" ELSE "BROADCAST_ONLY"
  <2>1. Early \in BOOLEAN /\ probe.early \in BOOLEAN
    BY <1>1, ProbeFields DEF Early
  <2> HIDE DEF Early
  <2> QED BY <2>1 DEF ProbeRaises, ProbeConcludes
<1>3. /\ probe' = [at |-> "done", seen |-> {}, tier |-> tier, early |-> early]
      /\ mailbox' = << >> /\ notice' = Idle /\ toPage' = << >> /\ toKernel' = << >>
      /\ UNCHANGED <<program, atom, pending, sending, mirror, crossed, echoed, page>>
  BY <1>2 DEF Ends, transport, rest
<1>4. probe' \in Probes /\ probe'.at = "done" /\ probe'.seen = {} /\ probe'.tier = tier /\ probe'.early = early
  BY <1>3 DEF Probes
<1>5. notice'.at = "idle"
  BY <1>3 DEF Idle
<1>6. Types(toPage') = {} /\ Heard' = {}
  BY <1>3, <1>4 DEF Types, Heard
<1>7. ProbeShapes'
  BY <1>1, <1>3, <1>4, <1>5 DEF ProbeShapes
<1>8. Honest' /\ Answering'
  BY <1>3, <1>4, <1>6 DEF Honest, Answering
<1>9. ~early /\ tier # "raised" => toPage = << >> /\ toKernel = << >> /\ mailbox = << >> /\ notice = Idle
  <2> SUFFICES ASSUME ~Early PROVE toPage = << >> /\ toKernel = << >> /\ mailbox = << >> /\ notice = Idle
    BY <1>2
  <2>1. toPage \o toKernel \o mailbox = << >> /\ notice = Idle
    BY DEF Early
  <2>2. toPage \in Seq(ProbeMessages) /\ toKernel \in Seq({PingPayload}) /\ mailbox \in Seq(ProbeActions)
    BY <1>1 DEF ProbeShapes
  <2>3. Len(toPage \o toKernel \o mailbox) = Len(toPage) + Len(toKernel) + Len(mailbox)
    BY <2>2
  <2>4. Len(toPage) = 0 /\ Len(toKernel) = 0 /\ Len(mailbox) = 0
    BY <2>1, <2>2, <2>3
  <2> QED BY <2>1, <2>2, <2>4
<1>10. tier # "raised" => Rank(tier) >= Rank(Capability) /\ (~early => tier = Capability)
  <2>1. program \in {"clojure", "python3", "deaf", "mute", "broken"}
    BY <1>1 DEF ProbeShapes, Probed
  <2>2. CASE probe.at = "opens" /\ "comm_open" \notin probe.seen /\ tier = "NO_COMM"
    <3>1. Rank(tier) >= Rank(Capability)
      BY <2>2 DEF Rank
    <3>2. ~early => "comm_open" \notin Heard
      BY <1>9, <2>2 DEF Heard, Types
    <3>3. ~early => program \in {"mute", "broken"}
      BY <1>1, <2>2, <3>2 DEF Answering
    <3> QED BY <2>2, <3>1, <3>3 DEF Capability
  <2>3. CASE probe.at = "echo" /\ tier = IF "comm_msg" \in probe.seen THEN "BIDIRECTIONAL" ELSE "BROADCAST_ONLY"
    <3>1. program \notin {"mute", "broken"}
      BY <1>1, <2>3 DEF Honest
    <3>2. CASE "comm_msg" \in probe.seen
      <4>1. program \in {"clojure", "python3"}
        BY <1>1, <3>2 DEF Honest, Heard
      <4> QED BY <2>3, <3>2, <4>1 DEF Capability, Rank
    <3>3. CASE "comm_msg" \notin probe.seen
      <4>1. Rank(tier) >= Rank(Capability)
        BY <2>1, <2>3, <3>1, <3>3 DEF Capability, Rank
      <4>2. ~early => "comm_msg" \notin Heard /\ toKernel = << >> /\ mailbox = << >> /\ notice = Idle
        BY <1>9, <2>3, <3>3 DEF Heard, Types
      <4>3. ~early => program = "deaf"
        BY <1>1, <2>1, <2>3, <3>1, <4>2 DEF Answering
      <4> QED BY <2>3, <3>3, <4>1, <4>3 DEF Capability
    <3> QED BY <3>2, <3>3
  <2> QED BY <1>2, <2>2, <2>3
<1>11. Verdict'
  BY <1>3, <1>4, <1>10 DEF Verdict, Rank, Capability
<1> QED BY <1>7, <1>8, <1>11 DEF ProbeInv
-----------------------------------------------------------------------------
LEMMA CljInit == Init => CljInv
<1> SUFFICES ASSUME Init PROVE CljInv
  OBVIOUS
<1>1. /\ program \in Transported \cup Probed
      /\ atom = IF program \in Transported THEN [count |-> 0, label |-> 0, derived |-> 0] ELSE [hello |-> 1]
      /\ mirror = atom /\ page = atom
      /\ mailbox = << >> /\ notice = Idle /\ pending = None /\ sending = None
      /\ toPage = << >> /\ toKernel = << >>
      /\ crossed = FALSE /\ echoed = FALSE
      /\ probe = [at |-> IF program \in Probed THEN "execute" ELSE "none",
                  seen |-> {}, tier |-> "none", early |-> FALSE]
  BY DEF Init
<1>2. notice.at = "idle" /\ notice \in Notices
  BY <1>1 DEF Idle, Notices
<1>3. CASE program \in Transported
  <2>1. program \notin Probed
    BY <1>3 DEF Transported, Probed
  <2>2. probe.at = "none" /\ atom = [count |-> 0, label |-> 0, derived |-> 0]
    BY <1>1, <1>3, <2>1
  <2>3. atom \in States /\ atom.count = 0 /\ atom.derived = 0
    BY <2>2 DEF States
  <2>4. Shapes
    <3>1. atom \in States /\ mirror \in States /\ page \in States
      BY <1>1, <2>3
    <3>2. mailbox \in Seq(Actions)
      BY <1>1
    <3>3. toPage \in Seq([type : {"comm_msg"}, state : States])
      BY <1>1
    <3>4. toKernel \in Seq([type : {"update"}, state : Counts])
      BY <1>1
    <3>5. pending \in {None} \cup OwnDeltas /\ sending \in {None} \cup Labels
      BY <1>1
    <3>6. crossed \in BOOLEAN /\ echoed \in BOOLEAN
      BY <1>1
    <3> QED BY <1>2, <1>3, <2>2, <3>1, <3>2, <3>3, <3>4, <3>5, <3>6 DEF Shapes
  <2>5. Cardinality(OwnIn(mailbox)) = 0
    BY <1>1, <2>4, OwnFinite DEF Shapes
  <2>6. Ahead = 0 /\ Here = 0 /\ Token = 0 /\ ~Lags
    BY <1>1, <1>2, <2>5 DEF Ahead, Here, Token, Lags, One
  <2>7. Watched /\ Awaited /\ OneAtATime /\ (echoed => crossed) /\ Seen
    BY <1>1, <1>2, <2>6 DEF Watched, Awaited, OneAtATime, Seen
  <2>8. Derived
    BY <1>1, <1>2, <2>3 DEF Derived
  <2> QED BY <2>4, <2>7, <2>8 DEF RunInv, CljInv
<1>4. CASE program \in Probed
  <2>1. program \notin Transported
    BY <1>4 DEF Transported, Probed
  <2>2. /\ probe.at = "execute" /\ probe.seen = {} /\ probe \in Probes
        /\ atom = [hello |-> 1]
    BY <1>1, <1>4, <2>1 DEF Probes
  <2>3. atom \in ProbeStates /\ DOMAIN atom = {"hello"}
    <3>1. [hello |-> 1] \in [{"hello"} -> {1}] /\ DOMAIN [hello |-> 1] = {"hello"}
      OBVIOUS
    <3>2. [hello |-> 1] \in ProbeStates
      BY <3>1 DEF ProbeStates
    <3> QED BY <2>2, <3>1, <3>2
  <2>4. ProbeShapes
    BY <1>1, <1>2, <1>4, <2>2, <2>3 DEF ProbeShapes
  <2>5. Heard = {}
    BY <1>1, <2>2 DEF Heard, Types
  <2>6. Honest
    BY <1>1, <2>2, <2>5 DEF Honest
  <2>7. Answering /\ Verdict
    BY <2>2, <2>3 DEF Answering, Verdict
  <2> QED BY <2>4, <2>6, <2>7 DEF ProbeInv, CljInv
<1> QED BY <1>1, <1>3, <1>4

LEMMA CljStep == CljInv /\ [Next]_vars => CljInv'
<1> SUFFICES ASSUME CljInv, [Next]_vars PROVE CljInv'
  OBVIOUS
<1>1. CASE RunInv
  <2>1. /\ program \in Transported /\ program \notin Probed \cup {"clojure", "python3", "deaf"}
        /\ probe.at = "none"
    BY <1>1 DEF RunInv, Shapes, Transported, Probed
  <2>2. CASE AgentRuns
    BY <1>1, <2>2, AgentStep DEF CljInv
  <2>3. CASE WatchReads
    BY <1>1, <2>3, WatchReadsStep DEF CljInv
  <2>4. CASE WatchDecides
    BY <1>1, <2>4, EchoStep, HandlerStep DEF CljInv
  <2>5. CASE HandlerSends
    BY <1>1, <2>5, HandlerSendsStep DEF CljInv
  <2>6. CASE KernelDispatches
    BY <1>1, <2>6, DispatchStep DEF CljInv
  <2>7. CASE Predict
    BY <1>1, <2>7, PredictStep DEF CljInv
  <2>8. CASE StateUpdate
    BY <1>1, <2>8, StateUpdateStep DEF CljInv
  <2>9. CASE Click \/ PageReceives
    BY <1>1, <2>9, PageStep DEF CljInv
  <2>10. ~ProbeWatch /\ ~ProbeCallback
    BY <2>1 DEF ProbeWatch, ProbeCallback
  <2>11. ~Prober
    BY <2>1 DEF Prober, ProbeExecutes, ProbeRaises, ProbeTakes, ProbePings, ProbeConcludes
  <2>12. CASE UNCHANGED vars
    <3>1. UNCHANGED <<program, atom, mailbox, notice, pending, sending, mirror, crossed, echoed, page, toPage, toKernel, probe>>
      BY <2>12 DEF vars, transport
    <3>2. Shapes' /\ Watched' /\ Awaited' /\ Derived'
      BY <1>1, <3>1 DEF RunInv, Shapes, Watched, Awaited, Derived, Shows, SelectKeys
    <3>3. OneAtATime' /\ Seen' /\ (echoed => crossed)'
      BY <1>1, <3>1 DEF RunInv, OneAtATime, Seen, Ahead, Here, Token, Lags
    <3> QED BY <3>2, <3>3 DEF RunInv, CljInv
  <2> QED BY <2>2, <2>3, <2>4, <2>5, <2>6, <2>7, <2>8, <2>9, <2>10, <2>11, <2>12 DEF Next, Agent, Kernel, SendState
<1>2. CASE ProbeInv
  <2>1. program \notin Transported /\ sending = None /\ notice.at # "decide"
    BY <1>2 DEF ProbeInv, ProbeShapes, Transported, Probed
  <2>2. CASE AgentRuns
    BY <1>2, <2>2, ProbeAgentStep DEF CljInv
  <2>3. CASE ProbeWatch \/ HandlerSends
    BY <1>2, <2>3, ProbeWatchStep DEF CljInv
  <2>4. CASE KernelDispatches
    BY <1>2, <2>4, ProbeDispatchStep DEF CljInv
  <2>5. CASE ProbeCallback
    BY <1>2, <2>5, ProbeCallbackStep DEF CljInv
  <2>6. CASE ProbeExecutes
    BY <1>2, <2>6, ProbeExecutesStep DEF CljInv
  <2>7. CASE ProbeTakes
    BY <1>2, <2>7, ProbeTakesStep DEF CljInv
  <2>8. CASE ProbePings
    BY <1>2, <2>8, ProbePingsStep DEF CljInv
  <2>9. CASE ProbeRaises \/ ProbeConcludes
    BY <1>2, <2>9, ProbeEndsStep DEF CljInv
  <2>10. ~WatchReads /\ ~WatchDecides /\ ~SendState /\ ~Click /\ ~PageReceives
    BY <2>1 DEF WatchReads, WatchDecides, SendState, Predict, StateUpdate, Click, PageReceives
  <2>11. CASE UNCHANGED vars
    <3>1. UNCHANGED <<program, atom, mailbox, notice, pending, sending, mirror, crossed, echoed, page, toPage, toKernel, probe>>
      BY <2>11 DEF vars, transport
    <3>2. ProbeShapes' /\ Verdict'
      BY <1>2, <3>1 DEF ProbeInv, ProbeShapes, PingPayload, Verdict, Rank, Capability
    <3>3. Honest' /\ Answering'
      BY <1>2, <3>1 DEF ProbeInv, Honest, Answering, Heard, Types
    <3> QED BY <3>2, <3>3 DEF ProbeInv, CljInv
  <2> QED BY <2>2, <2>3, <2>4, <2>5, <2>6, <2>7, <2>8, <2>9, <2>10, <2>11 DEF Next, Agent, Kernel, Prober
<1> QED BY <1>1, <1>2 DEF CljInv
-----------------------------------------------------------------------------
(***************************************************************************)
(* The theorems.                                                           *)
(***************************************************************************)

\* The inductive invariant.  With the transport: what is expected is still under way, and
\* a count the handler has not seen is under way more often than echoes can swallow it.
\* Of a probe: an answer, or what leads to one, is somewhere between kernel and client.
THEOREM CljInvariant == Spec => []CljInv
  BY CljInit, CljStep, PTL DEF Spec

\* The comm-atom, the agent's mailbox, `pending' and the probe keep their shapes.
THEOREM CljTypeOK == Spec => []TypeOK
<1>1. RunInv => TypeOK
  <2> SUFFICES ASSUME RunInv PROVE TypeOK
    OBVIOUS
  <2>1. Shapes
    BY DEF RunInv
  <2>2. {mailbox[i].own : i \in DOMAIN mailbox} \subseteq BOOLEAN
    <3>1. \A i \in DOMAIN mailbox : mailbox[i] \in Actions
      BY <2>1 DEF Shapes
    <3> QED BY <3>1, ActionShape
  <2>3. {toPage[i].type : i \in DOMAIN toPage} \subseteq {"comm_open", "comm_msg"}
    <3> DEFINE M == [type : {"comm_msg"}, state : States]
    <3>1. toPage \in Seq(M)
      BY <2>1 DEF Shapes
    <3> HIDE DEF M
    <3>2. \A i \in DOMAIN toPage : toPage[i] \in M
      BY <3>1
    <3> QED BY <3>2 DEF M
  <2>4. DOMAIN pending \subseteq {"label", "derived"} /\ DOMAIN sending \subseteq {"label"}
    <3>1. DOMAIN None = {}
      BY DEF None
    <3> QED BY <2>1, <3>1, DeltaShape DEF Shapes, OwnDeltas
  <2>5. /\ DOMAIN mirror = DOMAIN page /\ DOMAIN atom = {"count", "label", "derived"} /\ page.count \in Nat
    BY <2>1 DEF Shapes, States
  <2>6. notice.at \in {"idle", "watch", "decide", "send"}
    BY <2>1, NoticeShape
  <2>7. probe.at = "none"
    BY <2>1 DEF Shapes
  <2> QED BY <2>2, <2>3, <2>4, <2>5, <2>6, <2>7 DEF TypeOK
<1>2. ProbeInv => TypeOK
  <2> SUFFICES ASSUME ProbeInv PROVE TypeOK
    OBVIOUS
  <2>1. ProbeShapes
    BY DEF ProbeInv
  <2>2. {mailbox[i].own : i \in DOMAIN mailbox} \subseteq BOOLEAN
    <3>1. \A i \in DOMAIN mailbox : mailbox[i] \in ProbeActions
      BY <2>1 DEF ProbeShapes
    <3> QED BY <3>1 DEF ProbeActions
  <2>3. {toPage[i].type : i \in DOMAIN toPage} \subseteq {"comm_open", "comm_msg"}
    BY <2>1, ProbeFields DEF Types
  <2>4. DOMAIN pending = {} /\ DOMAIN sending = {}
    BY <2>1 DEF ProbeShapes, None
  <2>5. program \notin Transported /\ DOMAIN mirror = DOMAIN page /\ notice.at \in {"idle", "watch", "send"}
    BY <2>1 DEF ProbeShapes, Transported, Probed
  <2>6. probe.at \in {"execute", "opens", "echo", "done"}
    BY <2>1, ProbeFields
  <2> QED BY <2>2, <2>3, <2>4, <2>5, <2>6 DEF TypeOK
<1> QED BY <1>1, <1>2, CljInvariant, PTL DEF CljInv

\* on-update!'s guard: its handler is called with an echo only when sends overlapped or
\* an update of the page looked like one.
THEOREM CljEchoSkipped == Spec => []EchoSkipped
<1>1. CljInv => EchoSkipped
  BY DEF CljInv, RunInv, ProbeInv, ProbeShapes, EchoSkipped
<1> QED BY <1>1, CljInvariant, PTL

\* However the threads raced for `pending', once the kernel is quiet the handler has seen
\* the comm-atom's count, what it derived is stored, and nothing is expected any more.
THEOREM CljNothingLost == Spec => []NothingLost
<1>1. RunInv => NothingLost
  <2> SUFFICES ASSUME RunInv, KernelQuiet
               PROVE  /\ pending = None
                      /\ mirror.count = atom.count
                      /\ program = "derive" => atom.derived = atom.count
    BY DEF NothingLost
  <2>1. /\ mailbox = << >> /\ sending = None /\ notice.at = "idle"
    BY DEF KernelQuiet, Idle
  <2>2. pending = None
    BY <2>1 DEF RunInv, Awaited
  <2>3. Ahead = 0 /\ Token = 0
    <3>1. Cardinality(OwnIn(mailbox)) = 0
      BY <2>1, OwnFinite DEF RunInv, Shapes
    <3> QED BY <2>1, <2>2, <3>1 DEF Ahead, Token, One
  <2>4. ~Lags
    BY <2>1, <2>3 DEF RunInv, Seen
  <2>5. program = "derive" => atom.derived = mirror.count
    BY <2>1 DEF RunInv, Derived
  <2> QED BY <2>2, <2>4, <2>5 DEF Lags
<1>2. ProbeInv => NothingLost
  BY DEF ProbeInv, ProbeShapes, Transported, Probed, NothingLost
<1> QED BY <1>1, <1>2, CljInvariant, PTL DEF CljInv

\* The probe's tier is never above what the kernel can do, and exact if no drain of
\* iopub ended while something was still on its way.
THEOREM CljVerdict == Spec => []Verdict
<1>1. RunInv => Verdict
  BY DEF RunInv, Shapes, Verdict
<1>2. ProbeInv => Verdict
  BY DEF ProbeInv
<1> QED BY <1>1, <1>2, CljInvariant, PTL DEF CljInv
=============================================================================
