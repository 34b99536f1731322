----------------------------- MODULE Clojupyter ------------------------------
(***************************************************************************)
(* Widgets in a clojupyter kernel, and the probe that tells what a kernel  *)
(* can do.  clojupyter's comm-atom is a Clojure agent: it runs its actions *)
(* one at a time on a thread of its own and notifies its watch after each, *)
(* whoever sent it.  ClojupyterTransport                                   *)
(* (clojure/dev/cositos/clojupyter_transport.clj) has to tell an echo of   *)
(* its own send-state! from an update of the page, with one cell,          *)
(* `pending', that the threads of the cells and of the agent share.        *)
(*                                                                         *)
(* The kernel runs one program:                                            *)
(*   "counter"  the notebook (examples/notebooks/clojure_counter.ipynb),   *)
(*              whose handler keeps the state it is given; later cells     *)
(*              send a label                                               *)
(*   "derive"   the same, with a handler that also sends what it derives   *)
(*   others     what probe/kernel_probe.py runs: its programs for          *)
(*              "clojure" and "python3" (and the like), on kernels that    *)
(*              can do it, and three kernels that can not: one that routes *)
(*              no message to the program, one that opens no comm, and one *)
(*              whose cell fails.                                          *)
(***************************************************************************)
EXTENDS Naturals, Sequences

CONSTANTS MaxClicks,  \* bound: clicks on the page
          MaxSends    \* bound: calls of send-state! by cells

ASSUME BoundsAssumption == MaxClicks \in Nat /\ MaxSends \in Nat

Transported == {"counter", "derive"}
Probed == {"clojure", "python3", "deaf", "mute", "broken"}

VARIABLES
  program,   \* what the kernel runs
  atom,      \* the state of the comm-atom
  mailbox,   \* the actions sent to its agent: deltas, with who sent them
  notice,    \* the notification of the watch that the agent's thread is in
  pending,   \* the cell of ClojupyterTransport
  sending,   \* what the cell's thread is about to state-update!, or None
  mirror,    \* the notebook's `state': what the handler was given
  page,      \* the page's copy
  toPage,    \* messages on iopub
  toKernel,  \* messages on the shell channel
  clicks, sends,
  crossed,   \* history: did sends overlap, or did an update look like a send?
  echoed,    \* history: was the handler called with an echo?
  probe      \* the client that probes

transport == <<pending, sending, mirror, crossed, echoed>>
vars == <<program, atom, mailbox, notice, transport, page, toPage, toKernel, clicks, sends, probe>>

None == << >>
Idle == [at |-> "idle"]
Merge(state, delta) ==
  [k \in DOMAIN state \cup DOMAIN delta |-> IF k \in DOMAIN delta THEN delta[k] ELSE state[k]]
SelectKeys(state, keys) == [k \in DOMAIN state \cap keys |-> state[k]]

\* Fault variant: what the kernel sends keeps its string keys.
StringKeyed(own, delta) == [own |-> own, delta |-> IF own THEN [strings |-> delta] ELSE delta]

\* The keys of a delta are keywords, whoever sends it.
Action(own, delta) == [own |-> own, delta |-> delta]
CommMsg(type, state) == [type |-> type, state |-> state]

\* open!, for the transported programs: create-and-insert, and no send is expected.
Init ==
  /\ program \in Transported \cup Probed
  /\ atom = IF program \in Transported THEN [count |-> 0, label |-> 0, derived |-> 0]
            ELSE [hello |-> 1]
  /\ mirror = atom /\ page = atom
  /\ mailbox = << >> /\ notice = Idle /\ pending = None /\ sending = None
  /\ toPage = << >> /\ toKernel = << >> /\ clicks = 0 /\ sends = 0
  /\ crossed = FALSE /\ echoed = FALSE
  /\ probe = [at |-> IF program \in Probed THEN "execute" ELSE "none",
              seen |-> {}, tier |-> "none", early |-> FALSE]
----------------------------------------------------------------------------
(***************************************************************************)
(* The agent of the comm-atom.                                             *)
(***************************************************************************)
\* One action: the delta is merged; state-update!'s also pushes the resulting state.
AgentRuns ==
  /\ notice = Idle /\ mailbox # << >>
  /\ LET action == Head(mailbox)
         state == Merge(atom, action.delta) IN
     /\ atom' = state
     /\ toPage' = IF action.own THEN Append(toPage, CommMsg("comm_msg", state)) ELSE toPage
     /\ notice' = [at |-> "watch", own |-> action.own, state |-> state]
  /\ mailbox' = Tail(mailbox)
  /\ UNCHANGED <<program, transport, page, toKernel, clicks, sends, probe>>

\* An inbound message is dispatched on its method; without one an assertion fails in a
\* thread nobody looks at.
KernelDispatches ==
  /\ program \in Transported \cup {"clojure"} /\ toKernel # << >>
  /\ toKernel' = Tail(toKernel)
  /\ mailbox' = IF Head(toKernel).type = "update"
                  THEN Append(mailbox, Action(FALSE, Head(toKernel).state)) ELSE mailbox
  /\ UNCHANGED <<program, atom, notice, transport, page, toPage, clicks, sends, probe>>
----------------------------------------------------------------------------
(***************************************************************************)
(* ClojupyterTransport.                                                    *)
(***************************************************************************)
Expects(delta) == pending' = delta /\ crossed' = (crossed \/ pending # None)

\* Fault variants of the two halves of send-state!, in the other order.
UpdateFirst ==
  /\ program \in Transported /\ sending = None /\ sends < MaxSends
  /\ sends' = sends + 1
  /\ \E label \in {0, 1} :
       /\ sending' = [label |-> label]
       /\ mailbox' = Append(mailbox, Action(TRUE, [label |-> label]))
  /\ UNCHANGED <<program, atom, notice, pending, mirror, crossed, echoed, page, toPage,
                 toKernel, clicks, probe>>

PredictLast ==
  /\ sending # None
  /\ Expects(sending) /\ sending' = None
  /\ UNCHANGED <<program, atom, mailbox, notice, mirror, echoed, page, toPage, toKernel,
                 clicks, sends, probe>>

SwappedSend == UpdateFirst \/ PredictLast

\* send-state!, by a cell: the cell `pending' is reset to the delta ...
Predict ==
  /\ program \in Transported /\ sending = None /\ sends < MaxSends
  /\ sends' = sends + 1
  /\ \E label \in {0, 1} : Expects([label |-> label]) /\ sending' = [label |-> label]
  /\ UNCHANGED <<program, atom, mailbox, notice, mirror, echoed, page, toPage, toKernel,
                 clicks, probe>>

\* ... and an action is sent to the agent.
StateUpdate ==
  /\ sending # None
  /\ mailbox' = Append(mailbox, Action(TRUE, sending)) /\ sending' = None
  /\ UNCHANGED <<program, atom, notice, pending, mirror, crossed, echoed, page, toPage,
                 toKernel, clicks, sends, probe>>

SendState == Predict \/ StateUpdate

\* on-update!: the watch reads `pending' ...
WatchReads ==
  /\ notice.at = "watch" /\ program \in Transported
  /\ notice' = [at |-> "decide", own |-> notice.own, state |-> notice.state,
                expected |-> pending]
  /\ UNCHANGED <<program, atom, mailbox, transport, page, toPage, toKernel, clicks, sends, probe>>

\* The state the handler is called with, and what it does: the notebook's keeps it; the
\* other one sends what it derives, the same for the same count.
Handle(state) ==
  /\ mirror' = state
  /\ echoed' = (echoed \/ notice.own)
  /\ IF program = "derive"
       THEN /\ Expects([derived |-> state.count])
            /\ notice' = [at |-> "send", delta |-> [derived |-> state.count]]
       ELSE notice' = Idle /\ UNCHANGED <<pending, crossed>>

\* Fault variant: the handler is called for every notification.
ReactAlways == Handle(notice.state)

\* ... and, when the new state shows what was expected, takes it for an echo, clears
\* `pending' and is done; if not, the handler is called.
Decide ==
  LET expected == notice.expected IN
  IF expected # None /\ expected = SelectKeys(notice.state, DOMAIN expected)
    THEN /\ pending' = None /\ notice' = Idle
         /\ crossed' = (crossed \/ ~notice.own \/ pending # expected)
         /\ UNCHANGED <<mirror, echoed>>
    ELSE Handle(notice.state)

WatchDecides ==
  /\ notice.at = "decide" /\ Decide
  /\ UNCHANGED <<program, atom, mailbox, sending, page, toPage, toKernel, clicks, sends, probe>>

\* What is sent to an agent on its own thread waits for the notification to end.
HandlerSends ==
  /\ notice.at = "send"
  /\ mailbox' = Append(mailbox, Action(TRUE, notice.delta)) /\ notice' = Idle
  /\ UNCHANGED <<program, atom, transport, page, toPage, toKernel, clicks, sends, probe>>
----------------------------------------------------------------------------
(***************************************************************************)
(* The page of the notebook: a click saves the next count, an update is    *)
(* the comm-atom's state.                                                  *)
(***************************************************************************)
Click ==
  /\ program \in Transported /\ clicks < MaxClicks
  /\ clicks' = clicks + 1
  /\ page' = [page EXCEPT !.count = @ + 1]
  /\ toKernel' = Append(toKernel, CommMsg("update", [count |-> page'.count]))
  /\ UNCHANGED <<program, atom, mailbox, notice, transport, toPage, sends, probe>>

PageReceives ==
  /\ program \in Transported /\ toPage # << >>
  /\ page' = Head(toPage).state /\ toPage' = Tail(toPage)
  /\ UNCHANGED <<program, atom, mailbox, notice, transport, toKernel, clicks, sends, probe>>
----------------------------------------------------------------------------
(***************************************************************************)
(* The probe: its programs, which open a comm and answer every message ... *)
(***************************************************************************)
\* "clojure": a watch that guards against the echo of its own answer.
ProbeWatch ==
  /\ notice.at = "watch" /\ program = "clojure"
  /\ notice' = IF "echo" \in DOMAIN notice.state THEN Idle
               ELSE [at |-> "send", delta |-> [echo |-> 1]]
  /\ UNCHANGED <<program, atom, mailbox, transport, page, toPage, toKernel, clicks, sends, probe>>

\* "python3", "ir" and "julia": a callback for every message.
ProbeCallback ==
  /\ program \in {"python3", "deaf"} /\ toKernel # << >>
  /\ toKernel' = Tail(toKernel)
  /\ toPage' = IF program = "python3" THEN Append(toPage, CommMsg("comm_msg", [echo |-> 1]))
               ELSE toPage
  /\ UNCHANGED <<program, atom, mailbox, notice, transport, page, clicks, sends, probe>>

(***************************************************************************)
(* ... and its client.                                                     *)
(***************************************************************************)
\* Fault variant: the same payload for every kernel.
DefaultPayload == CommMsg("ping", [ping |-> 1])

PingPayload == CommMsg(IF program = "clojure" THEN "update" ELSE "ping", [ping |-> 1])

kernel == <<program, atom, mailbox, notice, transport>>
rest == <<page, clicks, sends>>

\* The finally clause: whatever comes of the probe, the kernel is shut down.
Ends(tier, early) ==
  /\ probe' = [at |-> "done", seen |-> {}, tier |-> tier, early |-> early]
  /\ mailbox' = << >> /\ notice' = Idle /\ toPage' = << >> /\ toKernel' = << >>
  /\ UNCHANGED <<program, atom, transport, rest>>

\* _execute: the program opens its comm, unless the kernel has none.
ProbeExecutes ==
  /\ probe.at = "execute" /\ program # "broken"
  /\ toPage' = IF program = "mute" THEN << >> ELSE <<CommMsg("comm_open", atom)>>
  /\ probe' = [probe EXCEPT !.at = "opens"]
  /\ UNCHANGED <<kernel, toKernel, rest>>

\* The program fails, or its reply does not come in time.
ProbeRaises == probe.at = "execute" /\ Ends("raised", probe.early)

\* _drain_iopub takes one message after the other ...
ProbeTakes ==
  /\ probe.at \in {"opens", "echo"} /\ toPage # << >>
  /\ probe' = [probe EXCEPT !.seen = @ \cup {Head(toPage).type}]
  /\ toPage' = Tail(toPage)
  /\ UNCHANGED <<kernel, toKernel, rest>>

\* ... until none comes for three seconds, be it that there is none to come.
Early == probe.early \/ toPage \o toKernel \o mailbox # << >> \/ notice # Idle

ProbePings ==
  /\ probe.at = "opens" /\ "comm_open" \in probe.seen
  /\ probe' = [probe EXCEPT !.at = "echo", !.seen = {}, !.early = Early]
  /\ toKernel' = <<PingPayload>>
  /\ UNCHANGED <<kernel, toPage, rest>>

ProbeConcludes ==
  \/ probe.at = "opens" /\ "comm_open" \notin probe.seen /\ Ends("NO_COMM", Early)
  \/ probe.at = "echo"
     /\ Ends(IF "comm_msg" \in probe.seen THEN "BIDIRECTIONAL" ELSE "BROADCAST_ONLY", Early)
----------------------------------------------------------------------------
Agent == AgentRuns \/ WatchReads \/ WatchDecides \/ HandlerSends \/ ProbeWatch
Kernel == KernelDispatches \/ ProbeCallback
Prober == ProbeExecutes \/ ProbeRaises \/ ProbeTakes \/ ProbePings \/ ProbeConcludes

Next == Agent \/ Kernel \/ SendState \/ Click \/ PageReceives \/ Prober

\* Threads go on, messages arrive, timeouts come.  No cell has to be run, no click made.
Fairness ==
  /\ WF_vars(Agent) /\ WF_vars(Kernel) /\ WF_vars(PageReceives) /\ WF_vars(Prober)
  /\ WF_vars(sending # None /\ SendState)

Spec == Init /\ [][Next]_vars /\ Fairness
----------------------------------------------------------------------------
KernelQuiet == mailbox = << >> /\ notice = Idle /\ sending = None /\ toKernel = << >>
Quiet == KernelQuiet /\ toPage = << >>

TypeOK ==
  /\ {mailbox[i].own : i \in DOMAIN mailbox} \subseteq BOOLEAN
  /\ notice.at \in {"idle", "watch", "decide", "send"}
  /\ DOMAIN pending \subseteq {"label", "derived"} /\ DOMAIN sending \subseteq {"label"}
  /\ DOMAIN mirror = DOMAIN page
  /\ program \in Transported => DOMAIN atom = {"count", "label", "derived"} /\ page.count \in Nat
  /\ {toPage[i].type : i \in DOMAIN toPage} \subseteq {"comm_open", "comm_msg"}
  /\ probe.at \in {"none", "execute", "opens", "echo", "done"}

\* "`on-update!` guards against this by predicting the merged value our own `send-state!`
\* calls will produce": the handler is called with an echo only if sends overlapped, or
\* an update of the page showed what a send was going to.
EchoSkipped == echoed => crossed

\* However sends and updates cross, whatever echo or update is mistaken for the other:
\* in the end the handler has seen the page's last count, what it derived from it is in
\* the comm-atom, and no expectation is left over to swallow a later update.
NothingLost ==
  program \in Transported /\ KernelQuiet =>
    /\ pending = None
    /\ mirror.count = atom.count
    /\ program = "derive" => atom.derived = atom.count

\* The handler's sends do not set it off for ever, nor do the probe's answers.
Settles == <>[]Quiet

\* What the probe says of a kernel is never more than it can do, and exactly that unless
\* a drain ended too early.
Capability ==
  CASE program \in {"clojure", "python3"} -> "BIDIRECTIONAL"
    [] program = "deaf" -> "BROADCAST_ONLY"
    [] OTHER -> "NO_COMM"
Rank(tier) == CASE tier = "BIDIRECTIONAL" -> 1 [] tier = "BROADCAST_ONLY" -> 2 [] OTHER -> 3
Verdict ==
  probe.at = "done" /\ probe.tier # "raised" =>
    /\ Rank(probe.tier) >= Rank(Capability)
    /\ ~probe.early => probe.tier = Capability
============================================================================
