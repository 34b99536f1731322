-------------------------------- MODULE Views --------------------------------
(***************************************************************************)
(* The views of one model: renderWidget (front/src/runtime.js) and the     *)
(* Emitter of front/src/model.js, through which the model tells its views  *)
(* what has changed.                                                       *)
(*                                                                         *)
(* JavaScript runs to completion, but a listener may itself set a key or   *)
(* clean up a view, so one emission may run inside another.  calls is the  *)
(* stack of the loops in progress; everything else waits until it is       *)
(* empty, the continuations of renderWidget's awaits included.             *)
(*                                                                         *)
(* What the widgets' own code does is external: there are views that paint *)
(* what model.get returns, that show the argument of the event, that clamp *)
(* a key, and that close a view when something changes.                    *)
(***************************************************************************)
EXTENDS Naturals, Sequences, FiniteSets, SequencesExt

CONSTANTS
  Keys, Values,
  Views,      \* the renderings of the widget
  Target,     \* the key a clamp looks after
  Low         \* and the value it sets it to

ASSUME ViewsAssumption == Target \in Keys /\ Low \in Values /\ IsFiniteSet(Views)

VARIABLES
  state,      \* Model.#state
  kind,       \* what a view's listeners do (does not change)
  context,    \* does it pass the page's context object to on and off? (does not change)
  status,     \* how far its renderWidget has come
  listeners,  \* Emitter.#listeners: per key, whose, in order of registration
  calls,      \* the loops of emit and #receive that are running, the innermost last
  shown,      \* what a view displays
  misled      \* history: was there a clamp among the listeners when this one came?

vars == <<state, kind, context, status, listeners, calls, shown, misled>>

Kinds == {"paint", "show", "clamp", "close"}
Emission(k, value) == [loop |-> "emit", key |-> k, value |-> value, rest |-> listeners[k]]
Update(entries) == [loop |-> "receive", rest |-> entries]
NoListeners == [k \in Keys |-> << >>]

TypeOK ==
  /\ state \in [Keys -> Values] /\ shown \in [Views -> [Keys -> Values]]
  /\ status \in [Views -> {"absent", "initialized", "rendered", "mounted", "removed", "failed"}]
  /\ \A k \in Keys : listeners[k] \in Seq(Views) /\ IsInjective(listeners[k])
  /\ misled \subseteq Views
  /\ Len(calls) <= 3

Init ==
  /\ state = [k \in Keys |-> Low] /\ shown = [v \in Views |-> state]
  /\ kind \in [Views -> Kinds] /\ context \in [Views -> BOOLEAN]
  /\ status = [v \in Views |-> "absent"]
  /\ listeners = NoListeners
  /\ calls = << >> /\ misled = {}
----------------------------------------------------------------------------
(***************************************************************************)
(* Emitter.                                                                *)
(***************************************************************************)
\* Fault variant: on puts a new listener before the others.
OnFirst(v) == listeners' = [k \in Keys |-> <<v>> \o listeners[k]]

On(v) == listeners' = [k \in Keys |-> Append(listeners[k], v)]

\* Array.filter, which keeps the order, for the set of those who stay.  It is a
\* recursive function and not SelectSeq because the proofs have to reason about it.
Filter(list, those) ==
  LET kept[n \in 0 .. Len(list)] ==
        IF n = 0 THEN << >>
        ELSE IF list[n] \in those THEN Append(kept[n - 1], list[n]) ELSE kept[n - 1]
  IN kept[Len(list)]

\* Fault variant: off(null, null, context) spares what was registered with a context.
OffAllFree ==
  listeners' = [k \in Keys |-> Filter(listeners[k], {u \in Views : context[u]})]

\* off(null, null)
OffAll == listeners' = NoListeners

\* off(`change:${k}`, cb, context): what has the callback or the context goes.
Off(v, k) ==
  listeners' = [listeners EXCEPT ![k] =
    Filter(@, {u \in Views : u # v /\ ~(context[v] /\ context[u])})]
----------------------------------------------------------------------------
(***************************************************************************)
(* renderWidget: initialize, an await, render, an await, and the function  *)
(* that cleans up.  A clamp registers in initialize, the others in render. *)
(***************************************************************************)
Idle == calls = << >>
Clamped == \E u \in Views : kind[u] = "clamp" /\ \E k \in Keys : Contains(listeners[k], u)

Initialize(v) ==
  /\ Idle /\ status[v] = "absent"
  /\ status' = [status EXCEPT ![v] = "initialized"]
  /\ IF kind[v] = "clamp" THEN On(v) ELSE UNCHANGED listeners
  /\ UNCHANGED <<state, kind, context, calls, shown, misled>>

\* Fault variant: initialize runs a second time after the await.
RenderTwice(v) ==
  /\ Idle /\ status[v] = "initialized"
  /\ status' = [status EXCEPT ![v] = "rendered"]
  /\ On(v)
  /\ shown' = [shown EXCEPT ![v] = state]
  /\ misled' = IF Clamped THEN misled \cup {v} ELSE misled
  /\ UNCHANGED <<state, kind, context, calls>>

Render(v) ==
  /\ Idle /\ status[v] = "initialized"
  /\ status' = [status EXCEPT ![v] = "rendered"]
  /\ IF kind[v] = "clamp" THEN UNCHANGED <<listeners, shown, misled>>
     ELSE /\ On(v)
          /\ shown' = [shown EXCEPT ![v] = state]
          /\ misled' = IF Clamped THEN misled \cup {v} ELSE misled
  /\ UNCHANGED <<state, kind, context, calls>>

\* The promise settles; if initialize or render threw, there is no cleanup to call.
Settle(v) ==
  /\ Idle
  /\ \/ status[v] = "rendered" /\ status' = [status EXCEPT ![v] = "mounted"]
     \/ status[v] \in {"initialized", "rendered"} /\ status' = [status EXCEPT ![v] = "failed"]
  /\ UNCHANGED <<state, kind, context, listeners, calls, shown, misled>>

\* The cleanup function: the widget's own cleanups, then model.off(null, null).
Cleanup(v) ==
  /\ status[v] = "mounted"
  /\ status' = [status EXCEPT ![v] = "removed"]
  /\ OffAll

Unmount(v) == Idle /\ Cleanup(v) /\ UNCHANGED <<state, kind, context, calls, shown, misled>>

Unsubscribe(v) ==
  /\ Idle /\ status[v] = "mounted"
  /\ \E k \in Keys : Contains(listeners[k], v) /\ Off(v, k)
  /\ UNCHANGED <<state, kind, context, status, calls, shown, misled>>
----------------------------------------------------------------------------
(***************************************************************************)
(* Model.                                                                  *)
(***************************************************************************)
Set(k, value) ==
  /\ Idle
  /\ state' = [state EXCEPT ![k] = value]
  /\ calls' = <<Emission(k, value)>>
  /\ UNCHANGED <<kind, context, status, listeners, shown, misled>>

Receive(entries) ==
  /\ Idle
  /\ calls' = <<Update(entries)>>
  /\ UNCHANGED <<state, kind, context, status, listeners, shown, misled>>

Top == calls[Len(calls)]
Running(loop) == ~Idle /\ Top.loop = loop

\* A turn of the loop of #receive: a key is stored and announced.
Store ==
  /\ Running("receive")
  /\ \E k \in DOMAIN Top.rest :
       /\ state' = [state EXCEPT ![k] = Top.rest[k]]
       /\ calls' = Append([calls EXCEPT ![Len(calls)].rest =
                             [x \in DOMAIN Top.rest \ {k} |-> Top.rest[x]]],
                          Emission(k, Top.rest[k]))
  /\ UNCHANGED <<kind, context, status, listeners, shown, misled>>

\* Fault variant: a guard against re-entrancy swallows the nested event.
NestedSwallowed(loops) == loops

\* The set a callback does emits inside the loops that are running.
Nested(loops) == Append(loops, Emission(Target, Low))

\* A turn of the loop of emit, which runs over a copy of the list: a callback runs.
Call ==
  /\ Running("emit") /\ Top.rest # << >>
  /\ LET v == Head(Top.rest)
         next == [calls EXCEPT ![Len(calls)].rest = Tail(@)]
     IN \/ /\ kind[v] \in {"paint", "show"}
           /\ shown' = [shown EXCEPT ![v] = IF kind[v] = "paint" THEN state
                                            ELSE [@ EXCEPT ![Top.key] = Top.value]]
           /\ calls' = next
           /\ UNCHANGED <<state, status, listeners>>
        \/ /\ kind[v] = "clamp"
           /\ state' = [state EXCEPT ![Target] = Low]
           /\ calls' = IF state[Target] = Low THEN next ELSE Nested(next)
           /\ UNCHANGED <<status, listeners, shown>>
        \/ /\ kind[v] = "close"
           /\ \/ \E u \in Views : Cleanup(u)
              \/ UNCHANGED <<status, listeners>>
           /\ calls' = next
           /\ UNCHANGED <<state, shown>>
  /\ UNCHANGED <<kind, context, misled>>

Return ==
  /\ ~Idle /\ (Top.loop = "emit" => Top.rest = << >>)
  /\ Top.loop = "receive" => DOMAIN Top.rest = {}
  /\ calls' = Front(calls)
  /\ UNCHANGED <<state, kind, context, status, listeners, shown, misled>>
----------------------------------------------------------------------------
Next ==
  \/ \E v \in Views : Initialize(v) \/ Render(v) \/ Settle(v) \/ Unmount(v) \/ Unsubscribe(v)
  \/ \E k \in Keys, value \in Values : Set(k, value)
  \/ \E K \in SUBSET Keys : \E entries \in [K -> Values] : Receive(entries)
  \/ Store
  \/ Call
  \/ Return

Spec == Init /\ [][Next]_vars
----------------------------------------------------------------------------
Listens(v) == \A k \in Keys : Contains(listeners[k], v)

\* A view that paints what it gets from the model shows the model's state whenever the
\* loops are through: however emissions nest, and although #receive announces each key
\* before it stores the next.
PaintsFresh == Idle => \A v \in Views : kind[v] = "paint" /\ Listens(v) => shown[v] = state

\* A view that shows the event's argument does so too, if no listener before it sets a
\* key: otherwise it hears of the nested change first and of the outer one, now out of
\* date, last.
ShowsFresh ==
  Idle => \A v \in Views :
    kind[v] = "show" /\ Listens(v) /\ v \notin misled => shown[v] = state

\* Whatever listeners it has and whatever they do, none is left of a view that has
\* been cleaned up.
RemovedIsDeaf ==
  \A v \in Views, k \in Keys : status[v] = "removed" => ~Contains(listeners[k], v)
============================================================================
