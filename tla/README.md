# Verification of cositos

This directory holds TLA+ models of cositos, the TLC configurations that check
them on small instances, and proofs, checked by TLAPS, of theorems about them.
Paths are relative to the repository's root.

cositos is the glue between a program's state object and a widget in a browser:
a *host* (a Jupyter kernel in one of five languages, Clay, Pluto) announces a
model with `comm_open`, the two ends then exchange `update`, `request_state` and
`custom` messages, and `comm_close` ends it. Each end has its own copy of the
state. No message is acknowledged.

## 1. The system

| component | state | operations | talks to |
|---|---|---|---|
| **Lifecycle reducer** `src/cositos/lifecycle.py:161-287` with `protocol.py` | none | `reduce(phase, event, state, capabilities)` for Open, SendState, SendCustom, Inbound, Close, CommIdAssigned | called by the shell; returns effects |
| **WidgetShell / Widget** `lifecycle.py:295-456`, `model.py` | `_phase`, `_listening`, `model_id` (twice) | open, send_state, send_custom, close, display hook, `_handle_inbound` | executes effects on the transport; calls the host's get_state, set_state, on_custom |
| **CommTransport** `jupyter.py` | `_comm`, `_pending` | send, on_message | the `comm` package, which calls back with each inbound message |
| **Buffers** `buffers.py`, `front/src/buffers.js`, ports | none, but containers are shared and `put_buffers` writes in place | remove_buffers, put_buffers | builders of messages, receivers of updates |
| **Model** `front/src/model.js` | `#state`, `#dirty`, listeners | set, save_changes, send, request_state, `#receive`, on, off | a channel; the widget's own JavaScript through listeners |
| **Channels** `front/src/channels.js` | a handler, a socket and id, a bond value | send, onMessage | memory pair, Clay websocket, Pluto bond |
| **renderWidget** `front/src/runtime.js` | the cleanups collected | initialize, render, cleanup | Model; the widget's code |
| **Clay host** `clojure/dev/cositos/clay_notebook.clj`, `clojure/src/cositos/clay.clj` | one atom of counters | on-open, on-receive | Clay's websocket server, any number of pages |
| **Clojupyter transport** `clojure/dev/cositos/clojupyter_transport.clj`, `examples/notebooks/clojure_counter.ipynb` | comm-atom (an agent), `pending` | open!, send-state!, on-update! | the agent's watch, called on its thread; the program's cells and handler |
| **Kernel probe** `probe/kernel_probe.py` | what it drained | execute, drain, ping, conclude, shut down | a kernel of unknown abilities |
| **Documents** `serialize.py`, `embed.py`, `contrib/controls.py`, `contrib/harvest.py` | none | dump, load, check references, build trees of controls, harvest a registry, make a static page | files |
| **Dashboard** `examples/dashboard/build.py` | one Model, the widgets of the last `wire()` | wire, the two `_set_..._state`, `_render`, download, build_entries, restore | widgets, documents |
| **Ports** `julia/`, `csharp/`, `r/`, `clojure/src/` | as above | as above | their kernels |

What is hard, and what makes each part right:

- *Sessions.* A widget may be opened, closed, displayed, reopened, hung up on by
  the browser, and an opening may fail, in any order, with messages of an older
  comm still on their way. Right means: one session at a time; each comm
  announced first and silent after its farewell; the phase, the transport's comm
  and the ids it is displayed under tell one story; both ends agree in the end.
- *Two copies of a state, no acknowledgements.* Crossing writes, late listeners,
  full and partial updates. Right means: what one side owns, the other has once
  everything is delivered; `request_state` repairs a page.
- *Several pages, several threads.* Clay's server runs the handlers of different
  sockets at once, and a handler reads, swaps, reads and broadcasts in separate
  steps. Right means: no click lost or doubled, no count invented, all pages end
  up with the newest count.
- *Listeners.* Emissions nest, updates are announced key by key, views come and
  go at awaits and inside callbacks. Right means: what a view displays is the
  model's state once the loops are through.
- *Echoes.* clojupyter tells a program of every change of its comm-atom, its own
  included, on another thread; one cell decides which is which. Right means: what
  the page sent is not lost, nothing runs for ever, and a probe that only sees
  what arrives in time says no more than it knows.
- *Projections.* The dashboard's widgets and its file show one Model; they are
  wired twice, closed, reloaded, saved between any two messages, and taken up by
  a session that knows only the file. Right means: everything shown or saved is
  the Model of one moment, refers to nothing that is missing, and can be loaded,
  composed, saved and exported again without change.
- *Shared, mutable containers.* The state may be a tree, a DAG or cyclic.
  Right means: the split is exact, its inverse is exact, the host's own objects
  are not touched, pathological states are refused and no others.

`PROJECT.json` lists the hazards line by line with the properties that cover them.

## 2. The modules

| module | models | composed with |
|---|---|---|
| `Lifecycle` | the reducer, pure | extended by `WidgetSession` and `ModelSync` |
| `CommContract` | abstract: what a widget promises its frontend | implemented by `WidgetSession` |
| `WidgetSession` | Widget, WidgetShell, CommTransport, the comm package, both wires, the frontend's end of each comm | INSTANCE of `CommContract` |
| `ModelSync` | Model and MemoryChannel against the host's half of `Lifecycle` | |
| `Views` | Emitter, renderWidget and what views display | |
| `ClayHost` | the Clay server's handlers, its pages and their channels | |
| `BufferSplit` | remove_buffers and put_buffers over a heap | |
| `Clojupyter` | ClojupyterTransport on its agent, the notebook, the kernel probe | |
| `Documents` | serialize, embed, controls, harvest: operators on values | extended by `Dashboard` |
| `Dashboard` (`MCDashboard` for TLC) | the dashboard, its page, its file, and the session that loads it | |
| `CommContract_proofs`, `WidgetSession_proofs`, `ModelSync_proofs`, `Views_proofs`, `ClayHost_proofs`, `BufferSplit_proofs`, `Clojupyter_proofs`, `Dashboard_proofs` | theorems | extend the modules they are about |

In every module a definition called a *fault variant* in its comment is a
plausible wrong form of the definition after it (a dropped check, a missing
reset, a swapped order). No specification uses one. `PROJECT.json` ("mutants")
pairs each checked property with a fault variant under which TLC finds the
property violated, which shows that the property depends on that piece of code.

### Lifecycle and WidgetSession

A state dict is a function on a subset of `Keys`; the keys in `BinKeys` are
binary, so a message has buffers exactly if its state has such a key. A message
keeps its type, its method, whether it carries the identity fields
(`_model_name`, `_view_name`, ...), its state and whether it has buffers.
`ReduceOpen`, `ReduceSendState`, ... are the `_reduce_*` functions; `Reduce` is
`reduce`.

`WidgetSession` adds what owns state: `phase`, `listening`, `shellId` are the
shell's, `widgetId` is `Widget.model_id`, `comm` is `CommTransport._comm`;
`created`, `registered`, `handlers` are the comm package's as `jupyter.py` relies
on it (a comm once closed publishes no second close, but still publishes a
message; an inbound message for a comm without a handler is dropped); `toFront`
and `toKernel` are FIFOs; `front` is the browser's end of each comm. An action is
one call of the public API or one dispatch of an inbound message, with all its
effects: the kernel runs cells and comm handlers on one thread. A host callback
that calls back into the widget does so when the phase is stored and no effect is
left, so that its calls are next steps like any other. `OpenShellFails` is the
one way a call stops half way: the phase is stored, `create_comm` raises.

The frontend is external. It may update, send a custom or an unknown message,
reload (and then ask for the state of each comm the kernel lists), or close its
end (`FrontMayClose`).

### ModelSync

One page and one host. `hostState` and `pageState` are the copies, `dirty` is
`#dirty`, `attached` says that the Model has registered its handler. The host's
side is `Lifecycle!Reduce` in phase open. A microtask queue is FIFO, hence the
two sequences. `full` separates two ways to use the library: hosts that name
their own keys in `send_state(include)` and never answer `request_state`, and
hosts that send everything. `unsent` and `behind` are history: keys the host has
not sent since it assigned to them, keys of updates dropped before the Model
attached.

### Views

`calls` is the JavaScript stack of loops: `emit` over its copy of the listeners,
`#receive` over the entries of an update. Everything but the top loop waits.
Views paint (`model.get`, as the example widgets do), show the event's argument
(as the Clay pages do), clamp a key (they set a key in a listener), or close a
view. `renderWidget` is `Initialize`, `Render`, `Settle`, cut at its awaits, and
`Cleanup`.

### ClayHost

A handler of the server is cut where it touches what others touch: `OnReceive`
(up to the `swap!`), `Frame` (the second dereference), `Broadcast` (the set of
clients), `SendTo` (one client). `Workers` bounds how many sockets are served at
a time; the tasks of one socket run in order. http-kit and Clay are external,
modelled from how `clay_notebook.clj` uses them. A page is a FIFO in, a FIFO out,
and the count its model holds per widget. A reload is a new socket. `best` and
`clicked` are history.

### BufferSplit

The heap maps nodes to containers: the host's, then clones in the order they are made; a
clone of a tuple is a list. The stack of frames, the clone of a frame, the path, the
order of the checks and of the writes are the code's. `put_buffers` then runs on the
stripped state in the same heap, with all the buffers or one too few. What should come
of a state is said path by path: `Host` is what a path leads to in the host's state,
`Now` what it leads to in the result, and the two are to be the `Same` but at a binary
value, which leaves a `Blank`, and for a cloned tuple being a list. Paths are sequences
of slots and `At` follows one with a recursive function, so that trees, DAGs and cycles
need no case of their own. The containers have `Width` slots; the code's may differ in
length, which slots with a plain value stand for.

### Clojupyter

The comm-atom's agent runs one action at a time (`AgentRuns`) and then its watch,
on its own thread; `notice` is where that thread is. `send-state!` is two steps,
`Predict` (the `reset!` of `pending`) and `StateUpdate`, and so is the watch,
`WatchReads` and `WatchDecides`: between them the other thread may do its own. A
handler's `send-state!` is the `Expects` of `Handle` and then `HandlerSends`. Keys are owned:
the page writes `count`, cells write `label`, a handler that replies writes
`derived`. `program` says what the kernel runs; among the choices are the probe's
programs, on kernels that can do what is asked and on three that cannot. The
probe's client takes what is on iopub, and may stop at any moment (its timeout);
`early` records that something was still to come. The comm-atom, Clojure agents
and Jupyter are external, modelled as the source describes and uses them. `crossed` and
`echoed` are history.

### Documents and Dashboard

A value is a record whose one field says what it is (text, number, reference,
list, binary, a whole document as JSON), a state a function from keys to values,
an id a sequence of roles, so that `MintId` is injective as string ids are in
practice. Of the control catalog, whose identities and companions are kept, the
layout details are dropped. A failed call is the value `Raised`. The `shape` of a
document says what its `"state"` is: a mapping with records, something else, or missing;
`load_document` refuses the last two, a static page of them is an exception and an empty
page.

`Dashboard` is live until its file is downloaded and the kernel restarts; then
`fresh` is the session that has nothing but the file. Live: `model` is
`Dashboard.model`; `wires` numbers the calls of `wire()`, and a widget is
`<<call, id>>`; `open` is what the host has open, `page` what the page has
models for. One inbound message with all that follows from it (change, render,
the sends) is one step, as is a call of `wire()`. Its `comm_open`s go one by one, in the
order of `Opened`, so that the page has a control before its companions; what a reload
asks for travels together, and so do the answers. A comm is called by its widget; the id
the kernel draws for it, which is not the widget's, is `CommId`. `cut` is history: a render
stopped at a closed summary. What is lost live after the click is not in the file, so
that `DownloadAndRestart` is one action. Fresh: the document may be loaded,
dumped from a tree, or replaced by one of a later version; trees are built of
controls, of a widget with a binary value, of what was loaded, and of boxes of them.

## 3. The runs

| run | question | instance | states, time |
|---|---|---|---|
| `session` | does a widget implement the comm protocol, and does its bookkeeping agree, while no opening fails? | 3 comms, 1 binary key, 1 value, 2 messages in flight, all capabilities | 184,031 in 17 s |
| `session_failures` | what holds even when openings fail: one session, agreement at rest, reload | the same with failing openings | 384,055 in 34 s |
| `reopen_listens` | does a reopened widget listen? | 2 comms | violated |
| `clay` | what concurrent handlers cannot break: clicks, routing, the newest count, catching up | 2 workers, 2 sockets, 1 widget, 2 clicks, 1 stray frame | 202,837 in 124 s |
| `clay_stale` | do pages converge with two workers? | 2 sockets, 2 clicks | violated |
| `sync` | do the copies agree on owned keys; does request_state repair? | a key of each side, 2 values, 2 in flight | 355,584 in 85 s |
| `views` | do views display the model's state; are removed ones gone? | 2 views, 2 keys, 2 values | 3,960,632 in 35 s |
| `buffers` | are split and merge right for every state? | 3 containers of 2 slots (`N`, `Width`), limits 1 and 2 | 1,349,802 in 46 s |
| `dashboard` | do page and file follow the Model, and what becomes of the file? | 2 events (wire, close, reload), 2x2 Models, 1 option, trees of 3 parts | 97,988 in 135 s |
| `dashboard_static` | does the static page show the Model? | the same, live part only | violated |
| `dashboard_companions` | do the references of a live control meet models, all companions being open? | the same | violated |
| `clojupyter` | what the echo filter keeps, whether it settles, what a probe may conclude | 3 clicks, 2 sends, 7 programs | 1,949,559 in 117 s |

**Bounds.** Three comms let a widget be opened, closed, reopened, closed and
reopened with messages of the first still in flight; no definition compares more
than two comms. `MaxQueue` bounds what programs send; answers of the kernel are
not bounded by it. One value suffices in the session runs, which never compare
states; `sync` has two, so that an old value can be told from a new one. Two
sockets and two clicks are the least with which broadcasts can overtake each
other, a page can be late and a click can go down with its socket. Two views
give every ordered pair of behaviours. Three containers of two slots give every
tree, DAG and cycle over three containers (a container twice in one parent,
self-reference, a diamond's shared child); limits 1 and 2 put the limit above and
below the depth of such states, where the code's 500 would never bite. Each
container but the root is a dict, a list or a tuple. With
`MaxClicks` reached and all delivered the Clay runs come to rest, as does a
dashboard or a notebook that is left alone, and a probe that is done; hence
`CHECK_DEADLOCK FALSE` there; all other runs check for deadlock. Two
events of the dashboard are any two of wiring, wiring again, closing the summary or the
button, and reloading the page, with moves of the controls between them; two
values, an index in range and one out of range give every Model that is told
apart. Three parts are the least with which a part is shared by way of a
box. Three clicks and two sends let two updates and two echoes cross in every
order (with two clicks and three sends, 2,389,546 states, the same holds).

**Fairness.** `WidgetSession`: the kernel's loop dispatches (`WF(Dispatch)`) and the
websocket delivers (`WF(FrontReceive)`); no call of the host and nothing in the browser
is promised. `ModelSync`: queued microtasks run. `ClayHost`: frames arrive
(`WF(Receive)`), and the pool serves each socket (`SF(Serve)`: a worker that is free now
and taken by another socket then must not starve one for ever; the pool's queue is first
come, first served). `Dashboard`: the kernel's loop and the page take their messages; no
user moves, and no program does, anything. `Clojupyter`: the agent's thread, the
kernel's dispatch, the page, a `send-state!` once begun, and the probe, which never
waits without a timeout. `Views` and `BufferSplit` have safety properties only.

### What the passing runs show

- `ImplementsContract` (refinement, with liveness): under the mapping `LinkOf`,
  `WireOf`, `SeenOf`, every behaviour of a widget is one of `CommContract`:
  sessions one after another, no message outside of one, every message delivered.
- `AnnouncedFirst`, `FarewellLast`: no answer to a late `request_state` and no
  update leaks out before the announcement or after the farewell of its comm,
  though the transport itself would send it.
- `StoryAgrees`, `OneSession`: see the proofs below.
- `EndsAgree`: with nothing in flight the browser has a model exactly for the
  comm the kernel has open.
- `ReloadRecovers`: a page reloaded while its comm had a handler gets its model
  back. The premise is what `reopen_listens` shows to be necessary.
- `HostKeysAgree`, `PageKeysAgree`, `RequestHeals`: see ModelSync. That
  `PageKeysAgree` assumes a host that sends only its own keys is essential: a
  full `send_state` that crosses an edit puts the page's old value back.
- `CountsOnce`, `NewestReaches`, `NeverAhead`, `CountsCatchUp`: with a pool of
  workers the newest count reaches every page, late ones included, and once there is a
  count a page shows that or a later one (not every count is shown: two handlers that
  both swap before either reads broadcast the second count twice); no page shows a
  count that was never reached or another widget's. But an older count may
  come after the newest (`clay_stale`).
- `PageFollows`: whatever is wired twice, closed or reloaded, once all is
  delivered the summary and the button show the Model. After a render that a
  closed summary cut short the button does not, until it is rendered again.
- `SnapshotsWhole`: a file, whenever it is saved, shows one Model, loads, and
  lacks nothing it refers to. `CompanionsArrive`: the page has, next to every
  control, the models of all companions it refers to, if the call of `wire()` was given
  transports for them. That the references do not name these models is what
  `dashboard_companions` shows.
- `RestoreExact`, `TreesExport`, `PagesRender`: loading leaves the document as it was,
  saving what was loaded gives it again; a tree can be dumped unless a part is in it
  twice, and is then closed and read as it was; a page can be made of every
  document whose state is a mapping and of every forest, with a view class of its own for
  every control; it is empty if the state is missing, and there is none of anything else.
- `ReloadRecovers` (of `Dashboard`): reloaded pages get every open widget back.
- `EchoSkipped`: a handler is called with an echo only if sends crossed or an
  update looked like a send. `NothingLost`: even then the handler has, in the
  end, seen the page's last count, and what it derived from it is what the
  comm-atom holds - an update that is swallowed is made up for by the echo that
  is then not. This rests on the order of `send-state!`'s two steps. `Settles`:
  nothing echoes for ever, for handlers whose reply depends on the state alone.
- `Verdict`: a tier is never too good, and right unless a drain was too short.
- `PaintsFresh`: views that paint from the model are right after any nesting of
  emissions. `ShowsFresh`: those that show the argument are, too, if no listener
  before them sets a key. `RemovedIsDeaf`.
- `OriginalUntouched`, `SplitsRight`, `RoundTrip`, `ClonesOnlyChanged`, `RefusesRight`:
  the buffer algorithm against what the paths of the two states lead to. Splitting
  touches nothing of the host's and copies only what has a binary value below it;
  merging gives the state back, but for a list in place of a tuple with a binary value
  below it, and, too, writes only to copies, although the stripped state shares the
  other containers with the host; a state is refused exactly if it nests deeper than the
  limit.

### What the violated runs show

Each checks one sentence of the repository that the code does not keep. The
findings in `PROJECT.json` quote it.

1. `ListensWhileOpen`: `_listening` is never reset, so that after close and open
   the new comm has no handler.
2. `PagesConverge` with two workers: read, be overtaken, broadcast an old count.
3. `StaticSnapshot`: `build_entries` takes the controls as they were built, the
   summary and the file from the present Model.
4. `CompanionsResolve`: the dashboard's comment and its test say that a live control's
   references resolve once every companion has its own `comm_open`. They name the ids
   minted in `__init__`; the transport leaves the choice of a comm's id to the kernel, and
   the page's models have that one.

Three things that are plain in the source have no run. A `comm_open` that raises leaves
the phase open with no comm, as the phase is stored before the effects run
(`lifecycle.py:407`): a second `open()` is then a no-op, and `send_state()`, which
"requires an open comm" (`model.py:81`), passes the reducer's check and fails in the
transport. `close()` raises there, too, but has stored the phase closed by then, so that the
next `open()` tries again. `session_failures` has such openings, and shows that neither a
second session nor a disagreement at rest comes of them. A transport that declares no
support for buffers is given updates with buffers (`lifecycle.py:234`, against
`openspec/specs/lifecycle-shell/spec.md:46-49`), and `docs/using/dashboard.qmd:61-65`
says that the summary of the static page follows the slider, which
`build.py:28-30` says needs a kernel.

## 4. The proofs

All theorems hold for every value of the constants allowed by the modules'
assumptions: any number of comms, pages, views, widgets, workers and messages,
any keys and values. The bounds of the runs are constants too; the theorems hold
for each value of them. Where a proof needs an inductive invariant that is not
a checked property, TLC has first checked that one on the instance named.

| theorem | property | inductive invariant |
|---|---|---|
| `SessionTypeOK`, `SessionOne`, `SessionStory` | `TypeOK`, `OneSession`, `StoryAgrees` | `SessionInv` |
| `SessionEnds` | `EndsAgree` | `SessionInv` and `EndsInv` |
| `SessionRefinement` | the safety part of `ImplementsContract` | the same |
| `SessionAnnouncedFirst`, `SessionFarewellLast` | `AnnouncedFirst`, `FarewellLast` | the refinement and `ContractInv` |
| `ContractSafety`, `ContractAnnouncedFirst`, `ContractFarewellLast` | those of `CommContract` | `ContractInv` |
| `SyncTypeOK`, `SyncHostKeys`, `SyncPageKeys` | `TypeOK`, `HostKeysAgree`, `PageKeysAgree` | `SyncInv` |
| `ViewsTypeOK`, `ViewsPaintsFresh`, `ViewsShowsFresh`, `ViewsRemovedIsDeaf` | `TypeOK`, `PaintsFresh`, `ShowsFresh`, `RemovedIsDeaf` | `ViewsInv` |
| `ClayTypeOK`, `ClayCountsOnce`, `ClayNeverAhead`, `ClayNewestReaches` | `TypeOK`, `CountsOnce`, `NeverAhead`, `NewestReaches` | `ClayInv` |
| `CljTypeOK`, `CljEchoSkipped`, `CljNothingLost`, `CljVerdict` | `TypeOK`, `EchoSkipped`, `NothingLost`, `Verdict` | `CljInv` |
| `RoundTrip`, `DumpIsStable` | what `RestoreExact` checks, of any entries | none |
| `DashTypeOK`, `DashPageFollows`, `DashSnapshotsWhole`, `DashCompanionsArrive` | `TypeOK`, `PageFollows`, `SnapshotsWhole`, `CompanionsArrive` | `LiveInv` |
| `DashTreesExport`, `DashRestoreExact`, `DashPagesRender` | `TreesExport`, `RestoreExact`, `PagesRender` | `FileInv` |
| `SplitTypeOK`, `SplitUntouched`, `SplitSplitsRight`, `SplitRoundTrip`, `SplitClonesOnlyChanged`, `SplitRefusesRight` | `TypeOK`, `OriginalUntouched`, `SplitsRight`, `RoundTrip`, `ClonesOnlyChanged`, `RefusesRight` | `SplitInv` |

**Sessions.** Neither `OneSession` nor `StoryAgrees` is inductive. That only the
transport's comm can be up needs: a widget that is not open has no comm up at all
(otherwise `Open` would leave one behind), and that in turn needs that the
transport's comm is the last one created, so that a new comm differs from every
registered one. `SessionInv` has these facts and the types. It holds with failing
openings; only its last conjunct (no comm means unopened) assumes there are none,
and so do the theorems that speak of openings.

`EndsAgree` speaks of the two ends only when nothing is in flight. `EndsInv` says what
leads there: what the browser has not heard of a comm is on the wire, its
announcement ahead of its farewell; a comm that is up and that the browser has hung
up on has that hang-up still on the shell channel; and nothing at all is on the wire
of a comm not yet created.

`SessionRefinement`: with `LinkOf`, `WireOf` and `SeenOf` for the abstract
variables, the initial states of `WidgetSession` are initial states of
`CommContract`, and each of its steps is an abstract step or changes none of these.
Every action of the widget is first shown to be one of nine kinds
(`Announces`, `FailsToOpen`, `Speaks`, `Retires`, `HangsUp`, `Keeps`, `Hears`,
`Reloads`, `Leaves`), and each kind to be its abstract counterpart; the lemmas on
the reducer (what each function may return: the phase, at most one Send, its
type) are in `WidgetSession_proofs`. `AnnouncedFirst` and `FarewellLast` then come
from the abstract invariant `ContractInv`, to which an invariant on the announcement still
being under way for what the browser has not seen makes them inductive.

**Copies of a model.** `HostKeysAgree` and `PageKeysAgree` say nothing while a
message about the key is on its way. `SyncInv` does: the *last* message about the key in the
queue has the writer's value (`Newest`), unless the key is unsent, dirty, or was
missed. For a page's key it also needs that no message of the host is about it, which is where
`~full` enters, and that what the page sends is well-formed and about its own keys.

**Views.** While loops run, almost no view is right. `ViewsInv` says why they will
be: a painting view is right or an emission under way still has it before it; a
showing view that was not misled is right about each key or the innermost emission, for that
key and with the model's value, has it before it, and no clamp is ahead of it in any
list or running loop. These need the shape of the stack: at the bottom at most
one update, above it at most two emissions, the second only while the clamped key
is low. `RemovedIsDeaf` needs that a list of listeners has nobody twice, and a
lemma on filters (what is filtered keeps its order, gains nothing and loses only what
the test refuses), proved by induction; the induction on naturals comes from
`WellFoundedInduction`, whose theorems take sets and not operators. For this
`Emitter.off` is modelled with `Filter`, a recursive function.

**Clay.** `CountsOnce` counts the increments that lie in the queues; the proof is
about cardinalities of sets of positions (`Positions`), by a bijection when a queue
loses its head. `NeverAhead` rests on what a handler holds between its steps: the count
it has read is not above the atom's. `NewestReaches` speaks of empty queues. Its
invariant, `Reaching`: for each open page and each widget, the newest count has
come, or is on the wire to the page, or some handler will yet read it or send it there.
The handler that swapped last is that handler, for pages that were open at its
broadcast; a page that opens later is served by its own first frames. TLC: 7,006,993
states with two widgets.

**Clojupyter.** `CljInv` is a disjunction: a kernel runs the transport or is probed.
With the transport, `NothingLost` is a statement about threads at rest. Its invariant
counts: `Ahead`, the notifications of own sends still to come, is at least the number of
echoes that could be swallowed, and one more while the handler has not seen the count.
So a notification that is taken for an echo and hides a count is made up for by a later
one. `Awaited` says that what `pending` holds is always about to be sent, queued, or
shown by the state the watch looks at - the order of `send-state!`'s two steps.
`Derived` follows what a handler replied last. For the probe: an answer, or what leads
to one, is at every moment somewhere between kernel and client, so a drain that took
everything has it. TLC: all 1,949,559 states of the run.

**Buffers.** The walk changes a heap in which containers are shared, so the proof is
about references as much as about values. `Linked`: to a clone leads at most one
reference, and none to the result or to a clone that a frame still holds. So a clone
has one path from the root, and a write to it is seen at that path only; and what is
shared, or was the host's, is never written (`OriginalUntouched`). `Chained`: the frames
are a chain of containers from the root, their keys the path. `Worked`: of a
frame's container, what lies before the slot it is at has nothing binary below it, or
stands stripped in the frame's clone; the rest of the clone is as it was. `Recorded`:
the paths recorded are exactly those of binary values the walk has come by, in its
order (`Before`, lexicographic on slots). `Shallow`: what is done nests within the
limit; a container that is among its own ancestors nests as deep as one likes, by going
round. `Merging`: with `m` buffers back, the first `m` paths lead to their
binary values again and all others to what they led to. Statements about everything
below a container are for all paths, by an induction on the length of a path. TLC: all
1,349,802 states of `buffers`, with paths of up to three slots, which lead to every container.

**Documents.** For any sequence of entries with distinct, non-empty ids,
whose states are any functions to records: `RoundTrip`, that `LoadDocument` of
`DumpDocument` gives the ids in their order and the states, binaries as bytes;
and `DumpIsStable`, that dumping what was loaded gives the same document again,
if no identity field is binary (`dump_model` needs that: it puts these fields into
the record as they are; of every entry that the dashboard or the fresh session
makes, the invariant proves it). Each
rests on a lemma on one model: that merging the decoded buffers into the stripped state
gives the state as it is read, and that this one has the same record.

**The live dashboard.** `PageFollows` speaks of empty queues. `LiveInv` says
what leads there: `Presence`, that what is open the page has a model for, or a
message that makes one is on its way, or the page's question is; and `Currency`,
that the *last* message about the summary (the button) has the present Model's state, and
if there is none the page has it, unless a render was cut. No closing message is about
an open widget. `Pages`, that each model of the page shows
one Model, makes what the button holds a whole document; for it, what the user moved must be the
state of the Model with that change. `CompanionsArrive` follows from `Presence`, with the
queues empty, and from the companions of the calls that were given transports for them being
open: a call opens them all, and the program closes none.

**The session that has the file.** `FileInv` describes what `Build` and `Box` make
without recursion: `Made` entries have well-formed states, the root of every id among
them, and refer to each other only. Making a box of such entries keeps all that,
whatever its children are; hence trees of any depth. That a tree can be dumped exactly
unless a part is in it twice rests on uuids: two `Made` lists share an id exactly if
they share a root, and the root that is drawn next is none of `Drawn`. The records of
the document are `Filed`: what is read of them is `Made`, and has these records again.
For `PagesRender`, `Made` also says that states are `Classed`: a control has its own
view name and module, any other model neither. The harvest of several trees takes each
model at its first place, so that its records have distinct ids and, by induction over
the entries, every id of the trees; these refer to each other only, and so the page
lacks nothing. The assumption on `Roots` is that no uuid is drawn twice, and none that
the dashboard uses. TLC has checked both invariants in all 97,988 states of `dashboard`.

**Model-checked only.** Every invariant and every safety property of a passing run is
proved. What is left to TLC is liveness, with the fairness it needs, which is beyond the
prover: both `ReloadRecovers`, `RequestHeals`, `CountsCatchUp`, `Settles`, and of
`ImplementsContract` that every message is delivered.

## 5. Not modelled

- The `_opened` setter, a shim for tests, and calls of one widget from several
  threads: no lock protects them and the kernel makes none.
- What raises inside host callbacks or widget code, except in `renderWidget` and
  `Dashboard._render`.
- Replies of a clojupyter handler that differ from call to call, such as a count of its
  own calls: two of them on their way at once miss each other's `pending` for
  ever. The source calls the filter best effort and means it for a counter.
- `scripts/`: drivers of tests and reports, with none of the system's state.
- The text of messages: JSON, base64, version strings, display bundles.
- Components with status `not_modelled` in `PROJECT.json`, with the reason there.

## 6. Plan

The order is by how much of the system's behaviour depends on a part. Done: the
reducer and sessions, the abstract protocol, the Clay host, the synchronisation
of copies, views, buffers, documents with controls and the dashboard, clojupyter
with the probe, and the theorems of section 4, which leave no safety property of
a passing run unproved.

Left, modules:

1. `PlutoBond`: `PlutoChannel` and the Julia extension; property: the bond holds
   the full state of the model after every save.
2. Ports: the reducers and shells of Julia, C# and R as variants of `Lifecycle`,
   compared with it over all events; the JavaScript, C# and Clojure buffer
   algorithms compared with `BufferSplit`'s reference.
