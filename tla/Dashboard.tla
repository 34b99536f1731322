------------------------------ MODULE Dashboard ------------------------------
(***************************************************************************)
(* The dashboard (examples/dashboard/build.py): a slider and a dropdown    *)
(* whose inbound updates change one Model on the host, a summary and a     *)
(* download button that are projections of it, over widgets (WidgetSession)*)
(* and documents (Documents); and what becomes of the file that is         *)
(* downloaded: the kernel restarts, and a fresh session loads it, composes *)
(* what it finds with further controls, dumps it again and embeds it.      *)
(*                                                                         *)
(* The host is one thread: a cell, or the handling of one inbound message, *)
(* is one step.  wire() may be called again (a cell is run twice): the     *)
(* widgets of the first call stay open and keep driving the Model.  Pages  *)
(* may be reloaded; they then ask every open widget for its state.         *)
(***************************************************************************)
EXTENDS Documents

CONSTANTS
  Labels,      \* the dropdown's options
  Values,      \* what the slider may be moved to
  Indexes,     \* the same for the dropdown: any number, in range or not, or None
  Initial,     \* the Model that __init__ is given
  Roots,       \* the uuids drawn by the fresh session, a sequence
  MaxEvents,   \* bound: calls of wire(), closed widgets and reloads of the page, in all
  MaxQueue,    \* bound: the user waits while that many messages are on their way
  MaxTrees     \* bound: trees built in the fresh session

ASSUME DashboardAssumption ==
  /\ Labels # << >>                   \* __init__ raises ValueError
  /\ Values \subseteq Nat
  /\ \A i \in Indexes : i = None \/ (Is("num", i) /\ i = Num(i.num) /\ i.num \in Nat)
  /\ MaxEvents \in Nat /\ MaxQueue \in Nat
  /\ MaxTrees \in 0 .. Len(Roots)
  /\ Roots \in Seq(STRING) /\ IsInjective(Roots)       \* no uuid is drawn twice ...
  /\ ToSet(Roots) \cap {"slider", "dropdown"} = {}      \* ... nor one that the dashboard drew

Models == [value : Values, index : Indexes]
ASSUME InitialAssumption == Initial \in Models

VARIABLES
  model,       \* Dashboard.model
  wires,       \* calls of wire() so far; summary_widget is the last one's
  downloadAt,  \* of which call download_widget is, 0 for None
  cut,         \* history: has a render raised before it came to the download?
  open,        \* the host's open widgets, <<call, id>>
  resolvable,  \* the calls of wire() that were given companion transports
  page,        \* the models on the page: from widgets (their comms) to states
  toPage,      \* comm messages to the page, a FIFO
  toHost,      \* comm messages to the host, a FIFO
  events,      \* calls of wire(), closed widgets and reloads so far
  fresh        \* the fresh session, once the kernel was restarted

live == <<model, wires, downloadAt, cut, open, resolvable, page,
          toPage, toHost, events>>
vars == <<live, fresh>>

Nothing == [nothing |-> TRUE]
Alive == fresh = Nothing
----------------------------------------------------------------------------
(***************************************************************************)
(* The Model's projections.                                                *)
(***************************************************************************)
SliderEntries == IntSlider(<<"slider">>, Initial.value)
DropdownEntries == Dropdown(<<"dropdown">>, Labels, Initial.index, "(none)")
\* Fault variant: the dropdown's companions are forgotten.
SliderCompanions == Tail(SliderEntries)

CompanionEntries == Tail(SliderEntries) \o Tail(DropdownEntries)
SliderId == <<"slider">>
DropdownId == <<"dropdown">>
SummaryId == MintId(SliderId, "summary")
DownloadId == MintId(SliderId, "download")
CompanionIds == {Id(e) : e \in ToSet(CompanionEntries)}
Ids == {SliderId, DropdownId, SummaryId, DownloadId} \cup CompanionIds

\* Nobody hands the widget's id to the kernel, which draws the comm's: a fresh one, under
\* which the page has the model and which the shell then takes for its own model_id.
CommId(widget) == <<"comm", widget[1]>> \o widget[2]

InRange(index) == index # None /\ index.num \in 0 .. Len(Labels) - 1
\* A string, of which what it says is kept.
SummaryText(m) ==
  [value |-> m.value, selection |-> IF InRange(m.index) THEN Labels[m.index.num + 1] ELSE "(none)"]

\* Fault variant: the state the slider was built with.
GetInitialSliderState == [m \in Models |-> SliderEntries[1].state]

GetSliderState == [m \in Models |-> Merge(SliderEntries[1].state, [value |-> Num(m.value)])]
GetDropdownState == [m \in Models |-> Merge(DropdownEntries[1].state, [index |-> m.index])]
GetSummaryState == [m \in Models |-> [_esm |-> Text("summary"), text |-> SummaryText(m)]]

\* What the button saves: everything but the button.
DashboardDocument == [m \in Models |->
  DumpDocument(<<Entry(SliderId, GetSliderState[m]), Entry(DropdownId, GetDropdownState[m]),
                 Entry(SummaryId, GetSummaryState[m])>> \o CompanionEntries)]
GetDownloadState == [m \in Models |->
  [_esm |-> Text("download"), json |-> Json(DashboardDocument[m])]]

GetState == [id \in Ids |->
  CASE id = SliderId   -> GetSliderState
    [] id = DropdownId -> GetDropdownState
    [] id = SummaryId  -> GetSummaryState
    [] id = DownloadId -> GetDownloadState
    [] OTHER -> [m \in Models |->
                   (CHOOSE e \in ToSet(CompanionEntries) : Id(e) = id).state]]

\* build_entries, which takes the slider and the dropdown as they were built.
BuildEntries == [m \in Models |->
  Box("vbox", <<"vbox">>, <<SliderEntries, DropdownEntries,
        <<Entry(SummaryId, GetSummaryState[m])>>, <<Entry(DownloadId, GetDownloadState[m])>>>>)]

\* build_html: a page with one view, the box.
BuildHtml == [m \in Models |-> Embed(DumpDocument(BuildEntries[m]), <<<<"vbox">>>>)]

\* A comm message: to a widget its state.  What a reload asks for, and the answers to
\* that, are several that stay together.
Message(type, states) == [type |-> type, states |-> states]
States(widgets, m) == [w \in widgets |-> GetState[w[2]][m]]

Init ==
  /\ model = Initial
  /\ wires = 0 /\ downloadAt = 0 /\ cut = FALSE
  /\ open = {} /\ resolvable = {} /\ page = << >>
  /\ toPage = << >> /\ toHost = << >> /\ events = 0
  /\ fresh = Nothing
----------------------------------------------------------------------------
(***************************************************************************)
(* The host.                                                               *)
(***************************************************************************)
Event == events < MaxEvents /\ events' = events + 1

\* What a call opens, in its order: the three widgets, the button if it is given a
\* transport, then the companions if they are given theirs.
Opened(call, companions, download) ==
  LET ids == <<SliderId, DropdownId, SummaryId>>
               \o (IF download THEN <<DownloadId>> ELSE << >>)
               \o (IF companions THEN [i \in DOMAIN CompanionEntries |-> Id(CompanionEntries[i])]
                   ELSE << >>) IN
  [i \in DOMAIN ids |-> <<call, ids[i]>>]

\* wire(): a comm_open for each.  The wrong number of companions raises ValueError, when
\* the others are open: as if there were none.
Wire(companions, download) ==
  /\ Alive /\ Event
  /\ wires' = wires + 1
  /\ downloadAt' = IF download THEN wires' ELSE downloadAt
  /\ cut' = (cut /\ ~download)
  /\ LET widgets == Opened(wires', companions, download) IN
     /\ open' = open \cup ToSet(widgets)
     /\ toPage' = toPage
          \o [i \in DOMAIN widgets |-> Message("comm_open", States({widgets[i]}, model))]
  /\ resolvable' = IF companions THEN resolvable \cup {wires'} ELSE resolvable
  /\ UNCHANGED <<model, page, toHost, fresh>>

\* The program closes the summary or the button.
Close(widget) ==
  /\ Alive /\ Event /\ widget \in open /\ widget[2] \in {SummaryId, DownloadId}
  /\ open' = open \ {widget}
  /\ toPage' = Append(toPage, Message("comm_close", [w \in {widget} |-> << >>]))
  /\ UNCHANGED <<model, wires, downloadAt, cut, resolvable, page, toHost, fresh>>

\* Fault variant: the kernel echoes.
UpdateEchoed(widget, m) == Message("echo_update", States({widget}, m))

Update(widget, m) == Message("update", States({widget}, m))

\* _render: the summary first, then the button.  send_state raises RuntimeError when
\* its widget is closed, and the rest is not done.
Render(m) ==
  LET summary == <<wires, SummaryId>>
      button == <<downloadAt, DownloadId>>
      raises == wires # 0 /\ summary \notin open IN
  /\ toPage' = toPage
       \o (IF summary \in open THEN <<Update(summary, m)>> ELSE << >>)
       \o (IF button \in open /\ ~raises THEN <<Update(button, m)>> ELSE << >>)
  /\ cut' = (raises \/ (cut /\ button \notin open))

\* Fault variant: the render comes before the Model's change.
SetModelLate(m) == Render(model) /\ model' = m

\* The Model is changed, then everything is rendered.
SetModel(m) == model' = m /\ Render(m)

\* _set_slider_state and _set_dropdown_state: no key, or no change, and that is it.
Change(id, state) ==
  CASE id = SliderId /\ "value" \in DOMAIN state   -> [model EXCEPT !.value = state["value"].num]
    [] id = DropdownId /\ "index" \in DOMAIN state -> [model EXCEPT !.index = state["index"]]
    [] OTHER -> model

\* Fault variant: request_state is not answered.
AnswerNothing(widgets) == UNCHANGED <<model, toPage, cut>>

Answer(widgets) ==
  /\ toPage' = Append(toPage, Message("answer", States(widgets \cap open, model)))
  /\ cut' = (cut /\ <<downloadAt, DownloadId>> \notin widgets \cap open)
  /\ UNCHANGED model

\* One inbound message.  The other widgets have no set_state.
HostReceive ==
  /\ Alive /\ toHost # << >>
  /\ toHost' = Tail(toHost)
  /\ LET m == Head(toHost)
         widget == CHOOSE w \in DOMAIN m.states : TRUE
         changed == Change(widget[2], m.states[widget]) IN
     IF m.type = "request_state" THEN Answer(DOMAIN m.states)
     ELSE IF widget \notin open \/ changed = model THEN UNCHANGED <<model, toPage, cut>>
     ELSE SetModel(changed)
  /\ UNCHANGED <<wires, downloadAt, open, resolvable, page, events, fresh>>
----------------------------------------------------------------------------
(***************************************************************************)
(* The page.                                                               *)
(***************************************************************************)
hostVars == <<model, wires, downloadAt, cut, open, resolvable>>

\* A model is made for a comm_open or an answer; an update is for the models there are.
PageReceive ==
  /\ Alive /\ toPage # << >>
  /\ toPage' = Tail(toPage)
  /\ LET m == Head(toPage) IN
     page' = CASE m.type \in {"comm_open", "answer"} -> Merge(page, m.states)
               [] m.type = "comm_close" -> Without(page, DOMAIN m.states)
               [] m.type = "update" -> [w \in DOMAIN page |-> Merge(page, m.states)[w]]
  /\ UNCHANGED <<hostVars, toHost, events, fresh>>

\* The user drags the slider or picks an option: the page's copy changes, and an
\* update with that key is sent.
Move(widget, state) ==
  /\ Alive /\ widget \in DOMAIN page /\ Len(toHost \o toPage) < MaxQueue
  /\ page' = [page EXCEPT ![widget] = Merge(@, state)]
  /\ toHost' = Append(toHost, Message("update", [w \in {widget} |-> state]))
  /\ UNCHANGED <<hostVars, toPage, events, fresh>>

Moves(id) ==
  IF id = SliderId THEN {[value |-> Num(v)] : v \in Values} ELSE {[index |-> i] : i \in Indexes}

\* The page is reloaded: its models and what is on its way to it are gone, and it asks
\* for the state of every comm the kernel has.
Reload ==
  /\ Alive /\ Event
  /\ page' = << >> /\ toPage' = << >>
  /\ toHost' = Append(toHost, Message("request_state", [w \in open |-> << >>]))
  /\ UNCHANGED <<hostVars, fresh>>
----------------------------------------------------------------------------
(***************************************************************************)
(* The fresh session: what it has is the file.                             *)
(***************************************************************************)
\* A tree: its entries, the calls that built its parts, and whether one part is in it
\* twice.
Tree(entries, parts, twice) == [entries |-> entries, parts |-> parts, twice |-> twice]

\* The button's click handler saves the file.  The kernel restarts, at once or later: all
\* that was live is gone, and what became of it after the click is not in the file.
DownloadAndRestart(widget) ==
  /\ Alive /\ widget \in DOMAIN page /\ widget[2] = DownloadId
  /\ fresh' = [doc |-> page[widget]["json"].json, loaded |-> << >>, trees |-> << >>]
  /\ model' = Initial /\ wires' = 0 /\ downloadAt' = 0
  /\ cut' = FALSE /\ open' = {} /\ resolvable' = {} /\ page' = << >>
  /\ toPage' = << >> /\ toHost' = << >> /\ events' = 0

Step(session) == fresh' = session /\ UNCHANGED live

\* Fault variant: the buffers are put back into the document itself.
LoadInPlace ==
  /\ ~Alive /\ Readable(fresh.doc)
  /\ Step([fresh EXCEPT !.loaded = LoadDocument(fresh.doc),
            !.doc.records = [i \in DOMAIN @ |->
               [@[i] EXCEPT !.state = LoadModel(fresh.doc.records[i]).state]]])

\* load_document, of the file or of a later dump; it raises on what it cannot read.
Load ==
  /\ ~Alive /\ Readable(fresh.doc)
  /\ Step([fresh EXCEPT !.loaded = LoadDocument(fresh.doc)])

\* A part is built, under a fresh uuid: a control, a widget of the program's own with
\* a binary value, or the entries that were loaded from the file.
Add(entries, parts, twice) ==
  /\ Len(fresh.trees) < MaxTrees
  /\ Step([fresh EXCEPT !.trees = Append(@, Tree(entries, parts, twice))])
Uuid == <<Roots[Len(fresh.trees) + 1]>>
AddSlider == ~Alive /\ Add(IntSlider(Uuid, model.value), {Uuid}, FALSE)
AddDropdown ==
  /\ ~Alive
  /\ \E value \in {Labels[1], "(none)"} : Add(Dropdown(Uuid, Labels, None, value), {Uuid}, FALSE)
AddPlot ==
  /\ ~Alive
  /\ \E type \in {"bytes", "strided"} :
       Add(<<Entry(Uuid, [data |-> Bin("points", type)])>>, {Uuid}, FALSE)
AddLoaded ==
  /\ ~Alive /\ fresh.loaded # << >>
  /\ Add(fresh.loaded, {<<Id(e)[1]>> : e \in ToSet(fresh.loaded)}, FALSE)

\* vbox or hbox of trees; the same tree may be given twice, or within another.
AddBox(kind, chosen) ==
  LET child(i) == fresh.trees[chosen[i]] IN
  Add(Box(kind, Uuid, [i \in DOMAIN chosen |-> child(i).entries]),
      {Uuid} \cup UNION {child(i).parts : i \in DOMAIN chosen},
      \E i, j \in DOMAIN chosen :
        child(i).twice \/ (i # j /\ child(i).parts \cap child(j).parts # {}))

\* dump_document of a tree; nothing comes of it when it raises.
Dump(tree) ==
  /\ DumpDocument(tree.entries) # Raised
  /\ Step([fresh EXCEPT !.doc = DumpDocument(tree.entries)])

\* The document is replaced by one that a later version wrote, or that is none.
Tamper(major, shape) == ~Alive /\ Step([fresh EXCEPT !.doc.major = major, !.doc.shape = shape])
----------------------------------------------------------------------------
Next ==
  \/ \E companions, download \in BOOLEAN : Wire(companions, download)
  \/ \E widget \in open : Close(widget)
  \/ HostReceive
  \/ PageReceive
  \/ \E widget \in DOMAIN page : widget[2] \in {SliderId, DropdownId}
       /\ \E state \in Moves(widget[2]) : Move(widget, state)
  \/ \E widget \in DOMAIN page : DownloadAndRestart(widget)
  \/ Reload
  \/ Load
  \/ AddSlider
  \/ AddDropdown
  \/ AddPlot
  \/ AddLoaded
  \/ /\ ~Alive
     /\ \E i, j \in DOMAIN fresh.trees : AddBox("vbox", <<i>>) \/ AddBox("hbox", <<i, j>>)
  \/ ~Alive /\ \E i \in DOMAIN fresh.trees : Dump(fresh.trees[i])
  \/ Tamper(3, "mapping")
  \/ \E shape \in {"other", "missing"} : Tamper(2, shape)

\* The kernel's loop and the page's take every message in its turn.
Fairness == WF_vars(HostReceive) /\ WF_vars(PageReceive)

Spec == Init /\ [][Next]_vars /\ Fairness
----------------------------------------------------------------------------
Quiet == toPage = << >> /\ toHost = << >>
Shown(widget, key) == page[widget][key]

TypeOK ==
  /\ model \in Models
  /\ downloadAt \in 0 .. wires /\ wires \in 0 .. events
  /\ cut \in BOOLEAN /\ resolvable \subseteq 1 .. wires
  /\ \A w \in open \cup DOMAIN page : w[1] \in 1 .. wires
  /\ \A i \in DOMAIN toPage : toPage[i].type \in {"comm_open", "comm_close", "update", "answer"}
  /\ \A i \in DOMAIN toHost : toHost[i].type \in {"update", "request_state"}
  /\ events \in 0 .. MaxEvents

\* Whatever is wired twice, closed or reloaded: once all is delivered, the summary and
\* the button of the page show the Model, unless a closed summary cut a render short.
PageFollows ==
  LET summary == <<wires, SummaryId>>
      button == <<downloadAt, DownloadId>> IN
  Quiet =>
    /\ summary \in open => summary \in DOMAIN page /\ Shown(summary, "text") = SummaryText(model)
    /\ button \in open /\ ~cut =>
         button \in DOMAIN page /\ Shown(button, "json") = Json(DashboardDocument[model])

\* A document that loads, lacks nothing it refers to, and all of it shows one Model.
Whole(doc) ==
  /\ Readable(doc) /\ Dangling(doc) = << >>
  /\ \E m \in Models : \A e \in ToSet(LoadDocument(doc)) :
       /\ e.id = SliderId => e.state["value"] = Num(m.value)
       /\ e.id = DropdownId => e.state["index"] = m.index
       /\ e.id = SummaryId => e.state["text"] = SummaryText(m)

\* Whatever the button holds, or has on its way to it, is a whole document.
Snapshots ==
  {page[w]["json"].json : w \in {u \in DOMAIN page : u[2] = DownloadId}}
    \cup UNION {{m.states[w]["json"].json : w \in {u \in DOMAIN m.states : u[2] = DownloadId}}
                : m \in {n \in ToSet(toPage) : n.type # "comm_close"}}
SnapshotsWhole == Alive => \A doc \in Snapshots : Whole(doc)

\* Once all is delivered, the page has a model for every companion that a control of it
\* refers to, of the same call of wire() - where that was given transports for them.
CompanionsArrive ==
  Quiet => \A w \in DOMAIN page : w[1] \in resolvable =>
             \A id \in References(page[w]) : <<w[1], id>> \in DOMAIN page

\* "the frontend resolves a reference by looking up a model it has separately received a
\* comm_open for [...] wire() below does that" (build.py:106-110): once all is delivered,
\* and every call of wire() has opened its companions, every reference meets a model.
CompanionsResolve ==
  Quiet /\ resolvable = 1 .. wires =>
    \A w \in DOMAIN page : References(page[w]) \subseteq {CommId(u) : u \in DOMAIN page}

\* Trees of controls can be dumped unless a part is in them twice; what is dumped lacks
\* nothing it refers to and is loaded again as it was.
TreesExport ==
  ~Alive => \A t \in ToSet(fresh.trees) :
    LET doc == DumpDocument(t.entries) IN
    /\ t.twice <=> doc = Raised
    /\ ~t.twice =>
         /\ Dangling(doc) = << >>
         /\ LoadDocument(doc) = AsRead(t.entries)

\* A page of a document has its views, lacks nothing it refers to, and every model of it
\* has a view class, controls their own.
Renders(html) ==
  LET records == ToSet(html.state.records) IN
  /\ ToSet(html.views) \subseteq {Id(r) : r \in records} /\ Dangling(html.state) = << >>
  /\ \A r \in records :
       /\ Binaries(r.state) = {}
       /\ r.state["_view_module"] =
            IF r.model["_model_name"] = Text("AnyModel") THEN Text("anywidget") ELSE Text("controls")

\* A page can be made of the dashboard, of every forest, and of every document that is one,
\* an empty page if its state is missing; no page is made of what has no mapping there.
PagesRender ==
  /\ Alive => Renders(BuildHtml[model])
  /\ ~Alive =>
       LET html == EmbedAll(fresh.doc) IN
       /\ html = Raised <=> fresh.doc.shape = "other"
       /\ html # Raised => /\ Renders(html)
                           /\ html.views = << >> <=> fresh.doc.shape = "missing"
       /\ \A s, t \in ToSet(fresh.trees) : Renders(HarvestHtml(<<s.entries, t.entries>>))

\* Loading changes nothing of the document, and dumping what was loaded gives it again.
RestoreExact ==
  [][~Alive /\ fresh'.loaded # fresh.loaded =>
       fresh'.doc = fresh.doc /\ DumpDocument(fresh'.loaded) = fresh.doc]_vars

\* A page that was reloaded gets all its models back, whatever is moved meanwhile.
ReloadRecovers == []<>(open \subseteq DOMAIN page)

\* "A static snapshot: slider + dropdown + summary + download" (build.py), of a Model all
\* of whose widgets are "pure projections": what build_entries takes shows the Model.
StaticSnapshot ==
  Alive => \A e \in ToSet(BuildEntries[model]) :
    /\ e.id = SliderId => e.state["value"] = Num(model.value)
    /\ e.id = DropdownId => e.state["index"] = model.index
============================================================================
