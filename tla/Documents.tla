------------------------------ MODULE Documents ------------------------------
(***************************************************************************)
(* Widget-state documents (src/cositos/serialize.py), their static page    *)
(* (embed.py), the controls that are built for them (contrib/controls.py)  *)
(* and the harvest of a live ipywidgets tree (contrib/harvest.py), as      *)
(* operators on values.                                                    *)
(*                                                                         *)
(* An entry is a model's id and its state, a function from keys to values. *)
(* A value is a record with one field (two for a binary), whose name says  *)
(* what it is, so that any two values can be compared.  An id is a         *)
(* sequence: minting appends a role to it, and << >> is the empty string.  *)
(* The binary values of a state are at its top here; BufferSplit has the   *)
(* walk that finds and moves them in nested ones.                          *)
(***************************************************************************)
EXTENDS Naturals, Sequences, SequencesExt

Text(s) == [text |-> s]
Num(n) == [num |-> n]
None == [none |-> TRUE]
Ref(id) == [ref |-> id]                              \* the string "IPY_MODEL_<id>"
List(values) == [list |-> values]
Bin(data, type) == [bin |-> data, type |-> type]     \* bytes, or a typed or strided view
Json(document) == [json |-> document]                \* json.dumps of a document

Is(tag, value) == tag \in DOMAIN value
Entry(id, state) == [id |-> id, state |-> state]
Id(entry) == entry.id
Raised == [raised |-> TRUE]                          \* instead of a result: an exception

\* {**first, **second}
Merge(first, second) ==
  [k \in DOMAIN first \cup DOMAIN second |-> IF k \in DOMAIN second THEN second[k] ELSE first[k]]
Without(state, keys) == [k \in DOMAIN state \ keys |-> state[k]]
----------------------------------------------------------------------------
(***************************************************************************)
(* serialize.py                                                            *)
(***************************************************************************)
Binaries(state) == {k \in DOMAIN state : Is("bin", state[k])}

\* encode_buffers_base64: whatever view it was, the record holds its bytes.
Encode(value) == [encoding |-> "base64", data |-> value.bin]
Decode(record) == IF record.encoding = "base64" THEN Bin(record.data, "bytes") ELSE Raised

ModelFields == {"_model_name", "_model_module", "_model_module_version"}
AnyModel == [f \in ModelFields |->
  Text(CASE f = "_model_name" -> "AnyModel" [] f = "_model_module" -> "anywidget"
         [] OTHER -> "~0.11.*")]

\* The record's identity is read from the state, field by field, or defaulted; the
\* state is kept as it is, but for the binary values, which move to the buffers.
DumpModel(entry) ==
  [id |-> entry.id,
   model |-> [f \in ModelFields |->
               IF f \in DOMAIN entry.state THEN entry.state[f] ELSE AnyModel[f]],
   state |-> Without(entry.state, Binaries(entry.state)),
   buffers |-> [k \in Binaries(entry.state) |-> Encode(entry.state[k])]]

LoadModel(record) ==
  Entry(record.id, Merge(record.state, [k \in DOMAIN record.buffers |-> Decode(record.buffers[k])]))

\* A document: its major version, what its "state" key holds (a "mapping", an "other"
\* value, or it is "missing"), and the mapping's records in the order of their insertion.
Document(records) == [major |-> 2, shape |-> "mapping", records |-> records]

\* document.get("state", {}), of whose result the items are asked next.
Records(doc) == IF doc.shape = "missing" THEN << >> ELSE doc.records

Distinct(entries) == IsInjective([i \in DOMAIN entries |-> Id(entries[i])])

DumpDocument(entries) ==
  IF Distinct(entries) /\ \A i \in DOMAIN entries : Id(entries[i]) # << >>
    THEN Document([i \in DOMAIN entries |-> DumpModel(entries[i])])
    ELSE Raised

Readable(doc) ==
  /\ doc.shape = "mapping" /\ doc.major = 2
  /\ \A i \in DOMAIN doc.records : \A k \in DOMAIN doc.records[i].buffers :
       doc.records[i].buffers[k].encoding = "base64"

LoadDocument(doc) ==
  IF Readable(doc) THEN [i \in DOMAIN doc.records |-> LoadModel(doc.records[i])] ELSE Raised

\* What is read of entries that were dumped: of a binary the bytes, whatever it was a
\* view of.
Flat(state) == [k \in DOMAIN state |->
  IF Is("bin", state[k]) THEN Bin(state[k].bin, "bytes") ELSE state[k]]
AsRead(entries) == [i \in DOMAIN entries |-> Entry(Id(entries[i]), Flat(entries[i].state))]

\* _referenced_ids, for values nested at most two containers deep.
Items(value) == IF Is("list", value) THEN ToSet(value.list) ELSE {}
Nested(values) == values \cup UNION {Items(v) : v \in values}
References(state) ==
  {v.ref : v \in {w \in Nested(Nested({state[k] : k \in DOMAIN state})) : Is("ref", w)}}

\* check_references: for the models that refer to missing ones, to which.
Dangling(doc) ==
  LET records == ToSet(Records(doc))
      present == {Id(r) : r \in records}
      missing(r) == References(r.state) \ present IN
  IF doc.shape = "other" THEN Raised
  ELSE [r \in {s \in records : missing(s) # {}} |-> missing(r)]
----------------------------------------------------------------------------
(***************************************************************************)
(* embed.py                                                                *)
(***************************************************************************)
ViewIdentity(version) ==
  [_view_module |-> Text("anywidget"), _view_name |-> Text("AnyView"),
   _view_module_version |-> version, _view_count |-> None]

\* The copy of a document with other states in its records; what has no items() raises.
WithStates(doc, states) ==
  IF doc.shape = "other" THEN Raised
  ELSE [doc EXCEPT !.shape = "mapping",
                   !.records = [i \in DOMAIN Records(doc) |->
                      [Records(doc)[i] EXCEPT !.state = states[i]]]]

\* The identity that is injected into a record.
Injected(record) == ViewIdentity(record.model["_model_module_version"])

\* Fault variant: the injected identity wins over what the host set.
WithViewIdentityForced(doc) ==
  WithStates(doc, [i \in DOMAIN Records(doc) |->
                     LET r == Records(doc)[i] IN Merge(r.state, Injected(r))])

\* What the host set wins over the injected identity.
WithViewIdentity(doc) ==
  WithStates(doc, [i \in DOMAIN Records(doc) |->
                     LET r == Records(doc)[i] IN Merge(Injected(r), r.state)])

EveryModel(doc) == [i \in DOMAIN Records(doc) |-> Id(Records(doc)[i])]

\* The page: the document as the html-manager reads it and the ids that get a view.
Embed(doc, views) ==
  LET whole == WithViewIdentity(doc) IN
  IF whole = Raised THEN Raised ELSE [state |-> whole, views |-> views]
EmbedAll(doc) == Embed(doc, EveryModel(doc))
----------------------------------------------------------------------------
(***************************************************************************)
(* contrib/controls.py.  root is the uuid a call draws.                    *)
(***************************************************************************)
MintId(root, role) == Append(root, role)

Companions(kind) ==
  IF kind \in {"int_slider", "dropdown"} THEN <<"style", "layout">> ELSE <<"layout">>

Identity(name) ==
  [_model_name |-> Text(name), _model_module |-> Text("controls"),
   _model_module_version |-> Text("2.0.0"),
   _view_name |-> Text(name), _view_module |-> Text("controls"),
   _view_module_version |-> Text("2.0.0")]

\* The control's own entry comes first, then one per companion, which it refers to.
Build(kind, root, overrides) ==
  LET roles == Companions(kind)
      defaults == [role \in ToSet(roles) |-> Ref(MintId(root, role))] IN
  <<Entry(root, Merge(Merge(Identity(kind), defaults), overrides))>>
    \o [i \in DOMAIN roles |-> Entry(MintId(root, roles[i]), Identity(roles[i]))]

IntSlider(root, value) == Build("int_slider", root, [value |-> Num(value)])

\* On the wire are the labels and the index, which is looked up if only a value is given.
IndexOf(labels, value) ==
  LET i == SelectInSeq(labels, LAMBDA l : l = value) IN IF i = 0 THEN None ELSE Num(i - 1)
Dropdown(root, labels, index, value) ==
  Build("dropdown", root,
        [_options_labels |-> List([i \in DOMAIN labels |-> Text(labels[i])]),
         index |-> IF index # None THEN index ELSE IndexOf(labels, value)])

\* Fault variant: of the children only their own entries are taken along.
BoxShallow(kind, root, children) ==
  Build(kind, root, [children |-> List([i \in DOMAIN children |-> Ref(Id(children[i][1]))])])
    \o [i \in DOMAIN children |-> children[i][1]]

\* vbox and hbox: references to the children's roots, and every descendant's entry.
Box(kind, root, children) ==
  Build(kind, root, [children |-> List([i \in DOMAIN children |-> Ref(Id(children[i][1]))])])
    \o FlattenSeq(children)
----------------------------------------------------------------------------
(***************************************************************************)
(* contrib/harvest.py over ipywidgets' embed_data (external), which takes  *)
(* each model of the trees once.                                           *)
(***************************************************************************)
\* A model is taken at its first place in the trees.
FirstPlace(entries, i) == \A j \in 1 .. i - 1 : Id(entries[j]) # Id(entries[i])
EmbedData(trees) ==
  LET entries == FlattenSeq(trees)
      taken[n \in 0 .. Len(entries)] ==
        IF n = 0 THEN << >>
        ELSE IF FirstPlace(entries, n) THEN Append(taken[n - 1], DumpModel(entries[n]))
        ELSE taken[n - 1] IN
  taken[Len(entries)]

Harvest(trees) == IF trees = << >> THEN Raised ELSE Document(EmbedData(trees))

HarvestHtml(trees) ==
  IF trees = << >> THEN Raised
  ELSE Embed(Harvest(trees), [i \in DOMAIN trees |-> Id(trees[i][1])])
============================================================================
