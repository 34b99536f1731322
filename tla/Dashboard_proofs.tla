-------------------------- MODULE Dashboard_proofs ---------------------------
(***************************************************************************)
(* Theorems about documents: what dump_document and load_document          *)
(* (src/cositos/serialize.py) make of any sequence of entries, whatever    *)
(* the keys and values of their states; then about the dashboard, the      *)
(* session that has nothing but its file, and the pages that are made of   *)
(* both.                                                                   *)
(***************************************************************************)
EXTENDS Dashboard, TLAPS

\* A value that is no binary and refers to nothing.
Plain(v) == ~Is("bin", v) /\ ~Is("list", v) /\ ~Is("ref", v)

\* What a page takes from a state: a control has a name and the view module of the
\* controls, and any other model has neither.
Named == {"_model_name", "_model_module_version", "_view_module"}
Classed(state) ==
  /\ "_model_module_version" \in DOMAIN state => Plain(state["_model_module_version"])
  /\ \/ "_model_name" \notin DOMAIN state /\ "_view_module" \notin DOMAIN state
     \/ /\ "_model_name" \in DOMAIN state /\ state["_model_name"] # Text("AnyModel")
        /\ "_view_module" \in DOMAIN state /\ state["_view_module"] = Text("controls")

\* A state is a function; what dump_model writes as the identity is no binary.
IsState(state) == state = [k \in DOMAIN state |-> state[k]]
Formed(entry) ==
  /\ entry = Entry(entry.id, entry.state) /\ IsState(entry.state)
  /\ Binaries(entry.state) \cap ModelFields = {} /\ Classed(entry.state)

\* What serialize.py takes: distinct ids that are not empty.
Dumpable(entries) ==
  /\ Distinct(entries)
  /\ \A i \in DOMAIN entries : Id(entries[i]) # << >> /\ IsState(entries[i].state)

\* An identity field is a string, whatever else a state may hold.
Identified(entries) ==
  \A i \in DOMAIN entries : Binaries(entries[i].state) \cap ModelFields = {}
----------------------------------------------------------------------------
\* A model that was dumped is read with its id, and its state as bytes.
LEMMA LoadDumped ==
  ASSUME NEW e, IsState(e.state)
  PROVE  LoadModel(DumpModel(e)) = Entry(e.id, Flat(e.state))
<1> DEFINE s == e.state
           B == Binaries(s)
           buffers == [k \in B |-> Encode(s[k])]
           decoded == [k \in B |-> Decode(buffers[k])]
<1> DEFINE K == DOMAIN s
<1>1. s = [k \in K |-> s[k]]
  BY DEF IsState
<1>2. DumpModel(e).id = e.id /\ DumpModel(e).state = Without(s, B) /\ DumpModel(e).buffers = buffers
  BY DEF DumpModel
<1>3. LoadModel(DumpModel(e)) = Entry(e.id, Merge(Without(s, B), decoded))
  BY <1>2 DEF LoadModel
<1>4. \A k \in B : decoded[k] = Bin(s[k].bin, "bytes")
  BY DEF Encode, Decode
<1>5. B \subseteq K
  BY <1>1 DEF Binaries
<1>6. Merge(Without(s, B), decoded) = Flat(s)
  <2>1. DOMAIN Without(s, B) = K \ B /\ \A k \in K \ B : Without(s, B)[k] = s[k]
    BY <1>1 DEF Without
  <2>2. Merge(Without(s, B), decoded) =
          [k \in K |-> IF k \in B THEN decoded[k] ELSE s[k]]
    <3> HIDE DEF B
    <3>1. DOMAIN decoded = B /\ DOMAIN decoded \cup DOMAIN Without(s, B) = K
      BY <2>1, <1>5
    <3> HIDE DEF decoded
    <3>2. Merge(Without(s, B), decoded) =
            [k \in K |-> IF k \in B THEN decoded[k] ELSE Without(s, B)[k]]
      BY <3>1 DEF Merge
    <3> QED BY <2>1, <3>2
  <2>3. \A k \in K : k \in B <=> Is("bin", s[k])
    BY <1>1 DEF Binaries
  <2>4. Flat(s) = [k \in K |-> IF Is("bin", s[k]) THEN Bin(s[k].bin, "bytes") ELSE s[k]]
    BY <1>1 DEF Flat
  <2> QED BY <2>2, <2>3, <2>4, <1>4
<1> QED BY <1>3, <1>6

\* A document that was dumped is one that can be read: its version, its shape, and the
\* encoding of its buffers are right.
LEMMA DumpedReadable ==
  ASSUME NEW entries, Dumpable(entries)
  PROVE  /\ DumpDocument(entries) = Document([i \in DOMAIN entries |-> DumpModel(entries[i])])
         /\ Readable(DumpDocument(entries))
<1> DEFINE records == [i \in DOMAIN entries |-> DumpModel(entries[i])]
<1>1. DumpDocument(entries) = Document(records)
  BY DEF DumpDocument, Dumpable
<1>2. Document(records).major = 2 /\ Document(records).shape = "mapping"
      /\ Document(records).records = records
  BY DEF Document
<1>3. \A i \in DOMAIN records : \A k \in DOMAIN records[i].buffers :
        records[i].buffers[k].encoding = "base64"
  BY DEF DumpModel, Encode
<1> QED BY <1>1, <1>2, <1>3 DEF Readable

\* load_document of what dump_document makes of any entries gives their ids in their
\* order, and their states, of which the binaries are bytes.
THEOREM RoundTrip ==
  ASSUME NEW entries, Dumpable(entries)
  PROVE  LoadDocument(DumpDocument(entries)) = AsRead(entries)
<1> DEFINE doc == DumpDocument(entries)
<1>1. Readable(doc) /\ doc = Document([i \in DOMAIN entries |-> DumpModel(entries[i])])
  BY DumpedReadable
<1>2. doc.records = [i \in DOMAIN entries |-> DumpModel(entries[i])]
  BY <1>1 DEF Document
<1>3. LoadDocument(doc) = [i \in DOMAIN entries |-> LoadModel(DumpModel(entries[i]))]
  BY <1>1, <1>2 DEF LoadDocument
<1>4. \A i \in DOMAIN entries : IsState(entries[i].state)
  BY DEF Dumpable
<1>5. \A i \in DOMAIN entries :
        LoadModel(DumpModel(entries[i])) = Entry(entries[i].id, Flat(entries[i].state))
  BY <1>4, LoadDumped
<1> QED BY <1>3, <1>5 DEF AsRead, Id
----------------------------------------------------------------------------
\* The record of a model is the same, whether it is made of the state or of what is
\* read of it.
LEMMA DumpFlat ==
  ASSUME NEW e, IsState(e.state), Binaries(e.state) \cap ModelFields = {}
  PROVE  DumpModel(Entry(e.id, Flat(e.state))) = DumpModel(e)
<1> DEFINE s == e.state
           B == Binaries(s)
           t == Flat(s)
<1> DEFINE K == DOMAIN s
<1>1. s = [k \in K |-> s[k]]
  BY DEF IsState
<1>2. t = [k \in K |-> IF Is("bin", s[k]) THEN Bin(s[k].bin, "bytes") ELSE s[k]]
  BY <1>1 DEF Flat
<1>3. \A k \in K : k \in B <=> Is("bin", s[k])
  BY <1>1 DEF Binaries
<1>4. \A k \in K \ B : t[k] = s[k]
  BY <1>2, <1>3
<1>5. \A k \in B : t[k] = Bin(s[k].bin, "bytes") /\ k \in K
  BY <1>1, <1>2, <1>3 DEF Binaries
<1>6. \A k \in B : Is("bin", t[k]) /\ t[k].bin = s[k].bin
  <2>1. \A data : Is("bin", Bin(data, "bytes")) /\ Bin(data, "bytes").bin = data
    BY DEF Is, Bin
  <2> QED BY <1>5, <2>1
<1>7. Binaries(t) = B
  BY <1>1, <1>2, <1>3, <1>4, <1>6 DEF Binaries
<1>8. Without(t, B) = Without(s, B)
  BY <1>1, <1>2, <1>4 DEF Without
<1>9. [k \in B |-> Encode(t[k])] = [k \in B |-> Encode(s[k])]
  BY <1>6 DEF Encode
<1>10. [f \in ModelFields |-> IF f \in DOMAIN t THEN t[f] ELSE AnyModel[f]]
         = [f \in ModelFields |-> IF f \in DOMAIN s THEN s[f] ELSE AnyModel[f]]
  BY <1>1, <1>2, <1>4
<1>11. Entry(e.id, t).id = e.id /\ Entry(e.id, t).state = t
  BY DEF Entry
<1> QED BY <1>7, <1>8, <1>9, <1>10, <1>11 DEF DumpModel

\* What was read of a document is dumped to the same document again: nothing is lost
\* and nothing added however often it is loaded and saved.
THEOREM DumpIsStable ==
  ASSUME NEW entries, Dumpable(entries), Identified(entries)
  PROVE  DumpDocument(LoadDocument(DumpDocument(entries))) = DumpDocument(entries)
<1> DEFINE read == AsRead(entries)
<1>1. LoadDocument(DumpDocument(entries)) = read
  BY RoundTrip
<1>2. /\ DOMAIN read = DOMAIN entries
      /\ \A i \in DOMAIN entries : read[i] = Entry(entries[i].id, Flat(entries[i].state))
  BY DEF AsRead, Id
<1>3. \A i \in DOMAIN entries : Id(read[i]) = Id(entries[i])
  BY <1>2 DEF Entry, Id
<1>4. Distinct(read) /\ \A i \in DOMAIN read : Id(read[i]) # << >>
  BY <1>2, <1>3 DEF Dumpable, Distinct, IsInjective
<1>5. \A i \in DOMAIN entries : IsState(entries[i].state)
  BY DEF Dumpable
<1>6. \A i \in DOMAIN entries : DumpModel(read[i]) = DumpModel(entries[i])
  BY <1>2, <1>5, DumpFlat DEF Identified
<1>7. [i \in DOMAIN read |-> DumpModel(read[i])] = [i \in DOMAIN entries |-> DumpModel(entries[i])]
  BY <1>2, <1>6
<1> QED BY <1>1, <1>4, <1>7 DEF DumpDocument, Dumpable
-----------------------------------------------------------------------------
\* A record that was loaded can be dumped and gives itself.
LEMMA LoadedIsFormed ==
  ASSUME NEW e, Formed(e)
  PROVE  /\ Formed(LoadModel(DumpModel(e)))
         /\ DumpModel(LoadModel(DumpModel(e))) = DumpModel(e)
<1> DEFINE t == Flat(e.state)
           B == Binaries(e.state)
<1>1. IsState(e.state) /\ B \cap ModelFields = {}
  BY DEF Formed
<1>2. LoadModel(DumpModel(e)) = Entry(e.id, t)
  BY <1>1, LoadDumped
<1>3. DumpModel(Entry(e.id, t)) = DumpModel(e)
  BY <1>1, DumpFlat
<1>4. DOMAIN t = DOMAIN e.state
      /\ \A k \in DOMAIN t : t[k] = IF k \in B THEN Bin(e.state[k].bin, "bytes") ELSE e.state[k]
  BY DEF Flat, Binaries
<1>5. IsState(t)
  BY DEF IsState, Flat
<1>6. \A k \in DOMAIN t : Is("bin", t[k]) => k \in B
  BY <1>4 DEF Binaries
<1>7. Binaries(t) \cap ModelFields = {}
  BY <1>1, <1>6 DEF Binaries
<1>8. Entry(e.id, t).id = e.id /\ Entry(e.id, t).state = t
  BY DEF Entry
<1>9. Classed(t)
  <2>1. Classed(e.state)
    BY DEF Formed
  <2>2. "_model_name" \notin B /\ "_model_module_version" \notin B
    BY <1>1 DEF ModelFields
  <2>3. "_view_module" \in DOMAIN e.state /\ e.state["_view_module"] = Text("controls")
          => "_view_module" \notin B
    BY DEF Binaries, Is, Text
  <2> HIDE DEF B, t
  <2> QED BY <1>4, <2>1, <2>2, <2>3 DEF Classed
<1> QED BY <1>2, <1>3, <1>5, <1>7, <1>8, <1>9 DEF Formed
-----------------------------------------------------------------------------
(***************************************************************************)
(* Lists of entries, and the controls.                                     *)
(***************************************************************************)
IdsOf(entries) == {Id(entries[i]) : i \in DOMAIN entries}

\* What holds of the entries of two lists holds of those of the list of both.
LEMMA ConcatIn ==
  ASSUME NEW S, NEW s \in Seq(S), NEW t \in Seq(S)
  PROVE  /\ s \o t \in Seq(S)
         /\ ToSet(s \o t) = ToSet(s) \cup ToSet(t)
         /\ IdsOf(s \o t) = IdsOf(s) \cup IdsOf(t)
<1> DEFINE l == s \o t
           n == Len(s)
           p == Len(t)
<1>1. /\ n \in Nat /\ p \in Nat /\ DOMAIN s = 1 .. n /\ DOMAIN t = 1 .. p
      /\ l \in Seq(S) /\ DOMAIN l = 1 .. n + p
      /\ \A i \in 1 .. n : l[i] = s[i]
      /\ \A i \in n + 1 .. n + p : l[i] = t[i - n]
  OBVIOUS
<1> HIDE DEF l, n, p
<1>2. \A i \in 1 .. n + p :
        \/ i \in DOMAIN s /\ l[i] = s[i]
        \/ i - n \in DOMAIN t /\ l[i] = t[i - n]
  BY <1>1
<1>3. /\ \A i \in DOMAIN s : i \in DOMAIN l /\ l[i] = s[i]
      /\ \A i \in DOMAIN t : i + n \in DOMAIN l /\ l[i + n] = t[i]
  BY <1>1
<1>4. ToSet(l) = ToSet(s) \cup ToSet(t)
  <2>1. \A x \in ToSet(l) : x \in ToSet(s) \cup ToSet(t)
    BY <1>1, <1>2 DEF ToSet
  <2>2. \A x \in ToSet(s) : x \in ToSet(l)
    BY <1>3 DEF ToSet
  <2>3. \A x \in ToSet(t) : x \in ToSet(l)
    BY <1>3 DEF ToSet
  <2> QED BY <2>1, <2>2, <2>3
<1>5. IdsOf(l) = IdsOf(s) \cup IdsOf(t)
  <2>1. \A x \in IdsOf(l) : x \in IdsOf(s) \cup IdsOf(t)
    BY <1>1, <1>2 DEF IdsOf
  <2>2. \A x \in IdsOf(s) : x \in IdsOf(l)
    BY <1>3 DEF IdsOf
  <2>3. \A x \in IdsOf(t) : x \in IdsOf(l)
    BY <1>3 DEF IdsOf
  <2> QED BY <2>1, <2>2, <2>3
<1> QED BY <1>1, <1>4, <1>5 DEF l

IsList(s) == s \in Seq(ToSet(s))

LEMMA InOneSet ==
  ASSUME NEW s, NEW t, IsList(s), IsList(t)
  PROVE  s \in Seq(ToSet(s) \cup ToSet(t)) /\ t \in Seq(ToSet(s) \cup ToSet(t))
  BY DEF IsList

LEMMA Concatenated ==
  ASSUME NEW s, NEW t, IsList(s), IsList(t)
  PROVE  /\ IsList(s \o t)
         /\ ToSet(s \o t) = ToSet(s) \cup ToSet(t)
         /\ IdsOf(s \o t) = IdsOf(s) \cup IdsOf(t)
<1> DEFINE S == ToSet(s) \cup ToSet(t)
<1>1. s \in Seq(S) /\ t \in Seq(S)
  BY InOneSet
<1>2. /\ s \o t \in Seq(S)
      /\ ToSet(s \o t) = ToSet(s) \cup ToSet(t)
      /\ IdsOf(s \o t) = IdsOf(s) \cup IdsOf(t)
  BY <1>1, ConcatIn
<1> QED BY <1>2 DEF IsList

\* ... and their ids are distinct if each has distinct ids and they share none.
LEMMA DistinctIn ==
  ASSUME NEW S, NEW s \in Seq(S), NEW t \in Seq(S)
  PROVE  Distinct(s \o t) <=> Distinct(s) /\ Distinct(t) /\ IdsOf(s) \cap IdsOf(t) = {}
<1> DEFINE l == s \o t
           n == Len(s)
           p == Len(t)
<1>1. /\ n \in Nat /\ p \in Nat /\ DOMAIN s = 1 .. n /\ DOMAIN t = 1 .. p
      /\ DOMAIN l = 1 .. n + p
      /\ \A i \in 1 .. n : l[i] = s[i]
      /\ \A i \in 1 .. p : l[i + n] = t[i]
  OBVIOUS
<1> HIDE DEF l, n, p
<1>2. \A q : Distinct(q) <=> \A i, j \in DOMAIN q : Id(q[i]) = Id(q[j]) => i = j
  BY DEF Distinct, IsInjective
<1>3. ASSUME Distinct(l) PROVE Distinct(s) /\ Distinct(t) /\ IdsOf(s) \cap IdsOf(t) = {}
  <2>1. \A i, j \in 1 .. n + p : Id(l[i]) = Id(l[j]) => i = j
    BY <1>1, <1>2, <1>3
  <2>2. \A i, j \in 1 .. n : Id(s[i]) = Id(s[j]) => i = j
    BY <1>1, <2>1
  <2>3. \A i, j \in 1 .. p : Id(t[i]) = Id(t[j]) => i = j
    <3> SUFFICES ASSUME NEW i \in 1 .. p, NEW j \in 1 .. p, Id(t[i]) = Id(t[j]) PROVE i = j
      OBVIOUS
    <3>1. i + n \in 1 .. n + p /\ j + n \in 1 .. n + p
      BY <1>1
    <3>2. i + n = j + n
      BY <1>1, <2>1, <3>1
    <3> QED BY <1>1, <3>2
  <2>4. \A i \in 1 .. n, j \in 1 .. p : Id(s[i]) # Id(t[j])
    <3> SUFFICES ASSUME NEW i \in 1 .. n, NEW j \in 1 .. p, Id(s[i]) = Id(t[j]) PROVE FALSE
      OBVIOUS
    <3>1. i \in 1 .. n + p /\ j + n \in 1 .. n + p
      BY <1>1
    <3>2. i = j + n
      BY <1>1, <2>1, <3>1
    <3> QED BY <1>1, <3>2
  <2> QED BY <1>1, <1>2, <2>2, <2>3, <2>4 DEF IdsOf
<1>4. ASSUME Distinct(s), Distinct(t), IdsOf(s) \cap IdsOf(t) = {} PROVE Distinct(l)
  <2>1. \A i, j \in 1 .. n : Id(s[i]) = Id(s[j]) => i = j
    BY <1>1, <1>2, <1>4
  <2>2. \A i, j \in 1 .. p : Id(t[i]) = Id(t[j]) => i = j
    BY <1>1, <1>2, <1>4
  <2>3. \A i \in 1 .. n, j \in 1 .. p : Id(s[i]) # Id(t[j])
    BY <1>1, <1>4 DEF IdsOf
  <2>4. \A i \in 1 .. n + p : i \in 1 .. n \/ (i - n \in 1 .. p /\ l[i] = t[i - n])
    <3> TAKE i \in 1 .. n + p
    <3>1. CASE i <= n
      BY <1>1, <3>1
    <3>2. CASE i > n
      <4>1. i - n \in 1 .. p /\ (i - n) + n = i
        BY <1>1, <3>2
      <4> QED BY <1>1, <4>1
    <3> QED BY <1>1, <3>1, <3>2
  <2>5. ASSUME NEW i \in 1 .. n + p, NEW j \in 1 .. n + p, Id(l[i]) = Id(l[j]) PROVE i = j
    <3>1. CASE i \in 1 .. n /\ j \in 1 .. n
      BY <1>1, <2>1, <2>5, <3>1
    <3>2. CASE i \notin 1 .. n /\ j \notin 1 .. n
      <4>1. i - n \in 1 .. p /\ j - n \in 1 .. p /\ Id(t[i - n]) = Id(t[j - n])
        BY <2>4, <2>5, <3>2
      <4>2. i - n = j - n
        BY <2>2, <4>1
      <4> QED BY <1>1, <4>2
    <3>3. CASE i \in 1 .. n /\ j \notin 1 .. n
      BY <1>1, <2>3, <2>4, <2>5, <3>3
    <3>4. CASE i \notin 1 .. n /\ j \in 1 .. n
      BY <1>1, <2>3, <2>4, <2>5, <3>4
    <3> QED BY <3>1, <3>2, <3>3, <3>4
  <2> QED BY <1>1, <1>2, <2>5
<1> QED BY <1>3, <1>4 DEF l

LEMMA FirstOf ==
  ASSUME NEW S, NEW s \in Seq(S), NEW t \in Seq(S), s # << >>
  PROVE  s \o t # << >> /\ (s \o t)[1] = s[1]
<1>1. Len(s) \in Nat /\ Len(s) > 0 /\ Len(t) \in Nat
  OBVIOUS
<1>2. Len(s \o t) = Len(s) + Len(t) /\ s \o t \in Seq(S)
  OBVIOUS
<1>3. Len(s \o t) > 0
  BY <1>1, <1>2
<1>4. 1 \in 1 .. Len(s)
  BY <1>1
<1>5. (s \o t)[1] = s[1]
  BY <1>1, <1>4
<1>6. Len(<< >>) = 0
  OBVIOUS
<1> QED BY <1>3, <1>5, <1>6

LEMMA DistinctConcat ==
  ASSUME NEW s, NEW t, IsList(s), IsList(t)
  PROVE  Distinct(s \o t) <=> Distinct(s) /\ Distinct(t) /\ IdsOf(s) \cap IdsOf(t) = {}
<1> DEFINE S == ToSet(s) \cup ToSet(t)
<1>1. s \in Seq(S) /\ t \in Seq(S)
  BY InOneSet
<1> HIDE DEF S
<1> QED BY <1>1, DistinctIn

LEMMA OneAndTwo ==
  ASSUME NEW a, NEW b, NEW c
  PROVE  <<a>> \o <<b, c>> = <<a, b, c>>
<1> DEFINE S == {a, b, c}
           l == <<a>> \o <<b, c>>
<1>1. a \in S /\ b \in S /\ c \in S
  OBVIOUS
<1> HIDE DEF S
<1>2. l \in Seq(S) /\ Len(l) = 3 /\ l[1] = a /\ l[2] = b /\ l[3] = c
  BY <1>1
<1> HIDE DEF l
<1>3. DOMAIN l = 1 .. 3 /\ l = [i \in 1 .. 3 |-> l[i]]
  BY <1>2
<1>4. \A i \in 1 .. 3 : l[i] = <<a, b, c>>[i]
  BY <1>2
<1>5. l = <<a, b, c>>
  BY <1>3, <1>4
<1> QED BY <1>5 DEF l

LEMMA OneAndOne ==
  ASSUME NEW a, NEW b
  PROVE  <<a>> \o <<b>> = <<a, b>>
<1> DEFINE S == {a, b}
           l == <<a>> \o <<b>>
<1>1. a \in S /\ b \in S
  OBVIOUS
<1> HIDE DEF S
<1>2. l \in Seq(S) /\ Len(l) = 2 /\ l[1] = a /\ l[2] = b
  BY <1>1
<1> HIDE DEF l
<1>3. DOMAIN l = 1 .. 2 /\ l = [i \in 1 .. 2 |-> l[i]]
  BY <1>2
<1>4. \A i \in 1 .. 2 : l[i] = <<a, b>>[i]
  BY <1>2
<1>5. l = <<a, b>>
  BY <1>3, <1>4
<1> QED BY <1>5 DEF l

ControlState(kind, root, overrides) ==
  Merge(Merge(Identity(kind), [style |-> Ref(MintId(root, "style")),
                               layout |-> Ref(MintId(root, "layout"))]), overrides)

LEMMA ControlBuilt ==
  ASSUME NEW kind \in {"int_slider", "dropdown"}, NEW root, NEW overrides
  PROVE  Build(kind, root, overrides) =
           <<Entry(root, ControlState(kind, root, overrides)),
             Entry(MintId(root, "style"), Identity("style")),
             Entry(MintId(root, "layout"), Identity("layout"))>>
<1> DEFINE roles == <<"style", "layout">>
<1>1. Companions(kind) = roles
  BY DEF Companions
<1>2. ToSet(roles) = {"style", "layout"} /\ DOMAIN roles = {1, 2}
      /\ roles[1] = "style" /\ roles[2] = "layout"
  BY DEF ToSet
<1>3. [role \in ToSet(roles) |-> Ref(MintId(root, role))]
        = [style |-> Ref(MintId(root, "style")), layout |-> Ref(MintId(root, "layout"))]
  BY <1>2
<1>4. [i \in DOMAIN roles |-> Entry(MintId(root, roles[i]), Identity(roles[i]))]
        = <<Entry(MintId(root, "style"), Identity("style")),
            Entry(MintId(root, "layout"), Identity("layout"))>>
  BY <1>2
<1> HIDE DEF roles
<1> QED BY <1>1, <1>3, <1>4, OneAndTwo DEF Build, ControlState

BoxState(kind, root, overrides) ==
  Merge(Merge(Identity(kind), [layout |-> Ref(MintId(root, "layout"))]), overrides)

LEMMA BoxBuilt ==
  ASSUME NEW kind \in {"vbox", "hbox"}, NEW root, NEW overrides
  PROVE  Build(kind, root, overrides) =
           <<Entry(root, BoxState(kind, root, overrides)),
             Entry(MintId(root, "layout"), Identity("layout"))>>
<1> DEFINE roles == <<"layout">>
<1>1. Companions(kind) = roles
  BY DEF Companions
<1>2. ToSet(roles) = {"layout"} /\ DOMAIN roles = {1} /\ roles[1] = "layout"
  BY DEF ToSet
<1>3. [role \in ToSet(roles) |-> Ref(MintId(root, role))] = [layout |-> Ref(MintId(root, "layout"))]
  BY <1>2
<1>4. [i \in DOMAIN roles |-> Entry(MintId(root, roles[i]), Identity(roles[i]))]
        = <<Entry(MintId(root, "layout"), Identity("layout"))>>
  BY <1>2
<1> HIDE DEF roles
<1> QED BY <1>1, <1>3, <1>4, OneAndOne DEF Build, BoxState
-----------------------------------------------------------------------------
(***************************************************************************)
(* References.                                                             *)
(***************************************************************************)
\* A value that refers to members of R only, itself or in a list.
Bounded(v, R) ==
  /\ Is("ref", v) => v.ref \in R
  /\ Is("list", v) => \A x \in ToSet(v.list) : ~Is("list", x) /\ (Is("ref", x) => x.ref \in R)

LEMMA RefsBounded ==
  ASSUME NEW state, NEW R, \A k \in DOMAIN state : Bounded(state[k], R)
  PROVE  References(state) \subseteq R
<1> DEFINE V == {state[k] : k \in DOMAIN state}
<1>1. \A v \in V : Bounded(v, R)
  OBVIOUS
<1>2. References(state) = {v.ref : v \in {w \in Nested(Nested(V)) : Is("ref", w)}}
  BY DEF References
<1> HIDE DEF V
<1>3. \A x \in Nested(V) : x \in V \/ (~Is("list", x) /\ (Is("ref", x) => x.ref \in R))
  BY <1>1 DEF Nested, Items, Bounded
<1>4. \A x \in Nested(Nested(V)) : x \in Nested(V) \/ \E y \in Nested(V) : x \in Items(y)
  <2>1. Nested(Nested(V)) = Nested(V) \cup UNION {Items(v) : v \in Nested(V)}
    BY DEF Nested
  <2> QED BY <2>1
<1>5. \A x \in Nested(Nested(V)) : Is("ref", x) => x.ref \in R
  <2> SUFFICES ASSUME NEW x \in Nested(Nested(V)), Is("ref", x) PROVE x.ref \in R
    OBVIOUS
  <2>1. CASE x \in Nested(V)
    BY <1>1, <1>3, <2>1 DEF Bounded
  <2>2. ASSUME NEW y \in Nested(V), x \in Items(y) PROVE x.ref \in R
    <3>1. Is("list", y) /\ x \in ToSet(y.list)
      BY <2>2 DEF Items
    <3>2. y \in V
      BY <1>3, <3>1
    <3> QED BY <1>1, <3>1, <3>2 DEF Bounded
  <2> QED BY <1>4, <2>1, <2>2
<1> QED BY <1>2, <1>5

\* What s has besides what t has refers to nothing, as a binary does.
Over(s, t) ==
  \A k \in DOMAIN s :
    \/ k \in DOMAIN t /\ s[k] = t[k]
    \/ ~Is("list", s[k]) /\ ~Is("ref", s[k])

LEMMA RefsOver ==
  ASSUME NEW s, NEW t, Over(s, t)
  PROVE  References(s) \subseteq References(t)
<1> DEFINE V == {s[k] : k \in DOMAIN s}
           W == {t[k] : k \in DOMAIN t}
<1>1. \A v \in V : v \in W \/ (~Is("list", v) /\ ~Is("ref", v))
  BY DEF Over
<1>2. /\ References(s) = {v.ref : v \in {w \in Nested(Nested(V)) : Is("ref", w)}}
      /\ References(t) = {v.ref : v \in {w \in Nested(Nested(W)) : Is("ref", w)}}
  BY DEF References
<1> HIDE DEF V, W
<1>3. \A v \in Nested(V) : v \in Nested(W) \/ (~Is("list", v) /\ ~Is("ref", v))
  BY <1>1 DEF Nested, Items
<1>4. \A v \in Nested(Nested(V)) : v \in Nested(Nested(W)) \/ (~Is("list", v) /\ ~Is("ref", v))
  <2> DEFINE P == Nested(V)
             Q == Nested(W)
  <2>1. \A v \in P : v \in Q \/ (~Is("list", v) /\ ~Is("ref", v))
    BY <1>3
  <2> HIDE DEF P, Q
  <2>2. \A v \in Nested(P) : v \in Nested(Q) \/ (~Is("list", v) /\ ~Is("ref", v))
    BY <2>1 DEF Nested, Items
  <2> QED BY <2>2 DEF P, Q
<1> QED BY <1>2, <1>4

LEMMA Plains ==
  /\ \A x : Plain(Text(x)) /\ Plain(Num(x)) /\ Plain(Json(x))
  /\ Plain(None)
  /\ \A x : Is("ref", Ref(x)) /\ Ref(x).ref = x /\ ~Is("bin", Ref(x)) /\ ~Is("list", Ref(x))
  /\ \A x : Is("list", List(x)) /\ List(x).list = x /\ ~Is("bin", List(x)) /\ ~Is("ref", List(x))
  /\ \A x, y : Is("bin", Bin(x, y)) /\ ~Is("list", Bin(x, y)) /\ ~Is("ref", Bin(x, y))
  BY DEF Plain, Is, Text, Num, Json, None, Ref, List, Bin

LEMMA MergedOver ==
  ASSUME NEW s, NEW t
  PROVE  /\ IsState(Merge(s, t)) /\ DOMAIN Merge(s, t) = DOMAIN s \cup DOMAIN t
         /\ \A k \in DOMAIN t : Merge(s, t)[k] = t[k]
         /\ \A k \in DOMAIN s \ DOMAIN t : Merge(s, t)[k] = s[k]
  BY DEF Merge, IsState

LEMMA IdentityPlain ==
  ASSUME NEW name
  PROVE  /\ IsState(Identity(name)) /\ \A k \in DOMAIN Identity(name) : Plain(Identity(name)[k])
         /\ ModelFields \subseteq DOMAIN Identity(name)
  BY Plains DEF Identity, IsState, ModelFields

\* What a control's state consists of.
LEMMA ControlParts ==
  ASSUME NEW kind, NEW root, NEW overrides, NEW k \in DOMAIN ControlState(kind, root, overrides)
  PROVE  \/ k \in DOMAIN overrides /\ ControlState(kind, root, overrides)[k] = overrides[k]
         \/ Plain(ControlState(kind, root, overrides)[k])
         \/ ControlState(kind, root, overrides)[k] \in {Ref(MintId(root, "style")), Ref(MintId(root, "layout"))}
<1> DEFINE refs == [style |-> Ref(MintId(root, "style")), layout |-> Ref(MintId(root, "layout"))]
           under == Merge(Identity(kind), refs)
           st == Merge(under, overrides)
<1>1. ControlState(kind, root, overrides) = st
  BY DEF ControlState
<1>2. \A j \in DOMAIN refs : refs[j] \in {Ref(MintId(root, "style")), Ref(MintId(root, "layout"))}
  OBVIOUS
<1> HIDE DEF refs
<1>3. DOMAIN under = DOMAIN Identity(kind) \cup DOMAIN refs
      /\ (\A j \in DOMAIN refs : under[j] = refs[j])
      /\ (\A j \in DOMAIN Identity(kind) \ DOMAIN refs : under[j] = Identity(kind)[j])
  BY MergedOver
<1> HIDE DEF under
<1>4. DOMAIN st = DOMAIN under \cup DOMAIN overrides
      /\ (\A j \in DOMAIN overrides : st[j] = overrides[j])
      /\ (\A j \in DOMAIN under \ DOMAIN overrides : st[j] = under[j])
  BY MergedOver
<1> HIDE DEF st
<1>5. k \in DOMAIN st
  BY <1>1
<1>6. \A j \in DOMAIN Identity(kind) : Plain(Identity(kind)[j])
  BY IdentityPlain
<1>7. CASE k \in DOMAIN overrides
  BY <1>1, <1>4, <1>7
<1>8. CASE k \notin DOMAIN overrides /\ k \in DOMAIN refs
  BY <1>1, <1>2, <1>3, <1>4, <1>5, <1>8
<1>9. CASE k \notin DOMAIN overrides /\ k \notin DOMAIN refs
  BY <1>1, <1>3, <1>4, <1>5, <1>6, <1>9
<1> QED BY <1>7, <1>8, <1>9

\* A control is one whatever it is given besides its identity.
LEMMA ClassedOver ==
  ASSUME NEW s, NEW t, Classed(s), DOMAIN t \cap Named = {}
  PROVE  Classed(Merge(s, t))
<1> DEFINE m == Merge(s, t)
<1>1. /\ DOMAIN m = DOMAIN s \cup DOMAIN t
      /\ \A k \in DOMAIN s \ DOMAIN t : m[k] = s[k]
  BY MergedOver
<1>2. "_model_name" \notin DOMAIN t /\ "_model_module_version" \notin DOMAIN t /\ "_view_module" \notin DOMAIN t
  BY DEF Named
<1> HIDE DEF m
<1>3. Classed(m)
  BY <1>1, <1>2 DEF Classed
<1> QED BY <1>3 DEF m

LEMMA IdentityClassed ==
  ASSUME NEW name, name # "AnyModel"
  PROVE  Classed(Identity(name))
<1>1. Text(name) # Text("AnyModel")
  BY DEF Text
<1>2. /\ "_model_name" \in DOMAIN Identity(name) /\ Identity(name)["_model_name"] = Text(name)
      /\ "_view_module" \in DOMAIN Identity(name) /\ Identity(name)["_view_module"] = Text("controls")
      /\ Identity(name)["_model_module_version"] = Text("2.0.0")
  BY DEF Identity
<1> QED BY <1>1, <1>2, Plains DEF Classed

LEMMA EntryFormed ==
  ASSUME NEW id, NEW state, IsState(state), \A k \in DOMAIN state : ~Is("bin", state[k]),
         Classed(state)
  PROVE  /\ Formed(Entry(id, state)) /\ Id(Entry(id, state)) = id
         /\ Entry(id, state).id = id /\ Entry(id, state).state = state
  BY DEF Formed, Entry, Id, Binaries

LEMMA IdentityRefers ==
  ASSUME NEW name
  PROVE  References(Identity(name)) = {}
<1>1. IsState(Identity(name)) /\ \A k \in DOMAIN Identity(name) : Plain(Identity(name)[k])
  BY IdentityPlain
<1>2. \A k \in DOMAIN Identity(name) : Bounded(Identity(name)[k], {})
  BY <1>1 DEF Plain, Bounded
<1>3. References(Identity(name)) \subseteq {}
  BY <1>2, RefsBounded
<1> QED BY <1>3

LEMMA IdentityFormed ==
  ASSUME NEW id, NEW name, name # "AnyModel"
  PROVE  Formed(Entry(id, Identity(name)))
<1>1. IsState(Identity(name)) /\ \A k \in DOMAIN Identity(name) : Plain(Identity(name)[k])
  BY IdentityPlain
<1> QED BY <1>1, EntryFormed, IdentityClassed DEF Plain
-----------------------------------------------------------------------------
(***************************************************************************)
(* What a program may dump: well-formed entries, with the root of each, of *)
(* which none refers to an entry that is missing.                          *)
(***************************************************************************)
Closed(entries) == \A e \in ToSet(entries) : References(e.state) \subseteq IdsOf(entries)
Rooted(entries) == \A id \in IdsOf(entries) : id # << >> /\ <<id[1]>> \in IdsOf(entries)
Made(entries) ==
  /\ IsList(entries) /\ Rooted(entries) /\ Closed(entries)
  /\ \A e \in ToSet(entries) : Formed(e)
HeadsOf(entries) == {<<id[1]>> : id \in IdsOf(entries)}

LEMMA TwoLong ==
  ASSUME NEW a, NEW b
  PROVE  MintId(<<a>>, b) = <<a, b>>
<1> DEFINE S == {a, b}
           l == Append(<<a>>, b)
<1>1. a \in S /\ b \in S
  OBVIOUS
<1> HIDE DEF S
<1>2. l \in Seq(S) /\ Len(l) = 2 /\ l[1] = a /\ l[2] = b
  BY <1>1
<1> HIDE DEF l
<1>3. DOMAIN l = 1 .. 2 /\ l = [i \in 1 .. 2 |-> l[i]]
  BY <1>2
<1>4. \A i \in 1 .. 2 : l[i] = <<a, b>>[i]
  BY <1>2
<1>5. l = <<a, b>>
  BY <1>3, <1>4
<1> QED BY <1>5 DEF MintId, l

LEMMA ControlClassed ==
  ASSUME NEW kind, kind # "AnyModel", NEW root, NEW overrides, DOMAIN overrides \cap Named = {}
  PROVE  Classed(ControlState(kind, root, overrides))
<1> DEFINE refs == [style |-> Ref(MintId(root, "style")), layout |-> Ref(MintId(root, "layout"))]
<1>1. DOMAIN refs \cap Named = {}
  BY DEF Named
<1> HIDE DEF refs
<1>2. Classed(Merge(Identity(kind), refs))
  BY <1>1, ClassedOver, IdentityClassed
<1>3. Classed(Merge(Merge(Identity(kind), refs), overrides))
  BY <1>2, ClassedOver
<1> QED BY <1>3 DEF ControlState, refs

LEMMA BoxClassed ==
  ASSUME NEW kind, kind # "AnyModel", NEW root, NEW overrides, DOMAIN overrides \cap Named = {}
  PROVE  Classed(BoxState(kind, root, overrides))
<1> DEFINE refs == [layout |-> Ref(MintId(root, "layout"))]
<1>1. DOMAIN refs \cap Named = {}
  BY DEF Named
<1> HIDE DEF refs
<1>2. Classed(Merge(Identity(kind), refs))
  BY <1>1, ClassedOver, IdentityClassed
<1>3. Classed(Merge(Merge(Identity(kind), refs), overrides))
  BY <1>2, ClassedOver
<1> QED BY <1>3 DEF BoxState, refs

LEMMA ControlMade ==
  ASSUME NEW kind \in {"int_slider", "dropdown"}, NEW r, NEW overrides,
         \A k \in DOMAIN overrides : ~Is("bin", overrides[k]) /\ Bounded(overrides[k], {}),
         DOMAIN overrides \cap Named = {}
  PROVE  LET entries == Build(kind, <<r>>, overrides) IN
         /\ Made(entries) /\ Distinct(entries) /\ entries # << >> /\ Id(entries[1]) = <<r>>
         /\ IdsOf(entries) = {<<r>>, <<r, "style">>, <<r, "layout">>}
<1> DEFINE st == ControlState(kind, <<r>>, overrides)
           e1 == Entry(<<r>>, st)
           e2 == Entry(<<r, "style">>, Identity("style"))
           e3 == Entry(<<r, "layout">>, Identity("layout"))
           entries == <<e1, e2, e3>>
           ids == {<<r>>, <<r, "style">>, <<r, "layout">>}
<1>1. Build(kind, <<r>>, overrides) = entries
  BY ControlBuilt, TwoLong
<1>2. \A k \in DOMAIN st : ~Is("bin", st[k]) /\ Bounded(st[k], ids)
  <2> SUFFICES ASSUME NEW k \in DOMAIN st PROVE ~Is("bin", st[k]) /\ Bounded(st[k], ids)
    OBVIOUS
  <2>1. CASE k \in DOMAIN overrides /\ st[k] = overrides[k]
    BY <2>1 DEF Bounded
  <2>2. CASE Plain(st[k])
    BY <2>2 DEF Plain, Bounded
  <2>3. CASE st[k] \in {Ref(<<r, "style">>), Ref(<<r, "layout">>)}
    BY <2>3, Plains DEF Bounded
  <2> HIDE DEF st
  <2>4. \/ k \in DOMAIN overrides /\ st[k] = overrides[k]
        \/ Plain(st[k])
        \/ st[k] \in {Ref(MintId(<<r>>, "style")), Ref(MintId(<<r>>, "layout"))}
    BY ControlParts DEF st
  <2> QED BY <2>1, <2>2, <2>3, <2>4, TwoLong
<1>3. IsState(st) /\ Classed(st)
  <2>1. IsState(st)
    BY MergedOver DEF ControlState
  <2>2. kind # "AnyModel"
    OBVIOUS
  <2> HIDE DEF st
  <2>3. Classed(st)
    BY <2>2, ControlClassed DEF st
  <2> QED BY <2>1, <2>3
<1> HIDE DEF st
<1>4. References(st) \subseteq ids
  BY <1>2, RefsBounded
<1>5. Formed(e1) /\ Formed(e2) /\ Formed(e3)
  BY <1>2, <1>3, EntryFormed, IdentityFormed
<1>6. /\ e1.state = st /\ e2.state = Identity("style") /\ e3.state = Identity("layout")
      /\ Id(e1) = <<r>> /\ Id(e2) = <<r, "style">> /\ Id(e3) = <<r, "layout">>
  BY DEF Entry, Id
<1>7. References(e1.state) \subseteq ids /\ References(e2.state) \subseteq ids /\ References(e3.state) \subseteq ids
  BY <1>4, <1>6, IdentityRefers
<1> HIDE DEF e1, e2, e3
<1>8. /\ DOMAIN entries = 1 .. 3 /\ entries[1] = e1 /\ entries[2] = e2 /\ entries[3] = e3
      /\ ToSet(entries) = {e1, e2, e3} /\ entries # << >>
  BY DEF ToSet
<1>9. entries \in Seq({e1, e2, e3})
  OBVIOUS
<1> HIDE DEF entries
<1>10. IdsOf(entries) = ids
  BY <1>6, <1>8 DEF IdsOf
<1>11. Distinct(entries)
  <2>1. <<r>> # <<r, "style">> /\ <<r>> # <<r, "layout">> /\ <<r, "style">> # <<r, "layout">>
    OBVIOUS
  <2>2. \A i \in 1 .. 3 : i = 1 \/ i = 2 \/ i = 3
    OBVIOUS
  <2>3. \A i, j \in 1 .. 3 : Id(entries[i]) = Id(entries[j]) => i = j
    BY <1>6, <1>8, <2>1, <2>2
  <2> QED BY <1>8, <2>3 DEF Distinct, IsInjective
<1>12. Rooted(entries)
  BY <1>10 DEF Rooted
<1>13. Closed(entries)
  BY <1>7, <1>8, <1>10 DEF Closed
<1>14. Made(entries)
  BY <1>5, <1>8, <1>9, <1>12, <1>13 DEF Made, IsList
<1> QED BY <1>1, <1>6, <1>8, <1>10, <1>11, <1>14
LEMMA FlattenTwo ==
  ASSUME NEW x, NEW y
  PROVE  FlattenSeq(<<x, y>>) = x \o y
<1> DEFINE seqs == <<x, y>>
           P(f) == f = [i \in 1 .. Len(seqs) |-> IF i = 1 THEN seqs[i] ELSE f[i - 1] \o seqs[i]]
           g == [i \in 1 .. 2 |-> IF i = 1 THEN x ELSE x \o y]
           h == CHOOSE f : P(f)
<1>1. FlattenSeq(seqs) = h[Len(seqs)]
  BY DEF FlattenSeq
<1>2. Len(seqs) = 2 /\ seqs[1] = x /\ seqs[2] = y
  OBVIOUS
<1> HIDE DEF seqs
<1>3. g[1] = x /\ g[2] = x \o y /\ DOMAIN g = 1 .. 2 /\ g = [i \in 1 .. 2 |-> g[i]]
  OBVIOUS
<1>4. P(g)
  <2>1. \A i \in 1 .. 2 : g[i] = IF i = 1 THEN seqs[i] ELSE g[i - 1] \o seqs[i]
    BY <1>2, <1>3
  <2> QED BY <1>2, <2>1
<1>5. P(h)
  <2> HIDE DEF g, P
  <2> QED BY <1>4
<1>6. h = [i \in 1 .. 2 |-> IF i = 1 THEN seqs[i] ELSE h[i - 1] \o seqs[i]]
  BY <1>2, <1>5
<1> HIDE DEF h
<1>7. h[1] = x
  BY <1>2, <1>6
<1>8. h[2] = h[1] \o y
  <2>1. h[2] = IF 2 = 1 THEN seqs[2] ELSE h[2 - 1] \o seqs[2]
    <3>1. 2 \in 1 .. 2
      OBVIOUS
    <3> QED BY <1>6, <3>1, Zenon
  <2>2. 2 # 1 /\ 2 - 1 = 1
    OBVIOUS
  <2>3. h[2] = h[2 - 1] \o seqs[2]
    BY <2>1, <2>2, Zenon
  <2> QED BY <1>2, <2>2, <2>3, Zenon
<1>9. h[Len(seqs)] = x \o y
  BY <1>2, <1>7, <1>8
<1>10. FlattenSeq(seqs) = x \o y
  BY <1>1, <1>9
<1> QED BY <1>10 DEF seqs

LEMMA FlattenOne ==
  ASSUME NEW x
  PROVE  FlattenSeq(<<x>>) = x
<1> DEFINE seqs == <<x>>
           P(f) == f = [i \in 1 .. Len(seqs) |-> IF i = 1 THEN seqs[i] ELSE f[i - 1] \o seqs[i]]
           g == [i \in {1} |-> x]
           h == CHOOSE f : P(f)
<1>1. FlattenSeq(seqs) = h[Len(seqs)]
  BY DEF FlattenSeq
<1>2. Len(seqs) = 1 /\ seqs[1] = x /\ 1 .. Len(seqs) = {1}
  OBVIOUS
<1> HIDE DEF seqs
<1>3. P(g)
  BY <1>2
<1>4. P(h)
  <2> HIDE DEF g, P
  <2> QED BY <1>3
<1>5. h = [i \in {1} |-> IF i = 1 THEN seqs[i] ELSE h[i - 1] \o seqs[i]]
  BY <1>2, <1>4
<1> HIDE DEF h
<1>6. h[1] = x
  BY <1>2, <1>5
<1> QED BY <1>1, <1>2, <1>6 DEF seqs

LEMMA MadeConcat ==
  ASSUME NEW s, NEW t, Made(s), Made(t)
  PROVE  Made(s \o t)
<1>1. /\ IsList(s \o t) /\ ToSet(s \o t) = ToSet(s) \cup ToSet(t)
      /\ IdsOf(s \o t) = IdsOf(s) \cup IdsOf(t)
  BY Concatenated DEF Made
<1>2. Rooted(s \o t)
  BY <1>1 DEF Rooted, Made
<1>3. Closed(s \o t)
  BY <1>1 DEF Closed, Made
<1> QED BY <1>1, <1>2, <1>3 DEF Made

LEMMA BoxParts ==
  ASSUME NEW kind, NEW root, NEW overrides, NEW k \in DOMAIN BoxState(kind, root, overrides)
  PROVE  \/ k \in DOMAIN overrides /\ BoxState(kind, root, overrides)[k] = overrides[k]
         \/ Plain(BoxState(kind, root, overrides)[k])
         \/ BoxState(kind, root, overrides)[k] = Ref(MintId(root, "layout"))
<1> DEFINE refs == [layout |-> Ref(MintId(root, "layout"))]
           under == Merge(Identity(kind), refs)
           st == Merge(under, overrides)
<1>1. BoxState(kind, root, overrides) = st
  BY DEF BoxState
<1>2. \A j \in DOMAIN refs : refs[j] = Ref(MintId(root, "layout"))
  OBVIOUS
<1> HIDE DEF refs
<1>3. DOMAIN under = DOMAIN Identity(kind) \cup DOMAIN refs
      /\ (\A j \in DOMAIN refs : under[j] = refs[j])
      /\ (\A j \in DOMAIN Identity(kind) \ DOMAIN refs : under[j] = Identity(kind)[j])
  BY MergedOver
<1> HIDE DEF under
<1>4. DOMAIN st = DOMAIN under \cup DOMAIN overrides
      /\ (\A j \in DOMAIN overrides : st[j] = overrides[j])
      /\ (\A j \in DOMAIN under \ DOMAIN overrides : st[j] = under[j])
  BY MergedOver
<1> HIDE DEF st
<1>5. k \in DOMAIN st
  BY <1>1
<1>6. \A j \in DOMAIN Identity(kind) : Plain(Identity(kind)[j])
  BY IdentityPlain
<1>7. CASE k \in DOMAIN overrides
  BY <1>1, <1>4, <1>7
<1>8. CASE k \notin DOMAIN overrides /\ k \in DOMAIN refs
  BY <1>1, <1>2, <1>3, <1>4, <1>5, <1>8
<1>9. CASE k \notin DOMAIN overrides /\ k \notin DOMAIN refs
  BY <1>1, <1>3, <1>4, <1>5, <1>6, <1>9
<1> QED BY <1>7, <1>8, <1>9

\* A box, followed by what it holds.
LEMMA BoxMade ==
  ASSUME NEW kind \in {"vbox", "hbox"}, NEW r, NEW overrides, NEW rest, Made(rest),
         <<r>> \notin IdsOf(rest),
         \A k \in DOMAIN overrides : ~Is("bin", overrides[k]) /\ Bounded(overrides[k], IdsOf(rest)),
         DOMAIN overrides \cap Named = {}
  PROVE  LET entries == Build(kind, <<r>>, overrides) \o rest IN
         /\ Made(entries) /\ (Distinct(entries) <=> Distinct(rest))
         /\ entries # << >> /\ Id(entries[1]) = <<r>>
         /\ IdsOf(entries) = {<<r>>, <<r, "layout">>} \cup IdsOf(rest)
<1> DEFINE st == BoxState(kind, <<r>>, overrides)
           e1 == Entry(<<r>>, st)
           e2 == Entry(<<r, "layout">>, Identity("layout"))
           own == <<e1, e2>>
           entries == own \o rest
           ids == {<<r>>, <<r, "layout">>}
           all == ids \cup IdsOf(rest)
<1>1. Build(kind, <<r>>, overrides) = own
  BY BoxBuilt, TwoLong
<1>2. \A k \in DOMAIN st : ~Is("bin", st[k]) /\ Bounded(st[k], all)
  <2> SUFFICES ASSUME NEW k \in DOMAIN st PROVE ~Is("bin", st[k]) /\ Bounded(st[k], all)
    OBVIOUS
  <2>1. CASE k \in DOMAIN overrides /\ st[k] = overrides[k]
    BY <2>1 DEF Bounded
  <2>2. CASE Plain(st[k])
    BY <2>2 DEF Plain, Bounded
  <2>3. CASE st[k] = Ref(<<r, "layout">>)
    BY <2>3, Plains DEF Bounded
  <2> HIDE DEF st
  <2>4. \/ k \in DOMAIN overrides /\ st[k] = overrides[k]
        \/ Plain(st[k])
        \/ st[k] = Ref(MintId(<<r>>, "layout"))
    BY BoxParts DEF st
  <2> QED BY <2>1, <2>2, <2>3, <2>4, TwoLong
<1>3. IsState(st) /\ Classed(st)
  <2>1. IsState(st)
    BY MergedOver DEF BoxState
  <2>2. kind # "AnyModel"
    OBVIOUS
  <2> HIDE DEF st
  <2>3. Classed(st)
    BY <2>2, BoxClassed DEF st
  <2> QED BY <2>1, <2>3
<1> HIDE DEF st
<1>4. References(st) \subseteq all
  BY <1>2, RefsBounded
<1>5. Formed(e1) /\ Formed(e2)
  BY <1>2, <1>3, EntryFormed, IdentityFormed
<1>6. /\ e1.state = st /\ e2.state = Identity("layout")
      /\ Id(e1) = <<r>> /\ Id(e2) = <<r, "layout">>
  BY DEF Entry, Id
<1>7. References(e1.state) \subseteq all /\ References(e2.state) \subseteq all
  BY <1>4, <1>6, IdentityRefers
<1> HIDE DEF e1, e2
<1>8. /\ DOMAIN own = 1 .. 2 /\ own[1] = e1 /\ own[2] = e2 /\ Len(own) = 2
      /\ ToSet(own) = {e1, e2}
  BY DEF ToSet
<1>9. own \in Seq({e1, e2})
  OBVIOUS
<1> HIDE DEF own
<1>10. IdsOf(own) = ids
  BY <1>6, <1>8 DEF IdsOf
<1>11. Distinct(own)
  <2>1. <<r>> # <<r, "layout">>
    OBVIOUS
  <2>2. \A i \in 1 .. 2 : i = 1 \/ i = 2
    OBVIOUS
  <2>3. \A i, j \in 1 .. 2 : Id(own[i]) = Id(own[j]) => i = j
    BY <1>6, <1>8, <2>1, <2>2
  <2> QED BY <1>8, <2>3 DEF Distinct, IsInjective
<1>12. IsList(own) /\ IsList(rest)
  BY <1>8, <1>9 DEF IsList, Made
<1>13. /\ IsList(entries) /\ ToSet(entries) = {e1, e2} \cup ToSet(rest) /\ IdsOf(entries) = all
  BY <1>8, <1>10, <1>12, Concatenated
<1>14. ids \cap IdsOf(rest) = {}
  <2>1. <<r, "layout">>[1] = r
    OBVIOUS
  <2>2. <<r, "layout">> \notin IdsOf(rest)
    BY <2>1 DEF Made, Rooted
  <2> QED BY <2>2
<1>15. Distinct(entries) <=> Distinct(rest)
  BY <1>10, <1>11, <1>12, <1>14, DistinctConcat
<1>16. entries # << >> /\ Id(entries[1]) = <<r>>
  <2> DEFINE S == {e1, e2} \cup ToSet(rest)
  <2>1. own \in Seq(S) /\ rest \in Seq(S)
    BY <1>8, <1>9, <1>12 DEF IsList
  <2> HIDE DEF S
  <2>2. own # << >>
    BY DEF own
  <2>3. entries # << >> /\ entries[1] = own[1]
    BY <2>1, <2>2, FirstOf
  <2> QED BY <1>6, <1>8, <2>3
<1> HIDE DEF entries
<1>17. Rooted(entries)
  <2>1. \A id \in IdsOf(rest) : id # << >> /\ <<id[1]>> \in IdsOf(rest)
    BY DEF Made, Rooted
  <2>2. <<r>> # << >> /\ <<r, "layout">> # << >> /\ <<r>>[1] = r /\ <<r, "layout">>[1] = r
    OBVIOUS
  <2> QED BY <1>13, <2>1, <2>2 DEF Rooted
<1>18. Closed(entries)
  <2>1. \A e \in ToSet(rest) : References(e.state) \subseteq all
    BY DEF Made, Closed
  <2> QED BY <1>7, <1>13, <2>1 DEF Closed
<1>19. Made(entries)
  BY <1>5, <1>13, <1>17, <1>18 DEF Made
<1> QED BY <1>1, <1>13, <1>15, <1>16, <1>19 DEF entries
-----------------------------------------------------------------------------
(***************************************************************************)
(* Files: the records of a document, and the entries that are read of them.*)
(***************************************************************************)
Read(records) == [i \in DOMAIN records |-> LoadModel(records[i])]
Filed(records) ==
  /\ IsState(records)
  /\ Made(Read(records)) /\ Distinct(Read(records)) /\ Read(records) # << >>
  /\ \A i \in DOMAIN records : DumpModel(LoadModel(records[i])) = records[i]

Dumped(entries) == [i \in DOMAIN entries |-> DumpModel(entries[i])]

LEMMA MadeDumpable ==
  ASSUME NEW entries, Made(entries)
  PROVE  /\ DumpDocument(entries) = IF Distinct(entries) THEN Document(Dumped(entries)) ELSE Raised
         /\ \A i \in DOMAIN entries : entries[i] \in ToSet(entries) /\ Formed(entries[i])
         /\ Distinct(entries) => Dumpable(entries) /\ Identified(entries)
<1>1. \A i \in DOMAIN entries : entries[i] \in ToSet(entries) /\ Id(entries[i]) \in IdsOf(entries)
  BY DEF ToSet, IdsOf
<1>2. \A i \in DOMAIN entries : Id(entries[i]) # << >> /\ Formed(entries[i])
  BY <1>1 DEF Made, Rooted
<1>3. DumpDocument(entries) = IF Distinct(entries) THEN Document(Dumped(entries)) ELSE Raised
  BY <1>2 DEF DumpDocument, Dumped
<1> QED BY <1>1, <1>2, <1>3 DEF Dumpable, Identified, Formed

\* A document lacks nothing that its records refer to.
LEMMA NoDangling ==
  ASSUME NEW doc, doc.shape = "mapping", NEW ids, ids = {Id(r) : r \in ToSet(doc.records)},
         \A r \in ToSet(doc.records) : References(r.state) \subseteq ids
  PROVE  Dangling(doc) = << >>
<1> DEFINE missing(r) == References(r.state) \ ids
           R == {s \in ToSet(doc.records) : missing(s) # {}}
<1>1. Dangling(doc) = [r \in R |-> missing(r)]
  BY DEF Dangling, Records
<1>2. R = {}
  OBVIOUS
<1> HIDE DEF R, missing
<1>3. [r \in {} |-> missing(r)] = << >>
  OBVIOUS
<1> QED BY <1>1, <1>2, <1>3

LEMMA DumpFiled ==
  ASSUME NEW entries, Made(entries), Distinct(entries), entries # << >>
  PROVE  LET records == Dumped(entries) IN
         /\ DumpDocument(entries) = Document(records) /\ Filed(records)
         /\ IdsOf(Read(records)) = IdsOf(entries)
         /\ Dangling(Document(records)) = << >>
         /\ Document(records).records = records
         /\ LoadDocument(Document(records)) = AsRead(entries) /\ AsRead(entries) = Read(records)
<1> DEFINE records == Dumped(entries)
           read == Read(records)
           D == DOMAIN entries
<1>1. /\ DumpDocument(entries) = Document(records)
      /\ \A i \in D : entries[i] \in ToSet(entries) /\ Formed(entries[i])
      /\ Dumpable(entries)
  BY MadeDumpable
<1>2. /\ DOMAIN records = D /\ IsState(records) /\ \A i \in D : records[i] = DumpModel(entries[i])
  BY DEF Dumped, IsState
<1>3. /\ DOMAIN read = D /\ \A i \in D : read[i] = LoadModel(records[i])
  BY <1>2 DEF Read
<1>4. \A i \in D : /\ read[i] = Entry(entries[i].id, Flat(entries[i].state))
                   /\ Formed(read[i]) /\ DumpModel(read[i]) = records[i]
  BY <1>1, <1>2, <1>3, LoadDumped, LoadedIsFormed DEF Formed
<1>5. LoadDocument(Document(records)) = AsRead(entries)
  BY <1>1, RoundTrip
<1>6. AsRead(entries) = read
  BY <1>2, <1>4 DEF AsRead, Id, Read
<1>7. \A i \in D : Id(read[i]) = Id(entries[i]) /\ read[i].state = Flat(entries[i].state)
  <2>1. \A x, y : Entry(x, y).id = x /\ Entry(x, y).state = y
    BY DEF Entry
  <2> QED BY <1>4, <2>1 DEF Id
<1>8. IdsOf(read) = IdsOf(entries)
  BY <1>3, <1>7 DEF IdsOf
<1>9. D = 1 .. Len(entries) /\ Len(entries) \in Nat /\ Len(entries) # 0
  BY DEF Made, IsList
<1>10. IsList(read) /\ read # << >>
  <2>1. read = [i \in 1 .. Len(entries) |-> read[i]] /\ \A i \in 1 .. Len(entries) : read[i] \in ToSet(read)
    BY <1>2, <1>3, <1>9 DEF Read, ToSet
  <2> HIDE DEF read
  <2>2. read \in [1 .. Len(entries) -> ToSet(read)]
    BY <2>1
  <2>3. read \in Seq(ToSet(read))
    BY <1>9, <2>2
  <2>4. 1 \in DOMAIN read /\ 1 \notin DOMAIN << >>
    BY <1>3, <1>9
  <2> QED BY <2>3, <2>4 DEF IsList
<1>11. Distinct(read)
  BY <1>3, <1>7 DEF Distinct, IsInjective
<1>12. Rooted(read)
  BY <1>8 DEF Rooted, Made
<1>13. \A i \in D : /\ References(read[i].state) \subseteq IdsOf(entries)
                    /\ References(records[i].state) \subseteq IdsOf(entries)
  <2> SUFFICES ASSUME NEW i \in D
               PROVE  /\ References(read[i].state) \subseteq IdsOf(entries)
                      /\ References(records[i].state) \subseteq IdsOf(entries)
    OBVIOUS
  <2> DEFINE s == entries[i].state
             t == Flat(s)
             u == Without(s, Binaries(s))
  <2>1. References(s) \subseteq IdsOf(entries)
    BY <1>1 DEF Made, Closed
  <2>2. \A k \in DOMAIN t :
          \/ k \in DOMAIN s /\ t[k] = s[k]
          \/ ~Is("list", t[k]) /\ ~Is("ref", t[k])
    BY Plains DEF Flat
  <2>3. \A k \in DOMAIN u : k \in DOMAIN s /\ u[k] = s[k]
    BY DEF Without
  <2>4. records[i].state = u
    BY <1>2 DEF DumpModel
  <2> HIDE DEF t, u, s
  <2>5. Over(t, s) /\ Over(u, s)
    BY <2>2, <2>3 DEF Over
  <2>7. References(t) \subseteq References(s)
    BY <2>5, RefsOver
  <2>8. References(u) \subseteq References(s)
    BY <2>5, RefsOver
  <2>6. read[i].state = t
    BY <1>7 DEF s, t
  <2> QED BY <2>1, <2>4, <2>6, <2>7, <2>8
<1>14. Made(read)
  <2>1. Closed(read)
    BY <1>3, <1>8, <1>13 DEF Closed, ToSet
  <2>2. \A e \in ToSet(read) : Formed(e)
    BY <1>3, <1>4 DEF ToSet
  <2> QED BY <1>10, <1>12, <2>1, <2>2 DEF Made
<1>15. Filed(records)
  BY <1>2, <1>3, <1>4, <1>10, <1>11, <1>14 DEF Filed
<1>16. Dangling(Document(records)) = << >>
  <2>1. Document(records).records = records /\ Document(records).shape = "mapping"
    BY DEF Document
  <2>2. IdsOf(entries) = {Id(r) : r \in ToSet(records)}
    <3>1. \A i \in D : Id(records[i]) = Id(entries[i])
      BY <1>2 DEF DumpModel, Id
    <3> QED BY <1>2, <3>1 DEF IdsOf, ToSet
  <2>3. \A r \in ToSet(records) : References(r.state) \subseteq IdsOf(entries)
    BY <1>2, <1>13 DEF ToSet
  <2> QED BY <2>1, <2>2, <2>3, NoDangling
<1>17. Document(records).records = records
  BY DEF Document
<1> QED BY <1>1, <1>5, <1>6, <1>8, <1>15, <1>16, <1>17
-----------------------------------------------------------------------------
(***************************************************************************)
(* The inductive invariant: the live dashboard.                            *)
(***************************************************************************)
\* The widgets that calls of wire() may open, and those it has been called for.
Widgets == (Nat \ {0}) \X Ids
Called == (1 .. wires) \X Ids

\* Those that the program may close.
Closable == {w \in Widgets : w[2] \in {SummaryId, DownloadId}}

Showing(type, widgets, m) == Message(type, States(widgets, m))
Closing(widget) == Message("comm_close", [w \in {widget} |-> << >>])
PageMessages ==
  {Showing(type, widgets, m) :
     type \in {"comm_open", "update", "answer"}, widgets \in SUBSET Widgets, m \in Models}
  \cup {Closing(widget) : widget \in Closable}

Moving(widget, state) == Message("update", [w \in {widget} |-> state])
Asking(widgets) == Message("request_state", [w \in widgets |-> << >>])
HostMessages ==
  {Moving(<<c, SliderId>>, state) : c \in Nat \ {0}, state \in Moves(SliderId)}
  \cup {Moving(<<c, DropdownId>>, state) : c \in Nat \ {0}, state \in Moves(DropdownId)}
  \cup {Asking(widgets) : widgets \in SUBSET Widgets}

Shapes ==
  /\ model \in Models
  /\ wires \in Nat /\ wires <= events /\ events \in 0 .. MaxEvents
  /\ downloadAt \in 0 .. wires /\ cut \in BOOLEAN /\ resolvable \subseteq 1 .. wires
  /\ open \subseteq Called /\ DOMAIN page \subseteq Called
  /\ toPage \in Seq(PageMessages) /\ \A i \in DOMAIN toPage : DOMAIN toPage[i].states \subseteq Called
  /\ toHost \in Seq(HostMessages) /\ \A i \in DOMAIN toHost : DOMAIN toHost[i].states \subseteq Called

\* Every model of the page shows one Model, if not the present one.
Pages == \A w \in DOMAIN page : \E m \in Models : page[w] = GetState[w[2]][m]

Makes(n) == n.type \in {"comm_open", "answer"}

\* The companions that a call of wire() has opened stay open.
Companionship == \A c \in resolvable : \A id \in CompanionIds : <<c, id>> \in open

\* A message of the queue q that is about the widget w.
Carries(q, w) == \E i \in DOMAIN q : w \in DOMAIN q[i].states
MakesIn(q, w) == \E i \in DOMAIN q : Makes(q[i]) /\ w \in DOMAIN q[i].states
AsksIn(q, w) == \E i \in DOMAIN q : q[i].type = "request_state" /\ w \in DOMAIN q[i].states
ClosesIn(q, w) == \E i \in DOMAIN q : q[i].type = "comm_close" /\ w \in DOMAIN q[i].states

\* What is open the page has a model for, or it will get it, or has asked for it.
Presence ==
  \A w \in open :
    /\ ~ClosesIn(toPage, w)
    /\ w \in DOMAIN page \/ MakesIn(toPage, w) \/ AsksIn(toHost, w)

\* The last message about w has this state.
Newest(q, w, state) ==
  \A i \in DOMAIN q :
    w \in DOMAIN q[i].states /\ (\A j \in DOMAIN q : j > i => w \notin DOMAIN q[j].states)
      => q[i].states[w] = state

Latest(w, state) ==
  /\ Newest(toPage, w, state)
  /\ ~Carries(toPage, w) /\ w \in DOMAIN page => page[w] = state

\* Of the summary and the button the page has the present Model's, or it is the last on
\* its way.
Currency ==
  LET summary == <<wires, SummaryId>>
      button == <<downloadAt, DownloadId>> IN
  /\ summary \in open => Latest(summary, GetSummaryState[model])
  /\ button \in open /\ ~cut => Latest(button, GetDownloadState[model])

LiveInv == Shapes /\ Pages /\ Companionship /\ Presence /\ Currency
-----------------------------------------------------------------------------
(***************************************************************************)
(* The inductive invariant: the session that has the file.                 *)
(***************************************************************************)
\* The uuids that have been drawn.
LiveHeads == {<<"slider">>, <<"dropdown">>}
Drawn(n) == LiveHeads \cup {<<Roots[i]>> : i \in 1 .. n}

TreeInv(t, n) ==
  /\ t = Tree(t.entries, t.parts, t.twice)
  /\ Made(t.entries) /\ t.entries # << >>
  /\ t.parts = HeadsOf(t.entries) /\ t.parts \subseteq Drawn(n)
  /\ t.twice \in BOOLEAN /\ (t.twice <=> ~Distinct(t.entries))

SessionOf(s) ==
  LET n == Len(s.trees) IN
  /\ s = [doc |-> s.doc, loaded |-> s.loaded, trees |-> s.trees]
  /\ s.doc = [major |-> s.doc.major, shape |-> s.doc.shape, records |-> s.doc.records]
  /\ Filed(s.doc.records) /\ HeadsOf(Read(s.doc.records)) \subseteq Drawn(n)
  /\ s.loaded # << >> =>
       Made(s.loaded) /\ Distinct(s.loaded) /\ HeadsOf(s.loaded) \subseteq Drawn(n)
  /\ IsList(s.trees) /\ n <= MaxTrees
  /\ \A i \in 1 .. n : TreeInv(s.trees[i], n)

FileInv == ~Alive => SessionOf(fresh)

DashInv == LiveInv /\ FileInv
-----------------------------------------------------------------------------
(***************************************************************************)
(* What the widgets show.                                                  *)
(***************************************************************************)
LEMMA ThreeTail ==
  ASSUME NEW a, NEW b, NEW c
  PROVE  Tail(<<a, b, c>>) = <<b, c>>
<1> DEFINE S == {a, b, c}
           q == <<a, b, c>>
           l == Tail(q)
<1>1. a \in S /\ b \in S /\ c \in S
  OBVIOUS
<1> HIDE DEF S
<1>2. q \in Seq(S) /\ Len(q) = 3 /\ q[2] = b /\ q[3] = c /\ q # << >>
  BY <1>1
<1> HIDE DEF q
<1>3. l \in Seq(S) /\ Len(l) = 2 /\ l[1] = b /\ l[2] = c
  BY <1>2
<1> HIDE DEF l
<1>4. DOMAIN l = 1 .. 2 /\ l = [i \in 1 .. 2 |-> l[i]]
  BY <1>3
<1>5. \A i \in 1 .. 2 : l[i] = <<b, c>>[i]
  BY <1>3
<1>6. l = <<b, c>>
  BY <1>4, <1>5
<1> QED BY <1>6 DEF l, q

SliderOverrides == [value |-> Num(Initial.value)]
DropdownOverrides ==
  [_options_labels |-> List([i \in DOMAIN Labels |-> Text(Labels[i])]),
   index |-> IF Initial.index # None THEN Initial.index ELSE IndexOf(Labels, "(none)")]
Companion(root, role) == Entry(<<root, role>>, Identity(role))

LEMMA ControlsBuilt ==
  /\ SliderEntries = <<Entry(SliderId, ControlState("int_slider", SliderId, SliderOverrides)),
                       Companion("slider", "style"), Companion("slider", "layout")>>
  /\ DropdownEntries = <<Entry(DropdownId, ControlState("dropdown", DropdownId, DropdownOverrides)),
                         Companion("dropdown", "style"), Companion("dropdown", "layout")>>
<1>1. SliderEntries = Build("int_slider", SliderId, SliderOverrides)
  BY DEF SliderEntries, IntSlider, SliderOverrides, SliderId
<1>2. DropdownEntries = Build("dropdown", DropdownId, DropdownOverrides)
  BY DEF DropdownEntries, Dropdown, DropdownOverrides, DropdownId
<1>3. /\ MintId(SliderId, "style") = <<"slider", "style">> /\ MintId(SliderId, "layout") = <<"slider", "layout">>
      /\ MintId(DropdownId, "style") = <<"dropdown", "style">>
      /\ MintId(DropdownId, "layout") = <<"dropdown", "layout">>
  BY TwoLong DEF SliderId, DropdownId
<1>4. Build("int_slider", SliderId, SliderOverrides) =
        <<Entry(SliderId, ControlState("int_slider", SliderId, SliderOverrides)),
          Companion("slider", "style"), Companion("slider", "layout")>>
  BY <1>3, ControlBuilt DEF Companion
<1>5. Build("dropdown", DropdownId, DropdownOverrides) =
        <<Entry(DropdownId, ControlState("dropdown", DropdownId, DropdownOverrides)),
          Companion("dropdown", "style"), Companion("dropdown", "layout")>>
  BY <1>3, ControlBuilt DEF Companion
<1> QED BY <1>1, <1>2, <1>4, <1>5

LEMMA CompanionsAre ==
  /\ IsList(CompanionEntries)
  /\ ToSet(CompanionEntries) = {Companion("slider", "style"), Companion("slider", "layout"),
                                Companion("dropdown", "style"), Companion("dropdown", "layout")}
  /\ CompanionIds = {<<"slider", "style">>, <<"slider", "layout">>,
                     <<"dropdown", "style">>, <<"dropdown", "layout">>}
  /\ IdsOf(CompanionEntries) = CompanionIds /\ Distinct(CompanionEntries)
<1> DEFINE a == Companion("slider", "style")
           b == Companion("slider", "layout")
           c == Companion("dropdown", "style")
           d == Companion("dropdown", "layout")
<1>1. CompanionEntries = <<a, b>> \o <<c, d>>
  BY ControlsBuilt, ThreeTail DEF CompanionEntries
<1>2. /\ Id(a) = <<"slider", "style">> /\ Id(b) = <<"slider", "layout">>
      /\ Id(c) = <<"dropdown", "style">> /\ Id(d) = <<"dropdown", "layout">>
  BY DEF Companion, Entry, Id
<1> HIDE DEF a, b, c, d
<1>3. ToSet(<<a, b>>) = {a, b} /\ ToSet(<<c, d>>) = {c, d}
  BY DEF ToSet
<1>4. IsList(<<a, b>>) /\ IsList(<<c, d>>)
  BY <1>3 DEF IsList
<1>5. IdsOf(<<a, b>>) = {Id(a), Id(b)} /\ IdsOf(<<c, d>>) = {Id(c), Id(d)}
  BY DEF IdsOf
<1>6. IsList(CompanionEntries) /\ ToSet(CompanionEntries) = {a, b, c, d}
  BY <1>1, <1>3, <1>4, Concatenated
<1>7. IdsOf(CompanionEntries) = {Id(a), Id(b), Id(c), Id(d)}
  BY <1>1, <1>4, <1>5, Concatenated
<1>8. CompanionIds = {Id(a), Id(b), Id(c), Id(d)}
  BY <1>6 DEF CompanionIds
<1>9. ASSUME NEW x, NEW y, Id(x) # Id(y) PROVE Distinct(<<x, y>>)
  <2>1. \A i, j \in 1 .. 2 : Id(<<x, y>>[i]) = Id(<<x, y>>[j]) => i = j
    <3>1. \A i \in 1 .. 2 : i = 1 \/ i = 2
      OBVIOUS
    <3> QED BY <1>9, <3>1
  <2> QED BY <2>1 DEF Distinct, IsInjective
<1>10. Distinct(<<a, b>>) /\ Distinct(<<c, d>>)
  BY <1>2, <1>9
<1>11. IdsOf(<<a, b>>) \cap IdsOf(<<c, d>>) = {}
  BY <1>2, <1>5
<1>12. Distinct(CompanionEntries)
  BY <1>1, <1>4, <1>10, <1>11, DistinctConcat
<1> QED BY <1>2, <1>6, <1>7, <1>8, <1>12 DEF a, b, c, d

LEMMA IdsApart ==
  /\ SliderId = <<"slider">> /\ DropdownId = <<"dropdown">>
  /\ SummaryId = <<"slider", "summary">> /\ DownloadId = <<"slider", "download">>
  /\ Ids = {<<"slider">>, <<"dropdown">>, <<"slider", "summary">>, <<"slider", "download">>,
            <<"slider", "style">>, <<"slider", "layout">>, <<"dropdown", "style">>, <<"dropdown", "layout">>}
  /\ SliderId \notin CompanionIds /\ DropdownId \notin CompanionIds
  /\ SummaryId \notin CompanionIds /\ DownloadId \notin CompanionIds
<1>1. /\ SliderId = <<"slider">> /\ DropdownId = <<"dropdown">>
      /\ SummaryId = <<"slider", "summary">> /\ DownloadId = <<"slider", "download">>
  BY TwoLong DEF SliderId, DropdownId, SummaryId, DownloadId
<1> QED BY <1>1, CompanionsAre DEF Ids

LEMMA StatesAre ==
  ASSUME NEW m \in Models
  PROVE  /\ GetState[SliderId][m] = GetSliderState[m]
         /\ GetState[DropdownId][m] = GetDropdownState[m]
         /\ GetState[SummaryId][m] = GetSummaryState[m]
         /\ GetState[DownloadId][m] = GetDownloadState[m]
<1>1. SliderId \in Ids /\ DropdownId \in Ids /\ SummaryId \in Ids /\ DownloadId \in Ids
  BY DEF Ids
<1>2. /\ SliderId # DropdownId /\ SliderId # SummaryId /\ SliderId # DownloadId
      /\ DropdownId # SummaryId /\ DropdownId # DownloadId /\ SummaryId # DownloadId
  BY IdsApart
<1>3. /\ GetState[SliderId] = GetSliderState /\ GetState[DropdownId] = GetDropdownState
      /\ GetState[SummaryId] = GetSummaryState /\ GetState[DownloadId] = GetDownloadState
  BY <1>1, <1>2 DEF GetState
<1> QED BY <1>3

LEMMA Edited ==
  ASSUME NEW m \in Models
  PROVE  /\ \A v \in Values : /\ [m EXCEPT !.value = v] \in Models
                              /\ Merge(GetSliderState[m], [value |-> Num(v)])
                                   = GetSliderState[[m EXCEPT !.value = v]]
         /\ \A i \in Indexes : /\ [m EXCEPT !.index = i] \in Models
                               /\ Merge(GetDropdownState[m], [index |-> i])
                                    = GetDropdownState[[m EXCEPT !.index = i]]
<1>1. \A s, x, y : Merge(Merge(s, [value |-> x]), [value |-> y]) = Merge(s, [value |-> y])
  BY DEF Merge
<1>2. \A s, x, y : Merge(Merge(s, [index |-> x]), [index |-> y]) = Merge(s, [index |-> y])
  BY DEF Merge
<1>3. \A n \in Models : /\ GetSliderState[n] = Merge(SliderEntries[1].state, [value |-> Num(n.value)])
                        /\ GetDropdownState[n] = Merge(DropdownEntries[1].state, [index |-> n.index])
  BY DEF GetSliderState, GetDropdownState
<1>4. ASSUME NEW v \in Values
      PROVE  /\ [m EXCEPT !.value = v] \in Models
             /\ Merge(GetSliderState[m], [value |-> Num(v)]) = GetSliderState[[m EXCEPT !.value = v]]
  <2>1. [m EXCEPT !.value = v] \in Models /\ [m EXCEPT !.value = v].value = v
    BY DEF Models
  <2>2. GetSliderState[[m EXCEPT !.value = v]] = Merge(SliderEntries[1].state, [value |-> Num(v)])
    BY <1>3, <2>1
  <2>3. GetSliderState[m] = Merge(SliderEntries[1].state, [value |-> Num(m.value)])
    BY <1>3
  <2>4. Merge(Merge(SliderEntries[1].state, [value |-> Num(m.value)]), [value |-> Num(v)])
          = Merge(SliderEntries[1].state, [value |-> Num(v)])
    BY <1>1
  <2> QED BY <2>1, <2>2, <2>3, <2>4, Zenon
<1>5. ASSUME NEW i \in Indexes
      PROVE  /\ [m EXCEPT !.index = i] \in Models
             /\ Merge(GetDropdownState[m], [index |-> i]) = GetDropdownState[[m EXCEPT !.index = i]]
  <2>1. [m EXCEPT !.index = i] \in Models /\ [m EXCEPT !.index = i].index = i
    BY DEF Models
  <2>2. GetDropdownState[[m EXCEPT !.index = i]] = Merge(DropdownEntries[1].state, [index |-> i])
    BY <1>3, <2>1
  <2>3. GetDropdownState[m] = Merge(DropdownEntries[1].state, [index |-> m.index])
    BY <1>3
  <2>4. Merge(Merge(DropdownEntries[1].state, [index |-> m.index]), [index |-> i])
          = Merge(DropdownEntries[1].state, [index |-> i])
    BY <1>2
  <2> QED BY <2>1, <2>2, <2>3, <2>4, Zenon
<1> QED BY <1>4, <1>5
-----------------------------------------------------------------------------
(***************************************************************************)
(* Queues.                                                                 *)
(***************************************************************************)
About(n, w) == w \in DOMAIN n.states

LEMMA Appended ==
  ASSUME NEW S, NEW q \in Seq(S), NEW n \in S, NEW w
  PROVE  LET r == Append(q, n) IN
         /\ r \in Seq(S) /\ (\A i \in DOMAIN r : (i \in DOMAIN q /\ r[i] = q[i]) \/ r[i] = n)
         /\ Carries(r, w) <=> Carries(q, w) \/ About(n, w)
         /\ MakesIn(r, w) <=> MakesIn(q, w) \/ (Makes(n) /\ About(n, w))
         /\ AsksIn(r, w) <=> AsksIn(q, w) \/ (n.type = "request_state" /\ About(n, w))
         /\ ClosesIn(r, w) <=> ClosesIn(q, w) \/ (n.type = "comm_close" /\ About(n, w))
         /\ \A st : About(n, w) /\ n.states[w] = st => Newest(r, w, st)
         /\ \A st : ~About(n, w) /\ Newest(q, w, st) => Newest(r, w, st)
<1> DEFINE r == Append(q, n)
           p == Len(q)
<1>1. /\ p \in Nat /\ DOMAIN q = 1 .. p /\ DOMAIN r = 1 .. p + 1 /\ r \in Seq(S)
      /\ \A i \in 1 .. p : r[i] = q[i]
      /\ r[p + 1] = n
  OBVIOUS
<1> HIDE DEF r, p
<1>2. \A i \in DOMAIN r : (i \in DOMAIN q /\ r[i] = q[i]) \/ i = p + 1
  BY <1>1
<1>3. /\ \A i \in DOMAIN q : i \in DOMAIN r /\ r[i] = q[i]
      /\ p + 1 \in DOMAIN r
  BY <1>1
<1>4. Carries(r, w) <=> Carries(q, w) \/ About(n, w)
  BY <1>1, <1>2, <1>3 DEF Carries, About
<1>5. MakesIn(r, w) <=> MakesIn(q, w) \/ (Makes(n) /\ About(n, w))
  BY <1>1, <1>2, <1>3 DEF MakesIn, About
<1>6. AsksIn(r, w) <=> AsksIn(q, w) \/ (n.type = "request_state" /\ About(n, w))
  BY <1>1, <1>2, <1>3 DEF AsksIn, About
<1>7. ClosesIn(r, w) <=> ClosesIn(q, w) \/ (n.type = "comm_close" /\ About(n, w))
  BY <1>1, <1>2, <1>3 DEF ClosesIn, About
<1>8. ASSUME NEW st, About(n, w), n.states[w] = st PROVE Newest(r, w, st)
  <2>1. \A i \in 1 .. p : p + 1 > i
    BY <1>1
  <2> QED BY <1>1, <1>2, <1>3, <1>8, <2>1 DEF Newest, About
<1>9. ASSUME NEW st, ~About(n, w), Newest(q, w, st) PROVE Newest(r, w, st)
  <2> SUFFICES ASSUME NEW i \in DOMAIN r, w \in DOMAIN r[i].states,
                      \A j \in DOMAIN r : j > i => w \notin DOMAIN r[j].states
               PROVE  r[i].states[w] = st
    BY DEF Newest
  <2>1. i \in DOMAIN q /\ r[i] = q[i]
    BY <1>1, <1>2, <1>9 DEF About
  <2>2. \A j \in DOMAIN q : j > i => w \notin DOMAIN q[j].states
    BY <1>3
  <2> QED BY <1>9, <2>1, <2>2 DEF Newest
<1> QED BY <1>1, <1>2, <1>4, <1>5, <1>6, <1>7, <1>8, <1>9 DEF r

LEMMA Taken ==
  ASSUME NEW S, NEW q \in Seq(S), q # << >>, NEW w
  PROVE  LET r == Tail(q)
             h == Head(q) IN
         /\ r \in Seq(S) /\ h \in S /\ (\A i \in DOMAIN r : i + 1 \in DOMAIN q /\ r[i] = q[i + 1])
         /\ 1 \in DOMAIN q /\ h = q[1]
         /\ Carries(q, w) <=> Carries(r, w) \/ About(h, w)
         /\ MakesIn(q, w) <=> MakesIn(r, w) \/ (Makes(h) /\ About(h, w))
         /\ AsksIn(q, w) <=> AsksIn(r, w) \/ (h.type = "request_state" /\ About(h, w))
         /\ ClosesIn(q, w) <=> ClosesIn(r, w) \/ (h.type = "comm_close" /\ About(h, w))
         /\ \A st : Newest(q, w, st) => Newest(r, w, st)
         /\ \A st : Newest(q, w, st) /\ ~Carries(r, w) /\ About(h, w) => h.states[w] = st
<1> DEFINE r == Tail(q)
           h == Head(q)
           p == Len(q)
<1>1. /\ p \in Nat \ {0} /\ DOMAIN q = 1 .. p /\ DOMAIN r = 1 .. p - 1 /\ r \in Seq(S)
      /\ \A i \in 1 .. p - 1 : r[i] = q[i + 1]
      /\ h = q[1] /\ h \in S
  OBVIOUS
<1> HIDE DEF r, h, p
<1>2. \A i \in DOMAIN q : i = 1 \/ (i - 1 \in DOMAIN r /\ r[i - 1] = q[i])
  <2> TAKE i \in DOMAIN q
  <2>1. i # 1 => i - 1 \in 1 .. p - 1 /\ (i - 1) + 1 = i
    BY <1>1
  <2> QED BY <1>1, <2>1
<1>3. /\ \A i \in DOMAIN r : i + 1 \in DOMAIN q /\ r[i] = q[i + 1]
      /\ 1 \in DOMAIN q
  BY <1>1
<1>4. Carries(q, w) <=> Carries(r, w) \/ About(h, w)
  BY <1>1, <1>2, <1>3 DEF Carries, About
<1>5. MakesIn(q, w) <=> MakesIn(r, w) \/ (Makes(h) /\ About(h, w))
  BY <1>1, <1>2, <1>3 DEF MakesIn, About
<1>6. AsksIn(q, w) <=> AsksIn(r, w) \/ (h.type = "request_state" /\ About(h, w))
  BY <1>1, <1>2, <1>3 DEF AsksIn, About
<1>7. ClosesIn(q, w) <=> ClosesIn(r, w) \/ (h.type = "comm_close" /\ About(h, w))
  BY <1>1, <1>2, <1>3 DEF ClosesIn, About
<1>8. ASSUME NEW st, Newest(q, w, st) PROVE Newest(r, w, st)
  <2> SUFFICES ASSUME NEW i \in DOMAIN r, w \in DOMAIN r[i].states,
                      \A j \in DOMAIN r : j > i => w \notin DOMAIN r[j].states
               PROVE  r[i].states[w] = st
    BY DEF Newest
  <2>1. i + 1 \in DOMAIN q /\ r[i] = q[i + 1] /\ i \in Nat
    BY <1>1, <1>3
  <2>2. ASSUME NEW j \in DOMAIN q, j > i + 1 PROVE w \notin DOMAIN q[j].states
    <3>1. j - 1 \in DOMAIN r /\ r[j - 1] = q[j] /\ j - 1 > i
      BY <1>1, <1>2, <2>1, <2>2
    <3> QED BY <3>1
  <2> QED BY <1>8, <2>1, <2>2 DEF Newest
<1>9. ASSUME NEW st, Newest(q, w, st), ~Carries(r, w), About(h, w) PROVE h.states[w] = st
  <2>1. \A j \in DOMAIN q : j > 1 => w \notin DOMAIN q[j].states
    BY <1>1, <1>2, <1>9 DEF Carries
  <2> QED BY <1>1, <1>3, <1>9, <2>1 DEF Newest, About
<1> QED BY <1>1, <1>3, <1>4, <1>5, <1>6, <1>7, <1>8, <1>9 DEF r, h

\* r is the queue q with n at its end.
After(q, n, r) ==
  /\ \A i \in DOMAIN r : (i \in DOMAIN q /\ r[i] = q[i]) \/ r[i] = n
  /\ \A w : /\ Carries(r, w) <=> Carries(q, w) \/ About(n, w)
            /\ MakesIn(r, w) <=> MakesIn(q, w) \/ (Makes(n) /\ About(n, w))
            /\ AsksIn(r, w) <=> AsksIn(q, w) \/ (n.type = "request_state" /\ About(n, w))
            /\ ClosesIn(r, w) <=> ClosesIn(q, w) \/ (n.type = "comm_close" /\ About(n, w))
            /\ \A st : About(n, w) /\ n.states[w] = st => Newest(r, w, st)
            /\ \A st : ~About(n, w) /\ Newest(q, w, st) => Newest(r, w, st)

LEMMA Sends ==
  ASSUME NEW S, NEW q \in Seq(S), NEW n \in S
  PROVE  Append(q, n) \in Seq(S) /\ After(q, n, Append(q, n))
  BY Appended DEF After

\* All messages about w have this state.
Alike(q, w, state) == \A i \in DOMAIN q : About(q[i], w) => q[i].states[w] = state

\* r is the queue q with all of the queue news at its end.
AfterAll(q, news, r) ==
  /\ \A i \in DOMAIN r : \/ i \in DOMAIN q /\ r[i] = q[i]
                         \/ \E j \in DOMAIN news : r[i] = news[j]
  /\ \A w : /\ Carries(r, w) <=> Carries(q, w) \/ Carries(news, w)
            /\ MakesIn(r, w) <=> MakesIn(q, w) \/ MakesIn(news, w)
            /\ ClosesIn(r, w) <=> ClosesIn(q, w) \/ ClosesIn(news, w)
            /\ \A st : Carries(news, w) /\ Alike(news, w, st) => Newest(r, w, st)
            /\ \A st : ~Carries(news, w) /\ Newest(q, w, st) => Newest(r, w, st)

LEMMA SendsAll ==
  ASSUME NEW S, NEW q \in Seq(S), NEW news \in Seq(S)
  PROVE  q \o news \in Seq(S) /\ AfterAll(q, news, q \o news)
<1> DEFINE r == q \o news
           p == Len(q)
           l == Len(news)
<1>1. /\ p \in Nat /\ l \in Nat /\ DOMAIN q = 1 .. p /\ DOMAIN news = 1 .. l /\ DOMAIN r = 1 .. p + l
      /\ r \in Seq(S)
      /\ \A i \in 1 .. p + l : r[i] = IF i <= p THEN q[i] ELSE news[i - p]
  OBVIOUS
<1> HIDE DEF r, p, l
<1>2. \A i \in DOMAIN r : \/ i \in DOMAIN q /\ r[i] = q[i]
                          \/ i > p /\ i - p \in DOMAIN news /\ r[i] = news[i - p]
  <2> TAKE i \in DOMAIN r
  <2>1. i \in 1 .. p + l
    BY <1>1
  <2>2. CASE i <= p
    <3>1. i \in 1 .. p
      BY <1>1, <2>1, <2>2
    <3> QED BY <1>1, <2>2, <3>1
  <2>3. CASE ~(i <= p)
    <3>1. i > p /\ i - p \in 1 .. l
      BY <1>1, <2>1, <2>3
    <3> QED BY <1>1, <2>1, <2>3, <3>1
  <2> QED BY <2>2, <2>3
<1>3. \A i \in DOMAIN q : i \in DOMAIN r /\ r[i] = q[i]
  BY <1>1
<1>4. ASSUME NEW j \in DOMAIN news
      PROVE  /\ p + j \in DOMAIN r /\ r[p + j] = news[j]
             /\ \A i \in DOMAIN q : p + j > i
  <2>1. j \in 1 .. l /\ p + j \in 1 .. p + l /\ ~(p + j <= p) /\ (p + j) - p = j
    BY <1>1
  <2> QED BY <1>1, <2>1
<1>5. \A i \in DOMAIN r : \/ i \in DOMAIN q /\ r[i] = q[i]
                          \/ \E j \in DOMAIN news : r[i] = news[j]
  BY <1>2
<1> SUFFICES ASSUME NEW w
             PROVE  /\ Carries(r, w) <=> Carries(q, w) \/ Carries(news, w)
                    /\ MakesIn(r, w) <=> MakesIn(q, w) \/ MakesIn(news, w)
                    /\ ClosesIn(r, w) <=> ClosesIn(q, w) \/ ClosesIn(news, w)
                    /\ \A st : Carries(news, w) /\ Alike(news, w, st) => Newest(r, w, st)
                    /\ \A st : ~Carries(news, w) /\ Newest(q, w, st) => Newest(r, w, st)
  BY <1>1, <1>5 DEF AfterAll, r
<1>6. Carries(r, w) <=> Carries(q, w) \/ Carries(news, w)
  BY <1>3, <1>4, <1>5 DEF Carries
<1>7. MakesIn(r, w) <=> MakesIn(q, w) \/ MakesIn(news, w)
  BY <1>3, <1>4, <1>5 DEF MakesIn
<1>8. ClosesIn(r, w) <=> ClosesIn(q, w) \/ ClosesIn(news, w)
  BY <1>3, <1>4, <1>5 DEF ClosesIn
<1>9. ASSUME NEW st, Carries(news, w), Alike(news, w, st) PROVE Newest(r, w, st)
  <2> SUFFICES ASSUME NEW i \in DOMAIN r, w \in DOMAIN r[i].states,
                      \A j \in DOMAIN r : j > i => w \notin DOMAIN r[j].states
               PROVE  r[i].states[w] = st
    BY DEF Newest
  <2>1. PICK j \in DOMAIN news : w \in DOMAIN news[j].states
    BY <1>9 DEF Carries
  <2>2. i \notin DOMAIN q
    BY <1>4, <2>1
  <2>3. \E k \in DOMAIN news : r[i] = news[k]
    BY <1>5, <2>2
  <2> QED BY <1>9, <2>3 DEF About, Alike
<1>10. ASSUME NEW st, ~Carries(news, w), Newest(q, w, st) PROVE Newest(r, w, st)
  <2> SUFFICES ASSUME NEW i \in DOMAIN r, w \in DOMAIN r[i].states,
                      \A j \in DOMAIN r : j > i => w \notin DOMAIN r[j].states
               PROVE  r[i].states[w] = st
    BY DEF Newest
  <2>1. i \in DOMAIN q /\ r[i] = q[i]
    BY <1>5, <1>10 DEF Carries
  <2>2. \A j \in DOMAIN q : j > i => w \notin DOMAIN q[j].states
    BY <1>3
  <2> QED BY <1>10, <2>1, <2>2 DEF Newest
<1> QED BY <1>6, <1>7, <1>8, <1>9, <1>10

\* r is the queue q without its first message, h.
Before(q, h, r) ==
  /\ \A i \in DOMAIN r : i + 1 \in DOMAIN q /\ r[i] = q[i + 1]
  /\ 1 \in DOMAIN q /\ h = q[1]
  /\ \A w : /\ Carries(q, w) <=> Carries(r, w) \/ About(h, w)
            /\ MakesIn(q, w) <=> MakesIn(r, w) \/ (Makes(h) /\ About(h, w))
            /\ AsksIn(q, w) <=> AsksIn(r, w) \/ (h.type = "request_state" /\ About(h, w))
            /\ ClosesIn(q, w) <=> ClosesIn(r, w) \/ (h.type = "comm_close" /\ About(h, w))
            /\ \A st : Newest(q, w, st) => Newest(r, w, st)
            /\ \A st : Newest(q, w, st) /\ ~Carries(r, w) /\ About(h, w) => h.states[w] = st

LEMMA Takes ==
  ASSUME NEW S, NEW q \in Seq(S), q # << >>
  PROVE  Tail(q) \in Seq(S) /\ Head(q) \in S /\ Before(q, Head(q), Tail(q))
  BY Taken DEF Before
-----------------------------------------------------------------------------
(***************************************************************************)
(* Messages.                                                               *)
(***************************************************************************)
LEMMA Sent ==
  ASSUME NEW type \in {"comm_open", "update", "answer"},
         NEW widgets \in SUBSET Widgets, NEW m \in Models
  PROVE  LET n == Showing(type, widgets, m) IN
         /\ n \in PageMessages /\ n.type = type /\ DOMAIN n.states = widgets
         /\ \A w \in widgets : n.states[w] = GetState[w[2]][m]
<1>1. Showing(type, widgets, m) \in PageMessages
  BY DEF PageMessages
<1>2. Showing(type, widgets, m).type = type /\ Showing(type, widgets, m).states = States(widgets, m)
  BY DEF Showing, Message
<1> QED BY <1>1, <1>2 DEF States

LEMMA ClosingSent ==
  ASSUME NEW widget \in Closable
  PROVE  LET n == Closing(widget) IN
         n \in PageMessages /\ n.type = "comm_close" /\ DOMAIN n.states = {widget}
<1>1. Closing(widget) \in PageMessages
  BY DEF PageMessages
<1>2. Closing(widget).type = "comm_close" /\ DOMAIN Closing(widget).states = {widget}
  BY DEF Closing, Message
<1> QED BY <1>1, <1>2

LEMMA PageMessageIs ==
  ASSUME NEW n \in PageMessages
  PROVE  /\ n.type \in {"comm_open", "comm_close", "update", "answer"}
         /\ DOMAIN n.states \subseteq Widgets
         /\ n.type # "comm_close" =>
              \E m \in Models : \A w \in DOMAIN n.states : n.states[w] = GetState[w[2]][m]
         /\ n.type = "comm_close" => \A w \in DOMAIN n.states : w[2] \in {SummaryId, DownloadId}
<1>1. CASE \E type \in {"comm_open", "update", "answer"}, widgets \in SUBSET Widgets, m \in Models :
             n = Showing(type, widgets, m)
  <2>1. PICK type \in {"comm_open", "update", "answer"}, widgets \in SUBSET Widgets, m \in Models :
               n = Showing(type, widgets, m)
    BY <1>1
  <2>2. n.type = type /\ DOMAIN n.states = widgets /\ \A w \in widgets : n.states[w] = GetState[w[2]][m]
    BY <2>1, Sent
  <2> QED BY <2>2
<1>2. CASE \E widget \in Closable : n = Closing(widget)
  <2>1. Closable \subseteq Widgets /\ \A w \in Closable : w[2] \in {SummaryId, DownloadId}
    BY DEF Closable
  <2> QED BY <1>2, <2>1, ClosingSent
<1> QED BY <1>1, <1>2 DEF PageMessages

LEMMA AskingSent ==
  ASSUME NEW widgets \in SUBSET Widgets
  PROVE  LET n == Asking(widgets) IN
         n \in HostMessages /\ n.type = "request_state" /\ DOMAIN n.states = widgets
<1>1. Asking(widgets) \in HostMessages
  BY DEF HostMessages
<1>2. Asking(widgets).type = "request_state" /\ DOMAIN Asking(widgets).states = widgets
  BY DEF Asking, Message
<1> QED BY <1>1, <1>2

LEMMA MovingSent ==
  ASSUME NEW id \in {SliderId, DropdownId}, NEW c \in Nat \ {0}, NEW state \in Moves(id)
  PROVE  LET n == Moving(<<c, id>>, state) IN
         /\ n \in HostMessages /\ n.type = "update" /\ <<c, id>> \in Widgets
         /\ DOMAIN n.states = {<<c, id>>} /\ n.states[<<c, id>>] = state
<1>1. Moving(<<c, id>>, state) \in HostMessages
  BY DEF HostMessages
<1>2. /\ Moving(<<c, id>>, state).type = "update"
      /\ Moving(<<c, id>>, state).states = [w \in {<<c, id>>} |-> state]
  BY DEF Moving, Message
<1>3. <<c, id>> \in Widgets
  BY DEF Widgets, Ids
<1> QED BY <1>1, <1>2, <1>3

LEMMA HostMessageIs ==
  ASSUME NEW n \in HostMessages
  PROVE  /\ n.type \in {"update", "request_state"} /\ DOMAIN n.states \subseteq Widgets
         /\ n.type = "update" =>
              \E c \in Nat \ {0}, id \in {SliderId, DropdownId} :
                /\ DOMAIN n.states = {<<c, id>>} /\ n.states[<<c, id>>] \in Moves(id)
<1>1. CASE \E id \in {SliderId, DropdownId}, c \in Nat \ {0} :
             \E state \in Moves(id) : n = Moving(<<c, id>>, state)
  <2>1. PICK id \in {SliderId, DropdownId}, c \in Nat \ {0} :
             \E state \in Moves(id) : n = Moving(<<c, id>>, state)
    BY <1>1
  <2>2. PICK state \in Moves(id) : n = Moving(<<c, id>>, state)
    BY <2>1
  <2>3. n.type = "update" /\ <<c, id>> \in Widgets
    BY <2>2, MovingSent
  <2>4. DOMAIN n.states = {<<c, id>>} /\ n.states[<<c, id>>] = state
    BY <2>2, MovingSent
  <2>5. DOMAIN n.states \subseteq Widgets
    BY <2>3, <2>4
  <2> QED BY <2>3, <2>4, <2>5
<1>2. CASE \E widgets \in SUBSET Widgets : n = Asking(widgets)
  BY <1>2, AskingSent
<1> QED BY <1>1, <1>2 DEF HostMessages

LEMMA CalledAre ==
  ASSUME Shapes
  PROVE  /\ Called \subseteq Widgets /\ (\A w \in Called : w[1] \in 1 .. wires /\ w[2] \in Ids)
         /\ open \subseteq Widgets
         /\ \A c \in 1 .. wires, id \in Ids : <<c, id>> \in Called
  BY DEF Shapes, Called, Widgets
-----------------------------------------------------------------------------
(***************************************************************************)
(* The steps of the host.                                                  *)
(***************************************************************************)
\* What a call of wire() opens: the three widgets and what it is given transports for.
LEMMA OpenedAre ==
  ASSUME NEW call, NEW companions \in BOOLEAN, NEW download \in BOOLEAN
  PROVE  LET widgets == Opened(call, companions, download)
             given == {SliderId, DropdownId, SummaryId}
                        \cup (IF download THEN {DownloadId} ELSE {})
                        \cup (IF companions THEN CompanionIds ELSE {}) IN
         /\ widgets \in Seq(ToSet(widgets)) /\ ToSet(widgets) = {<<call, id>> : id \in given}
         /\ given \subseteq Ids
<1> DEFINE first == <<SliderId, DropdownId, SummaryId>>
           second == IF download THEN <<DownloadId>> ELSE << >>
           third == IF companions THEN [i \in DOMAIN CompanionEntries |-> Id(CompanionEntries[i])] ELSE << >>
           ids == first \o second \o third
           widgets == Opened(call, companions, download)
<1>1. IsList(first) /\ ToSet(first) = {SliderId, DropdownId, SummaryId}
  <2>1. ToSet(first) = {SliderId, DropdownId, SummaryId}
    BY DEF ToSet
  <2> QED BY <2>1 DEF IsList
<1>2. IsList(second) /\ ToSet(second) = IF download THEN {DownloadId} ELSE {}
  <2>1. ToSet(<<DownloadId>>) = {DownloadId} /\ ToSet(<< >>) = {}
    BY DEF ToSet
  <2>2. IsList(<<DownloadId>>) /\ IsList(<< >>)
    BY <2>1 DEF IsList
  <2>3. CASE download
    BY <2>1, <2>2, <2>3
  <2>4. CASE ~download
    BY <2>1, <2>2, <2>4
  <2> QED BY <2>3, <2>4
<1>3. IsList(third) /\ ToSet(third) = IF companions THEN CompanionIds ELSE {}
  <2>1. CASE companions
    <3> DEFINE D == DOMAIN CompanionEntries
    <3>1. D = 1 .. Len(CompanionEntries) /\ Len(CompanionEntries) \in Nat
      BY CompanionsAre DEF IsList
    <3>2. third = [i \in D |-> Id(CompanionEntries[i])]
      BY <2>1
    <3> HIDE DEF third
    <3>3. DOMAIN third = D /\ \A i \in D : third[i] = Id(CompanionEntries[i])
      BY <3>2
    <3>4. ToSet(third) = CompanionIds
      BY <3>3, CompanionsAre DEF ToSet, IdsOf
    <3>5. third \in [1 .. Len(CompanionEntries) -> ToSet(third)]
      BY <3>1, <3>2, <3>3 DEF ToSet
    <3>6. third \in Seq(ToSet(third))
      BY <3>1, <3>5
    <3> QED BY <2>1, <3>4, <3>6 DEF IsList
  <2>2. CASE ~companions
    BY <2>2 DEF IsList, ToSet
  <2> QED BY <2>1, <2>2
<1> HIDE DEF first, second, third
<1>4. IsList(ids) /\ ToSet(ids) = (ToSet(first) \cup ToSet(second)) \cup ToSet(third)
  BY <1>1, <1>2, <1>3, Concatenated
<1>5. widgets = [i \in DOMAIN ids |-> <<call, ids[i]>>]
  BY DEF Opened, ids, first, second, third
<1> HIDE DEF ids, widgets
<1>6. DOMAIN ids = 1 .. Len(ids) /\ Len(ids) \in Nat
  BY <1>4 DEF IsList
<1>7. ToSet(widgets) = {<<call, id>> : id \in ToSet(ids)}
  BY <1>5 DEF ToSet
<1>8. widgets \in [1 .. Len(ids) -> ToSet(widgets)]
  BY <1>5, <1>6 DEF ToSet
<1>9. widgets \in Seq(ToSet(widgets))
  BY <1>6, <1>8
<1> QED BY <1>1, <1>2, <1>3, <1>4, <1>7, <1>9 DEF widgets, Ids

LEMMA WireKeeps ==
  ASSUME LiveInv, NEW companions \in BOOLEAN, NEW download \in BOOLEAN, Wire(companions, download)
  PROVE  LiveInv'
<1> DEFINE order == Opened(wires', companions, download)
           widgets == ToSet(order)
           opening(w) == Message("comm_open", States({w}, model))
           news == [i \in DOMAIN order |-> opening(order[i])]
           given == {SliderId, DropdownId, SummaryId}
                      \cup (IF download THEN {DownloadId} ELSE {})
                      \cup (IF companions THEN CompanionIds ELSE {})
<1> USE DEF LiveInv
<1>1. /\ wires' = wires + 1 /\ wires \in Nat /\ wires' \in Nat \ {0} /\ wires <= events
      /\ events < MaxEvents /\ events' = events + 1 /\ events \in Nat /\ MaxEvents \in Nat
      /\ downloadAt' = IF download THEN wires' ELSE downloadAt
      /\ downloadAt \in 0 .. wires /\ model \in Models /\ model' = model
      /\ cut' = (cut /\ ~download) /\ cut \in BOOLEAN
      /\ open' = open \cup widgets /\ page' = page /\ toHost' = toHost
      /\ toPage' = toPage \o news
      /\ resolvable' = IF companions THEN resolvable \cup {wires'} ELSE resolvable
      /\ resolvable \subseteq 1 .. wires /\ open \subseteq Called
      /\ DOMAIN page \subseteq Called
  BY DashboardAssumption DEF Wire, Event, Shapes
<1>2. /\ order \in Seq(widgets) /\ widgets = {<<wires', id>> : id \in given} /\ given \subseteq Ids
      /\ SummaryId \in given /\ (download => DownloadId \in given)
      /\ companions => CompanionIds \subseteq given
  BY OpenedAre
<1> HIDE DEF order, given, widgets
<1>3. widgets \in SUBSET Widgets
  BY <1>1, <1>2 DEF Widgets
<1>4. ASSUME NEW w \in widgets
      PROVE  /\ opening(w) \in PageMessages /\ opening(w).type = "comm_open"
             /\ DOMAIN opening(w).states = {w} /\ opening(w).states[w] = GetState[w[2]][model]
  <2> DEFINE n == Showing("comm_open", {w}, model)
  <2>1. {w} \in SUBSET Widgets /\ opening(w) = n
    BY <1>3 DEF Showing
  <2>2. /\ n \in PageMessages /\ n.type = "comm_open" /\ DOMAIN n.states = {w}
        /\ \A v \in {w} : n.states[v] = GetState[v[2]][model]
    BY <1>1, <2>1, Sent
  <2> HIDE DEF n, opening
  <2> QED BY <2>1, <2>2
<1>5. /\ DOMAIN news = 1 .. Len(order) /\ DOMAIN order = 1 .. Len(order) /\ Len(order) \in Nat
      /\ \A i \in DOMAIN news : order[i] \in widgets /\ news[i] = opening(order[i])
      /\ \A w \in widgets : \E i \in DOMAIN news : news[i] = opening(w)
  <2>1. \A w \in widgets : \E i \in DOMAIN order : order[i] = w
    BY DEF widgets, ToSet
  <2> HIDE DEF opening
  <2> QED BY <1>2, <2>1
<1>6. news \in Seq(PageMessages)
  <2>1. \A i \in 1 .. Len(order) : news[i] \in PageMessages
    BY <1>4, <1>5
  <2>2. news = [i \in 1 .. Len(order) |-> news[i]]
    BY <1>5
  <2> HIDE DEF news
  <2>3. news \in [1 .. Len(order) -> PageMessages]
    BY <2>1, <2>2
  <2> QED BY <1>5, <2>3
<1> HIDE DEF news, opening
<1>7. toPage' \in Seq(PageMessages) /\ AfterAll(toPage, news, toPage')
  BY <1>1, <1>6, SendsAll DEF Shapes
<1>8. /\ \A w : Carries(news, w) <=> w \in widgets
      /\ \A w : MakesIn(news, w) <=> w \in widgets
      /\ \A w : ~ClosesIn(news, w)
      /\ \A w : Alike(news, w, GetState[w[2]][model])
  <2>1. \A j \in DOMAIN news : \E v \in widgets : news[j] = opening(v)
    BY <1>5
  <2>2. \A j \in DOMAIN news : \E v \in widgets :
          /\ news[j].type = "comm_open" /\ DOMAIN news[j].states = {v}
          /\ news[j].states[v] = GetState[v[2]][model]
    BY <1>4, <2>1
  <2>3. \A v \in widgets : \E j \in DOMAIN news : news[j].type = "comm_open" /\ DOMAIN news[j].states = {v}
    BY <1>4, <1>5
  <2>4. \A w : (Carries(news, w) => w \in widgets) /\ (MakesIn(news, w) => w \in widgets)
    BY <2>2 DEF Carries, MakesIn
  <2>5. \A w \in widgets : \E j \in DOMAIN news : news[j].type = "comm_open" /\ w \in DOMAIN news[j].states
    BY <2>3
  <2>8. \A w \in widgets : Carries(news, w) /\ MakesIn(news, w)
    BY <2>5 DEF Carries, MakesIn, Makes
  <2>6. \A w : ~ClosesIn(news, w)
    BY <2>2 DEF ClosesIn
  <2>7. \A w : Alike(news, w, GetState[w[2]][model])
    BY <2>2 DEF Alike, About
  <2> QED BY <2>4, <2>6, <2>7, <2>8
<1>9. /\ Called \subseteq Called' /\ widgets \subseteq Called' /\ widgets \cap Called = {}
      /\ \A w \in Called : w[1] \in 1 .. wires
      /\ <<wires', SummaryId>> \in widgets
      /\ download => <<wires', DownloadId>> \in widgets
  <2>1. 1 .. wires \subseteq 1 .. wires' /\ wires' \in 1 .. wires' /\ wires' \notin 1 .. wires
    BY <1>1
  <2> QED BY <1>2, <2>1 DEF Called
<1>10. Shapes'
  <2>1. \A i \in DOMAIN toPage' : DOMAIN toPage'[i].states \subseteq Called'
    <3>1. \A j \in DOMAIN news : DOMAIN news[j].states \subseteq widgets
      BY <1>4, <1>5
    <3> QED BY <1>7, <1>9, <3>1 DEF Shapes, AfterAll
  <2>2. \A i \in DOMAIN toHost' : DOMAIN toHost'[i].states \subseteq Called'
    BY <1>1, <1>9 DEF Shapes
  <2>3. /\ wires' <= events' /\ events' \in 0 .. MaxEvents /\ downloadAt' \in 0 .. wires'
        /\ resolvable' \subseteq 1 .. wires' /\ cut' \in BOOLEAN
    BY <1>1
  <2> QED BY <1>1, <1>7, <1>9, <2>1, <2>2, <2>3 DEF Shapes
<1>11. Pages'
  BY <1>1 DEF Pages
<1>12. Companionship'
  <2>1. companions => \A id \in CompanionIds : <<wires', id>> \in widgets
    BY <1>2
  <2> QED BY <1>1, <2>1 DEF Companionship
<1>13. Presence'
  <2>1. \A w \in widgets : ~ClosesIn(toPage, w)
    BY <1>9 DEF ClosesIn, Shapes
  <2>2. \A w : /\ ClosesIn(toPage', w) <=> ClosesIn(toPage, w)
               /\ MakesIn(toPage', w) <=> MakesIn(toPage, w) \/ w \in widgets
    BY <1>7, <1>8 DEF AfterAll
  <2>3. \A w \in open' : w \in open \/ w \in widgets
    BY <1>1
  <2> SUFFICES ASSUME NEW w \in open'
               PROVE  /\ ~ClosesIn(toPage', w)
                      /\ w \in DOMAIN page' \/ MakesIn(toPage', w) \/ AsksIn(toHost', w)
    BY DEF Presence
  <2>4. CASE w \in widgets
    BY <2>1, <2>2, <2>4
  <2>5. CASE w \in open
    <3>1. ~ClosesIn(toPage, w) /\ (w \in DOMAIN page \/ MakesIn(toPage, w) \/ AsksIn(toHost, w))
      BY <2>5 DEF Presence
    <3>2. DOMAIN page' = DOMAIN page /\ (AsksIn(toHost, w) => AsksIn(toHost', w))
      BY <1>1
    <3>3. ~ClosesIn(toPage', w) /\ (MakesIn(toPage, w) => MakesIn(toPage', w))
      BY <2>2, <3>1
    <3> QED BY <3>1, <3>2, <3>3
  <2> QED BY <2>3, <2>4, <2>5
<1>14. Currency'
  <2>1. \A w \in widgets : \A st : st = GetState[w[2]][model] => Newest(toPage', w, st) /\ Carries(toPage', w)
    BY <1>7, <1>8 DEF AfterAll
  <2>2. \A w, st : w \notin widgets /\ Latest(w, st) =>
          Newest(toPage', w, st) /\ (~Carries(toPage', w) /\ w \in DOMAIN page' => page'[w] = st)
    BY <1>1, <1>7, <1>8 DEF AfterAll, Latest
  <2>4. <<wires', SummaryId>>[2] = SummaryId /\ <<wires', DownloadId>>[2] = DownloadId
    OBVIOUS
  <2> QED BY <1>1, <1>9, <2>1, <2>2, <2>4, StatesAre DEF Currency, Latest
<1> QED BY <1>10, <1>11, <1>12, <1>13, <1>14

LEMMA CloseKeeps ==
  ASSUME LiveInv, NEW widget \in open, Close(widget)
  PROVE  LiveInv'
<1> DEFINE n == Closing(widget)
<1> USE DEF LiveInv
<1>1. /\ events < MaxEvents /\ events' = events + 1 /\ events \in Nat /\ MaxEvents \in Nat
      /\ widget[2] \in {SummaryId, DownloadId} /\ open' = open \ {widget}
      /\ toPage' = Append(toPage, n) /\ wires \in Nat /\ wires <= events
      /\ UNCHANGED <<model, wires, downloadAt, cut, resolvable, page, toHost>>
  BY DashboardAssumption DEF Close, Event, Shapes, Closing
<1>2. widget \in Called /\ widget \in Closable
  BY <1>1, CalledAre DEF Shapes, Closable
<1>3. n \in PageMessages /\ n.type = "comm_close" /\ DOMAIN n.states = {widget}
  BY <1>2, ClosingSent
<1>4. toPage' \in Seq(PageMessages) /\ After(toPage, n, toPage')
  BY <1>1, <1>3, Sends DEF Shapes
<1>5. Called' = Called
  BY <1>1 DEF Called
<1> HIDE DEF n
<1>6. Shapes'
  <2>1. \A i \in DOMAIN toPage' : DOMAIN toPage'[i].states \subseteq Called'
    BY <1>2, <1>3, <1>4, <1>5 DEF Shapes, After
  <2>2. wires' <= events' /\ events' \in 0 .. MaxEvents
    BY <1>1
  <2> QED BY <1>1, <1>4, <1>5, <2>1, <2>2 DEF Shapes
<1>7. Pages'
  BY <1>1 DEF Pages
<1>8. Companionship'
  <2>1. \A c, id : id \in CompanionIds => <<c, id>> # widget
    BY <1>1, IdsApart
  <2> QED BY <1>1, <2>1 DEF Companionship
<1>9. Presence'
  BY <1>1, <1>3, <1>4 DEF Presence, After, About, Makes
<1>10. Currency'
  BY <1>1, <1>3, <1>4 DEF Currency, After, About, Latest
<1> QED BY <1>6, <1>7, <1>8, <1>9, <1>10

\* One message is taken from the page's.
HostTook ==
  /\ Shapes /\ toHost # << >>
  /\ toHost' = Tail(toHost) /\ toHost' \in Seq(HostMessages)
  /\ Head(toHost) \in HostMessages /\ DOMAIN Head(toHost).states \subseteq Called
  /\ Before(toHost, Head(toHost), toHost')
  /\ \A i \in DOMAIN toHost' : DOMAIN toHost'[i].states \subseteq Called

LEMMA HostTakes ==
  ASSUME Shapes, HostReceive
  PROVE  HostTook
<1>1. toHost # << >> /\ toHost' = Tail(toHost) /\ toHost \in Seq(HostMessages)
  BY DEF HostReceive, Shapes
<1>2. toHost' \in Seq(HostMessages) /\ Head(toHost) \in HostMessages /\ Before(toHost, Head(toHost), toHost')
  BY <1>1, Takes
<1>3. \A i \in DOMAIN toHost : DOMAIN toHost[i].states \subseteq Called
  BY DEF Shapes
<1> QED BY <1>1, <1>2, <1>3 DEF HostTook, Before

LEMMA Changed ==
  ASSUME model \in Models, NEW id \in {SliderId, DropdownId}, NEW state \in Moves(id)
  PROVE  Change(id, state) \in Models
<1>0. SliderId # DropdownId
  BY IdsApart
<1>1. CASE id = SliderId
  <2>1. PICK v \in Values : state = [value |-> Num(v)]
    BY <1>1 DEF Moves
  <2>2. "value" \in DOMAIN state /\ state["value"].num = v
    BY <2>1 DEF Num
  <2>3. Change(id, state) = [model EXCEPT !.value = v]
    BY <1>0, <1>1, <2>2 DEF Change
  <2> QED BY <2>3, Edited
<1>2. CASE id = DropdownId
  <2>1. PICK i \in Indexes : state = [index |-> i]
    BY <1>0, <1>2 DEF Moves
  <2>2. "index" \in DOMAIN state /\ state["index"] = i
    BY <2>1
  <2> QED BY <1>0, <1>2, <2>2 DEF Change, Models
<1> QED BY <1>1, <1>2

LEMMA AnswerKeeps ==
  ASSUME LiveInv, HostTook, Head(toHost).type = "request_state", Answer(DOMAIN Head(toHost).states),
         UNCHANGED <<wires, downloadAt, open, resolvable, page, events>>
  PROVE  LiveInv'
<1> DEFINE h == Head(toHost)
           W == DOMAIN h.states \cap open
           n == Showing("answer", W, model)
<1> USE DEF LiveInv
<1>1. /\ toPage' = Append(toPage, n) /\ model' = model /\ model \in Models
      /\ cut' = (cut /\ <<downloadAt, DownloadId>> \notin W) /\ cut \in BOOLEAN
  BY DEF Answer, Showing, Shapes
<1>2. W \in SUBSET Widgets /\ W \subseteq Called /\ W \subseteq open
  BY CalledAre DEF Shapes
<1>3. /\ n \in PageMessages /\ n.type = "answer" /\ DOMAIN n.states = W
      /\ \A w \in W : n.states[w] = GetState[w[2]][model]
  BY <1>1, <1>2, Sent
<1>4. toPage' \in Seq(PageMessages) /\ After(toPage, n, toPage')
  BY <1>1, <1>3, Sends DEF Shapes
<1>5. Called' = Called
  BY DEF Called
<1>6. Before(toHost, h, toHost') /\ h.type = "request_state"
  BY DEF HostTook
<1>7. W = DOMAIN h.states \cap open
  OBVIOUS
<1> HIDE DEF n, W, h
<1>8. Shapes'
  <2>1. \A i \in DOMAIN toPage' : DOMAIN toPage'[i].states \subseteq Called'
    BY <1>2, <1>3, <1>4, <1>5 DEF Shapes, After
  <2> QED BY <1>1, <1>4, <1>5, <2>1 DEF Shapes, HostTook
<1>9. Pages'
  BY DEF Pages
<1>10. Companionship'
  BY <1>1 DEF Companionship
<1>11. Presence'
  <2> SUFFICES ASSUME NEW w \in open
               PROVE  ~ClosesIn(toPage', w) /\ (w \in DOMAIN page \/ MakesIn(toPage', w) \/ AsksIn(toHost', w))
    BY DEF Presence
  <2>1. ~ClosesIn(toPage, w) /\ (w \in DOMAIN page \/ MakesIn(toPage, w) \/ AsksIn(toHost, w))
    BY DEF Presence
  <2>2. AsksIn(toHost, w) => AsksIn(toHost', w) \/ w \in W
    BY <1>6, <1>7 DEF Before, About
  <2> QED BY <1>3, <1>4, <2>1, <2>2 DEF After, About, Makes
<1>12. Currency'
  BY <1>1, <1>2, <1>3, <1>4, StatesAre DEF Currency, After, About, Latest
<1> QED BY <1>8, <1>9, <1>10, <1>11, <1>12

\* A queue to which one message or none is added.
LEMMA Joined ==
  ASSUME NEW S, NEW q \in Seq(S), NEW n \in S
  PROVE  q \o <<n>> = Append(q, n) /\ q \o << >> = q
  OBVIOUS

\* A render sends the summary's state, then the button's, unless it raises before.
LEMMA SetModelKeeps ==
  ASSUME LiveInv, HostTook, Head(toHost).type = "update", NEW m \in Models, SetModel(m),
         UNCHANGED <<wires, downloadAt, open, resolvable, page, events>>
  PROVE  LiveInv'
<1> DEFINE summary == <<wires, SummaryId>>
           button == <<downloadAt, DownloadId>>
           raises == wires # 0 /\ summary \notin open
           first == Showing("update", {summary}, m)
           second == Showing("update", {button}, m)
           sends == button \in open /\ ~raises
           q == IF summary \in open THEN Append(toPage, first) ELSE toPage
<1> USE DEF LiveInv
<1>1. model' = m /\ cut' = (raises \/ (cut /\ button \notin open)) /\ cut \in BOOLEAN
  BY DEF SetModel, Render, Shapes
<1>2. toPage' = (toPage \o (IF summary \in open THEN <<first>> ELSE << >>))
                  \o (IF sends THEN <<second>> ELSE << >>)
  BY DEF SetModel, Render, Showing, Update
<1>3. summary \in open => /\ first \in PageMessages /\ first.type = "update" /\ DOMAIN first.states = {summary}
                          /\ first.states[summary] = GetSummaryState[m] /\ summary \in Called
  <2>1. summary \in open => {summary} \in SUBSET Widgets /\ summary \in Called
    BY CalledAre DEF Shapes
  <2> QED BY <2>1, Sent, StatesAre
<1>4. button \in open => /\ second \in PageMessages /\ second.type = "update" /\ DOMAIN second.states = {button}
                         /\ second.states[button] = GetDownloadState[m] /\ button \in Called
  <2>1. button \in open => {button} \in SUBSET Widgets /\ button \in Called
    BY CalledAre DEF Shapes
  <2> QED BY <2>1, Sent, StatesAre
<1>5. summary # button
  BY IdsApart
<1>6. Called' = Called
  BY DEF Called
<1> HIDE DEF first, second, q, summary, button
<1>7. /\ q \in Seq(PageMessages)
      /\ summary \in open => After(toPage, first, q)
      /\ summary \notin open => q = toPage
  BY <1>3, Sends DEF Shapes, q
<1>8. q = toPage \o (IF summary \in open THEN <<first>> ELSE << >>)
  <2>1. toPage \in Seq(PageMessages) /\ toPage \o << >> = toPage
    BY Joined DEF Shapes
  <2>2. summary \in open => toPage \o <<first>> = Append(toPage, first)
    BY <1>3, <2>1, Joined
  <2> QED BY <2>1, <2>2 DEF q
<1>9. /\ toPage' \in Seq(PageMessages)
      /\ sends => After(q, second, toPage')
      /\ ~sends => toPage' = q
  <2>1. toPage' = q \o (IF sends THEN <<second>> ELSE << >>)
    BY <1>2, <1>8
  <2>2. toPage' = IF sends THEN Append(q, second) ELSE q
    BY <1>4, <1>7, <2>1, Joined
  <2> QED BY <1>4, <1>7, <2>2, Sends
<1>10. \A i \in DOMAIN toPage' :
         \/ i \in DOMAIN toPage /\ toPage'[i] = toPage[i]
         \/ summary \in open /\ toPage'[i] = first
         \/ sends /\ toPage'[i] = second
  BY <1>7, <1>9 DEF After
<1>11. Before(toHost, Head(toHost), toHost') /\ Head(toHost).type = "update"
  BY DEF HostTook
<1>12. Shapes'
  <2>1. \A i \in DOMAIN toPage' : DOMAIN toPage'[i].states \subseteq Called'
    BY <1>3, <1>4, <1>6, <1>10 DEF Shapes
  <2> QED BY <1>1, <1>6, <1>9, <2>1 DEF Shapes, HostTook
<1>13. Pages'
  BY DEF Pages
<1>14. Companionship'
  BY <1>1 DEF Companionship
<1>15. Presence'
  <2> SUFFICES ASSUME NEW w \in open
               PROVE  ~ClosesIn(toPage', w) /\ (w \in DOMAIN page \/ MakesIn(toPage', w) \/ AsksIn(toHost', w))
    BY DEF Presence
  <2>1. ~ClosesIn(toPage, w) /\ (w \in DOMAIN page \/ MakesIn(toPage, w) \/ AsksIn(toHost, w))
    BY DEF Presence
  <2>2. AsksIn(toHost, w) => AsksIn(toHost', w)
    BY <1>11 DEF Before
  <2>3. ~ClosesIn(q, w) /\ (MakesIn(toPage, w) => MakesIn(q, w))
    BY <1>3, <1>7, <2>1 DEF After
  <2>4. ~ClosesIn(toPage', w) /\ (MakesIn(q, w) => MakesIn(toPage', w))
    BY <1>4, <1>9, <2>3 DEF After
  <2> QED BY <2>1, <2>2, <2>3, <2>4
<1>16. Currency'
  <2>1. summary \in open =>
          Carries(toPage', summary) /\ Newest(toPage', summary, GetSummaryState[m])
    <3>1. summary \in open => Carries(q, summary) /\ Newest(q, summary, GetSummaryState[m])
      BY <1>3, <1>7 DEF After, About
    <3>2. sends => ~About(second, summary)
      BY <1>4, <1>5 DEF About
    <3> QED BY <1>9, <3>1, <3>2 DEF After
  <2>2. sends => Carries(toPage', button) /\ Newest(toPage', button, GetDownloadState[m])
    BY <1>4, <1>9 DEF After, About
  <2>3. button \in open /\ ~cut' => sends
    BY <1>1
  <2>4. summary = <<wires', SummaryId>> /\ button = <<downloadAt', DownloadId>>
    BY DEF summary, button
  <2> QED BY <1>1, <2>1, <2>2, <2>3, <2>4 DEF Currency, Latest
<1> QED BY <1>12, <1>13, <1>14, <1>15, <1>16

\* A message about a widget that is not open, or that changes nothing.
LEMMA IgnoreKeeps ==
  ASSUME LiveInv, HostTook, Head(toHost).type = "update", UNCHANGED <<model, toPage, cut>>,
         UNCHANGED <<wires, downloadAt, open, resolvable, page, events>>
  PROVE  LiveInv'
<1> USE DEF LiveInv
<1>1. Before(toHost, Head(toHost), toHost') /\ Called' = Called
  BY DEF HostTook, Called
<1>2. Shapes'
  BY <1>1 DEF Shapes, HostTook
<1>3. Pages' /\ Currency'
  BY DEF Pages, Currency, Latest
<1>4. Companionship'
  BY <1>1 DEF Companionship
<1>5. Presence'
  BY <1>1 DEF Presence, Before
<1> QED BY <1>2, <1>3, <1>4, <1>5

LEMMA HostReceiveKeeps ==
  ASSUME LiveInv, HostReceive
  PROVE  LiveInv'
<1> DEFINE h == Head(toHost)
           widget == CHOOSE w \in DOMAIN h.states : TRUE
           changed == Change(widget[2], h.states[widget])
<1>1. HostTook
  BY HostTakes DEF LiveInv
<1>2. h \in HostMessages
  BY <1>1 DEF HostTook
<1>3. UNCHANGED <<wires, downloadAt, open, resolvable, page, events>>
  BY DEF HostReceive
<1>4. h.type \in {"update", "request_state"}
  BY <1>2, HostMessageIs
<1>5. CASE h.type = "request_state"
  <2>1. Answer(DOMAIN h.states)
    BY <1>5 DEF HostReceive
  <2> QED BY <1>1, <1>3, <1>5, <2>1, AnswerKeeps
<1>6. CASE h.type = "update"
  <2>1. IF widget \notin open \/ changed = model THEN UNCHANGED <<model, toPage, cut>> ELSE SetModel(changed)
    BY <1>6 DEF HostReceive
  <2>2. changed \in Models
    <3>1. PICK c \in Nat \ {0}, id \in {SliderId, DropdownId} :
            DOMAIN h.states = {<<c, id>>} /\ h.states[<<c, id>>] \in Moves(id)
      BY <1>2, <1>6, HostMessageIs
    <3>2. widget = <<c, id>>
      BY <3>1
    <3>3. model \in Models
      BY DEF LiveInv, Shapes
    <3> QED BY <3>1, <3>2, <3>3, Changed
  <2>3. CASE widget \notin open \/ changed = model
    BY <1>1, <1>3, <1>6, <2>1, <2>3, IgnoreKeeps
  <2>4. CASE ~(widget \notin open \/ changed = model)
    BY <1>1, <1>3, <1>6, <2>1, <2>2, <2>4, SetModelKeeps
  <2> QED BY <2>3, <2>4
<1> QED BY <1>4, <1>5, <1>6
-----------------------------------------------------------------------------
(***************************************************************************)
(* The steps of the page.                                                  *)
(***************************************************************************)
\* What becomes of the model of a widget when the page takes a message.
LEMMA PageTakes ==
  ASSUME Shapes, PageReceive
  PROVE  LET h == Head(toPage) IN
         /\ toPage' \in Seq(PageMessages) /\ h \in PageMessages /\ Before(toPage, h, toPage')
         /\ DOMAIN h.states \subseteq Called
         /\ \A i \in DOMAIN toPage' : DOMAIN toPage'[i].states \subseteq Called
         /\ Makes(h) => DOMAIN page' = DOMAIN page \cup DOMAIN h.states
         /\ h.type = "comm_close" => DOMAIN page' = DOMAIN page \ DOMAIN h.states
         /\ h.type = "update" => DOMAIN page' = DOMAIN page
         /\ \A w \in DOMAIN page' :
              page'[w] = IF About(h, w) THEN h.states[w] ELSE page[w]
         /\ \A w \in DOMAIN page' : About(h, w) => h.type # "comm_close"
<1> DEFINE h == Head(toPage)
<1>1. toPage # << >> /\ toPage' = Tail(toPage) /\ toPage \in Seq(PageMessages)
  BY DEF PageReceive, Shapes
<1>2. toPage' \in Seq(PageMessages) /\ h \in PageMessages /\ Before(toPage, h, toPage')
  BY <1>1, Takes
<1>3. \A i \in DOMAIN toPage : DOMAIN toPage[i].states \subseteq Called
  BY DEF Shapes
<1>4. /\ DOMAIN h.states \subseteq Called
      /\ \A i \in DOMAIN toPage' : DOMAIN toPage'[i].states \subseteq Called
  BY <1>2, <1>3 DEF Before
<1>5. h.type \in {"comm_open", "comm_close", "update", "answer"}
  BY <1>2, PageMessageIs
<1>6. page' = CASE h.type \in {"comm_open", "answer"} -> Merge(page, h.states)
                [] h.type = "comm_close" -> Without(page, DOMAIN h.states)
                [] h.type = "update" -> [w \in DOMAIN page |-> Merge(page, h.states)[w]]
  BY DEF PageReceive
<1> HIDE DEF h
<1>7. CASE h.type \in {"comm_open", "answer"}
  <2>1. page' = Merge(page, h.states)
    BY <1>6, <1>7
  <2>2. DOMAIN page' = DOMAIN page \cup DOMAIN h.states
        /\ \A w \in DOMAIN page' : page'[w] = IF w \in DOMAIN h.states THEN h.states[w] ELSE page[w]
    BY <2>1 DEF Merge
  <2> QED BY <1>2, <1>4, <1>7, <2>2 DEF Makes, About, h
<1>8. CASE h.type = "comm_close"
  <2>1. page' = Without(page, DOMAIN h.states)
    BY <1>6, <1>8
  <2>2. DOMAIN page' = DOMAIN page \ DOMAIN h.states
        /\ \A w \in DOMAIN page' : page'[w] = page[w]
    BY <2>1 DEF Without
  <2> QED BY <1>2, <1>4, <1>8, <2>2 DEF Makes, About, h
<1>9. CASE h.type = "update"
  <2>1. page' = [w \in DOMAIN page |-> Merge(page, h.states)[w]]
    BY <1>6, <1>9
  <2>2. DOMAIN page' = DOMAIN page
        /\ \A w \in DOMAIN page' : page'[w] = IF w \in DOMAIN h.states THEN h.states[w] ELSE page[w]
    BY <2>1 DEF Merge
  <2> QED BY <1>2, <1>4, <1>9, <2>2 DEF Makes, About, h
<1> QED BY <1>5, <1>7, <1>8, <1>9

LEMMA PageReceiveKeeps ==
  ASSUME LiveInv, PageReceive
  PROVE  LiveInv'
<1> DEFINE h == Head(toPage)
<1> USE DEF LiveInv
<1>1. /\ toPage' \in Seq(PageMessages) /\ h \in PageMessages /\ Before(toPage, h, toPage')
      /\ DOMAIN h.states \subseteq Called
      /\ \A i \in DOMAIN toPage' : DOMAIN toPage'[i].states \subseteq Called
      /\ Makes(h) => DOMAIN page' = DOMAIN page \cup DOMAIN h.states
      /\ h.type = "comm_close" => DOMAIN page' = DOMAIN page \ DOMAIN h.states
      /\ h.type = "update" => DOMAIN page' = DOMAIN page
      /\ \A w \in DOMAIN page' :
           page'[w] = IF About(h, w) THEN h.states[w] ELSE page[w]
      /\ \A w \in DOMAIN page' : About(h, w) => h.type # "comm_close"
  BY PageTakes
<1>2. UNCHANGED <<model, wires, downloadAt, cut, open, resolvable, toHost, events>>
  BY DEF PageReceive, hostVars
<1>3. /\ h.type # "comm_close" =>
           \E m \in Models : \A w \in DOMAIN h.states : h.states[w] = GetState[w[2]][m]
      /\ h.type = "comm_close" => \A w \in DOMAIN h.states : w[2] \in {SummaryId, DownloadId}
      /\ Makes(h) \/ h.type = "comm_close" \/ h.type = "update"
  BY <1>1, PageMessageIs DEF Makes
<1>4. Called' = Called
  BY <1>2 DEF Called
<1> HIDE DEF h
<1>5. \A w \in DOMAIN page' : w \in DOMAIN page \/ About(h, w)
  BY <1>1, <1>3 DEF About
<1>6. Shapes'
  <2>1. DOMAIN page' \subseteq Called'
    BY <1>1, <1>3, <1>4 DEF Shapes
  <2> QED BY <1>1, <1>2, <1>4, <2>1 DEF Shapes
<1>7. Pages'
  BY <1>1, <1>3, <1>5 DEF Pages, About
<1>8. Companionship'
  BY <1>2 DEF Companionship
<1>9. Presence'
  BY <1>1, <1>2, <1>3 DEF Presence, Before, About
<1>10. Currency'
  <2>1. ASSUME NEW w, NEW st, Latest(w, st)
        PROVE  Newest(toPage', w, st) /\ (~Carries(toPage', w) /\ w \in DOMAIN page' => page'[w] = st)
    BY <1>1, <1>5, <2>1 DEF Latest, Before, About
  <2> QED BY <1>2, <2>1 DEF Currency, Latest
<1> QED BY <1>6, <1>7, <1>8, <1>9, <1>10

\* What the user has moved shows the Model with that change.
LEMMA MoveKeeps ==
  ASSUME LiveInv, NEW widget \in DOMAIN page, widget[2] \in {SliderId, DropdownId},
         NEW state \in Moves(widget[2]), Move(widget, state)
  PROVE  LiveInv'
<1> DEFINE n == Moving(widget, state)
<1> USE DEF LiveInv
<1>1. /\ UNCHANGED <<model, wires, downloadAt, cut, open, resolvable, toPage, events>>
      /\ toHost' = Append(toHost, n)
      /\ DOMAIN page' = DOMAIN page /\ page'[widget] = Merge(page[widget], state)
      /\ \A w \in DOMAIN page : w # widget => page'[w] = page[w]
  BY DEF Move, hostVars, Moving
<1>2. widget \in Called /\ widget[1] \in Nat \ {0} /\ widget = <<widget[1], widget[2]>>
  BY DEF Shapes, Called
<1>3. /\ n \in HostMessages /\ n.type = "update" /\ DOMAIN n.states = {widget}
  BY <1>2, MovingSent
<1>4. toHost' \in Seq(HostMessages) /\ After(toHost, n, toHost') /\ Called' = Called
  BY <1>1, <1>3, Sends DEF Shapes, Called
<1> HIDE DEF n
<1>5. Shapes'
  <2>1. \A i \in DOMAIN toHost' : DOMAIN toHost'[i].states \subseteq Called'
    BY <1>2, <1>3, <1>4 DEF Shapes, After
  <2> QED BY <1>1, <1>4, <2>1 DEF Shapes
<1>6. \E m \in Models : page'[widget] = GetState[widget[2]][m]
  <2>0. SliderId # DropdownId
    BY IdsApart
  <2>1. PICK m \in Models : page[widget] = GetState[widget[2]][m]
    BY DEF Pages
  <2>2. CASE widget[2] = SliderId
    <3>1. PICK v \in Values : state = [value |-> Num(v)]
      BY <2>2 DEF Moves
    <3>2. page[widget] = GetSliderState[m]
      BY <2>1, <2>2, StatesAre
    <3>3. /\ [m EXCEPT !.value = v] \in Models
          /\ Merge(GetSliderState[m], state) = GetSliderState[[m EXCEPT !.value = v]]
      BY <3>1, Edited
    <3>4. page'[widget] = GetState[widget[2]][[m EXCEPT !.value = v]]
      BY <1>1, <2>2, <3>2, <3>3, StatesAre
    <3> QED BY <3>3, <3>4
  <2>3. CASE widget[2] = DropdownId
    <3>1. PICK i \in Indexes : state = [index |-> i]
      BY <2>0, <2>3 DEF Moves
    <3>2. page[widget] = GetDropdownState[m]
      BY <2>1, <2>3, StatesAre
    <3>3. /\ [m EXCEPT !.index = i] \in Models
          /\ Merge(GetDropdownState[m], state) = GetDropdownState[[m EXCEPT !.index = i]]
      BY <3>1, Edited
    <3>4. page'[widget] = GetState[widget[2]][[m EXCEPT !.index = i]]
      BY <1>1, <2>3, <3>2, <3>3, StatesAre
    <3> QED BY <3>3, <3>4
  <2> QED BY <2>2, <2>3
<1>7. Pages'
  BY <1>1, <1>6 DEF Pages
<1>8. Companionship'
  BY <1>1 DEF Companionship
<1>9. Presence'
  BY <1>1, <1>4 DEF Presence, After
<1>10. Currency'
  <2>1. \A c : <<c, SummaryId>> # widget /\ <<c, DownloadId>> # widget
    BY IdsApart
  <2> QED BY <1>1, <2>1 DEF Currency, Latest
<1> QED BY <1>5, <1>7, <1>8, <1>9, <1>10

LEMMA ReloadKeeps ==
  ASSUME LiveInv, Reload
  PROVE  LiveInv'
<1> DEFINE n == Asking(open)
<1> USE DEF LiveInv
<1>1. /\ UNCHANGED <<model, wires, downloadAt, cut, open, resolvable>>
      /\ toHost' = Append(toHost, n) /\ page' = << >> /\ toPage' = << >>
      /\ events < MaxEvents /\ events' = events + 1 /\ events \in Nat /\ MaxEvents \in Nat
      /\ wires \in Nat /\ wires <= events
  BY DashboardAssumption DEF Reload, hostVars, Asking, Event, Shapes
<1>2. open \in SUBSET Widgets /\ open \subseteq Called
  BY CalledAre DEF Shapes
<1>3. n \in HostMessages /\ n.type = "request_state" /\ DOMAIN n.states = open
  BY <1>2, AskingSent
<1>4. toHost' \in Seq(HostMessages) /\ After(toHost, n, toHost') /\ Called' = Called
  BY <1>1, <1>3, Sends DEF Shapes, Called
<1> HIDE DEF n
<1>5. DOMAIN page' = {} /\ DOMAIN toPage' = {} /\ toPage' \in Seq(PageMessages)
  BY <1>1
<1>6. Shapes'
  <2>1. \A i \in DOMAIN toHost' : DOMAIN toHost'[i].states \subseteq Called'
    BY <1>2, <1>3, <1>4 DEF Shapes, After
  <2>2. wires' <= events' /\ events' \in 0 .. MaxEvents
    BY <1>1
  <2> QED BY <1>1, <1>2, <1>4, <1>5, <2>1, <2>2 DEF Shapes
<1>7. Pages' /\ Currency'
  BY <1>1, <1>5 DEF Pages, Currency, Latest, Newest
<1>8. Companionship'
  BY <1>1 DEF Companionship
<1>9. Presence'
  BY <1>1, <1>3, <1>4, <1>5 DEF Presence, After, About, ClosesIn
<1> QED BY <1>6, <1>7, <1>8, <1>9

\* Nothing was ever wired, or all of it went with the kernel.
Blank ==
  /\ model = Initial /\ wires = 0 /\ downloadAt = 0 /\ cut = FALSE
  /\ open = {} /\ resolvable = {} /\ page = << >>
  /\ toPage = << >> /\ toHost = << >> /\ events = 0

LEMMA BlankLive == Blank => LiveInv
<1> SUFFICES ASSUME Blank PROVE LiveInv
  OBVIOUS
<1>1. DOMAIN page = {} /\ DOMAIN toPage = {} /\ DOMAIN toHost = {} /\ open = {} /\ resolvable = {}
  BY DEF Blank
<1>2. toPage \in Seq(PageMessages) /\ toHost \in Seq(HostMessages)
  BY DEF Blank
<1>3. Shapes
  <2>1. /\ wires \in Nat /\ wires <= events /\ events \in 0 .. MaxEvents /\ downloadAt \in 0 .. wires
        /\ cut \in BOOLEAN /\ resolvable \subseteq 1 .. wires /\ model \in Models
    <3>1. MaxEvents \in Nat
      BY DashboardAssumption
    <3>2. model \in Models
      BY InitialAssumption DEF Blank
    <3>3. wires = 0 /\ events = 0 /\ downloadAt = 0 /\ resolvable = {}
      BY DEF Blank
    <3>4. cut \in BOOLEAN
      BY DEF Blank
    <3>5. /\ wires \in Nat /\ wires <= events /\ events \in 0 .. MaxEvents /\ downloadAt \in 0 .. wires
          /\ resolvable \subseteq 1 .. wires
      BY <3>1, <3>3
    <3> QED BY <3>2, <3>4, <3>5
  <2> QED BY <1>1, <1>2, <2>1 DEF Shapes
<1>4. Pages /\ Companionship /\ Presence /\ Currency
  BY <1>1 DEF Pages, Companionship, Presence, Currency
<1> QED BY <1>3, <1>4 DEF LiveInv

LEMMA RestartLive ==
  ASSUME NEW widget, DownloadAndRestart(widget)
  PROVE  LiveInv'
<1>1. Blank'
  BY DEF DownloadAndRestart, Blank
<1> QED BY <1>1, BlankLive, PTL

LEMMA LiveStays ==
  ASSUME LiveInv, UNCHANGED live
  PROVE  LiveInv'
<1> USE DEF live
<1>1. Called' = Called
  BY DEF Called
<1>2. Shapes'
  BY <1>1 DEF LiveInv, Shapes
<1>3. Pages' /\ Companionship' /\ Presence' /\ Currency'
  BY DEF LiveInv, Pages, Companionship, Presence, Currency, Latest
<1> QED BY <1>2, <1>3 DEF LiveInv
-----------------------------------------------------------------------------
(***************************************************************************)
(* The steps of the session that has the file.                             *)
(***************************************************************************)
LEMMA ListGrows ==
  ASSUME NEW s, IsList(s), NEW x
  PROVE  LET r == Append(s, x) IN
         /\ IsList(r) /\ Len(s) \in Nat /\ Len(r) = Len(s) + 1
         /\ \A i \in 1 .. Len(s) : r[i] = s[i]
         /\ r[Len(s) + 1] = x
<1> DEFINE S == ToSet(s) \cup {x}
           r == Append(s, x)
           n == Len(s)
<1>1. s \in Seq(ToSet(s))
  BY DEF IsList
<1>2. ToSet(s) \subseteq S /\ x \in S
  OBVIOUS
<1> HIDE DEF S
<1>3. s \in Seq(S)
  BY <1>1, <1>2
<1>4. /\ r \in Seq(S) /\ n \in Nat /\ Len(r) = n + 1 /\ DOMAIN r = 1 .. n + 1
      /\ \A i \in 1 .. n : r[i] = s[i]
      /\ r[n + 1] = x
  BY <1>2, <1>3
<1> HIDE DEF r, n
<1>5. r = [i \in 1 .. n + 1 |-> r[i]] /\ \A i \in 1 .. n + 1 : r[i] \in ToSet(r)
  BY <1>4 DEF ToSet
<1>6. r \in Seq(ToSet(r))
  BY <1>4, <1>5
<1> QED BY <1>4, <1>6 DEF IsList, r, n

\* The uuid that is drawn next is a new one.
LEMMA UuidIsNew ==
  ASSUME NEW n \in Nat, n < MaxTrees
  PROVE  /\ Drawn(n + 1) = Drawn(n) \cup {<<Roots[n + 1]>>}
         /\ <<Roots[n + 1]>> \notin Drawn(n)
<1>1. MaxTrees \in 0 .. Len(Roots) /\ Roots \in Seq(STRING) /\ Len(Roots) \in Nat
  BY DashboardAssumption
<1>2. n + 1 \in DOMAIN Roots /\ \A i \in 1 .. n : i \in DOMAIN Roots /\ i # n + 1
  BY <1>1
<1>3. \A i \in 1 .. n : Roots[i] # Roots[n + 1]
  BY <1>2, DashboardAssumption DEF IsInjective
<1>4. Roots[n + 1] \in ToSet(Roots)
  BY <1>2 DEF ToSet
<1>5. Roots[n + 1] # "slider" /\ Roots[n + 1] # "dropdown"
  BY <1>4, DashboardAssumption
<1>6. 1 .. n + 1 = 1 .. n \cup {n + 1}
  OBVIOUS
<1>7. \A a, b : <<a>> = <<b>> => a = b
  OBVIOUS
<1> QED BY <1>3, <1>5, <1>6, <1>7 DEF Drawn, LiveHeads

\* A tree of entries that were made, of which the roots have been drawn.
LEMMA AddKeeps ==
  ASSUME SessionOf(fresh), NEW entries, NEW parts, NEW twice \in BOOLEAN,
         Add(entries, parts, twice),
         Made(entries), entries # << >>, parts = HeadsOf(entries),
         parts \subseteq Drawn(Len(fresh.trees) + 1), twice <=> ~Distinct(entries)
  PROVE  SessionOf(fresh')
<1> DEFINE n == Len(fresh.trees)
           t == Tree(entries, parts, twice)
           r == Append(fresh.trees, t)
<1>1. fresh' = [fresh EXCEPT !.trees = r] /\ n < MaxTrees
  BY DEF Add, Step
<1>2. /\ fresh = [doc |-> fresh.doc, loaded |-> fresh.loaded, trees |-> fresh.trees]
      /\ IsList(fresh.trees)
  BY DEF SessionOf
<1>3. /\ fresh' = [doc |-> fresh'.doc, loaded |-> fresh'.loaded, trees |-> fresh'.trees]
      /\ fresh'.doc = fresh.doc /\ fresh'.loaded = fresh.loaded /\ fresh'.trees = r
  BY <1>1, <1>2
<1>4. /\ IsList(r) /\ n \in Nat /\ Len(r) = n + 1
      /\ \A i \in 1 .. n : r[i] = fresh.trees[i]
      /\ r[n + 1] = t
  BY <1>2, ListGrows
<1>5. MaxTrees \in Nat
  BY DashboardAssumption
<1>6. Drawn(n) \subseteq Drawn(n + 1)
  BY <1>1, <1>4, UuidIsNew
<1>7. TreeInv(t, n + 1)
  <2>1. t.entries = entries /\ t.parts = parts /\ t.twice = twice
    BY DEF Tree
  <2> QED BY <2>1 DEF TreeInv
<1>8. \A i \in 1 .. n : TreeInv(fresh.trees[i], n)
  BY DEF SessionOf
<1> HIDE DEF n, t, r
<1>9. \A i \in 1 .. n + 1 : TreeInv(r[i], n + 1)
  <2>1. \A i \in 1 .. n : TreeInv(r[i], n + 1)
    BY <1>4, <1>6, <1>8 DEF TreeInv
  <2>2. \A i \in 1 .. n + 1 : i \in 1 .. n \/ i = n + 1
    BY <1>4
  <2> QED BY <1>4, <1>7, <2>1, <2>2
<1>10. /\ fresh.doc = [major |-> fresh.doc.major, shape |-> fresh.doc.shape, records |-> fresh.doc.records]
       /\ Filed(fresh.doc.records) /\ HeadsOf(Read(fresh.doc.records)) \subseteq Drawn(n)
       /\ fresh.loaded # << >> =>
            Made(fresh.loaded) /\ Distinct(fresh.loaded) /\ HeadsOf(fresh.loaded) \subseteq Drawn(n)
  BY DEF SessionOf, n
<1>11. n + 1 <= MaxTrees
  BY <1>1, <1>4, <1>5 DEF n
<1> QED BY <1>3, <1>4, <1>6, <1>9, <1>10, <1>11 DEF SessionOf

LEMMA HeadsOfControl ==
  ASSUME NEW kind \in {"int_slider", "dropdown"}, NEW r, NEW overrides,
         \A k \in DOMAIN overrides : ~Is("bin", overrides[k]) /\ Bounded(overrides[k], {}),
         DOMAIN overrides \cap Named = {}
  PROVE  HeadsOf(Build(kind, <<r>>, overrides)) = {<<r>>}
<1>1. IdsOf(Build(kind, <<r>>, overrides)) = {<<r>>, <<r, "style">>, <<r, "layout">>}
  BY ControlMade
<1>2. <<r>>[1] = r /\ <<r, "style">>[1] = r /\ <<r, "layout">>[1] = r
  OBVIOUS
<1> QED BY <1>1, <1>2 DEF HeadsOf

LEMMA SliderPlain ==
  ASSUME NEW v
  PROVE  \A k \in DOMAIN [value |-> Num(v)] :
           ~Is("bin", [value |-> Num(v)][k]) /\ Bounded([value |-> Num(v)][k], {})
  BY Plains DEF Plain, Bounded

LEMMA AddSliderKeeps ==
  ASSUME SessionOf(fresh), AddSlider
  PROVE  SessionOf(fresh')
<1> DEFINE n == Len(fresh.trees)
           r == Roots[n + 1]
           o == [value |-> Num(model.value)]
           entries == Build("int_slider", <<r>>, o)
<1>1. Add(entries, {<<r>>}, FALSE) /\ n < MaxTrees
  BY DEF AddSlider, IntSlider, Uuid, Add
<1>2. n \in Nat
  BY ListGrows DEF SessionOf
<1>3. (\A k \in DOMAIN o : ~Is("bin", o[k]) /\ Bounded(o[k], {})) /\ DOMAIN o \cap Named = {}
  BY SliderPlain DEF Named
<1> HIDE DEF o, r
<1>4. Made(entries) /\ Distinct(entries) /\ entries # << >> /\ HeadsOf(entries) = {<<r>>}
  BY <1>3, ControlMade, HeadsOfControl
<1>5. {<<r>>} \subseteq Drawn(n + 1)
  BY <1>1, <1>2, UuidIsNew DEF r
<1> HIDE DEF entries
<1> QED BY <1>1, <1>4, <1>5, AddKeeps

LEMMA DropdownPlain ==
  ASSUME NEW labels, NEW index, index = None \/ \E x : index = Num(x), NEW value
  PROVE  LET o == [_options_labels |-> List([i \in DOMAIN labels |-> Text(labels[i])]),
                   index |-> IF index # None THEN index ELSE IndexOf(labels, value)] IN
         \A k \in DOMAIN o : ~Is("bin", o[k]) /\ Bounded(o[k], {})
<1> DEFINE texts == [i \in DOMAIN labels |-> Text(labels[i])]
           ix == IF index # None THEN index ELSE IndexOf(labels, value)
<1>1. \A x \in ToSet(texts) : Plain(x)
  BY Plains DEF ToSet
<1> HIDE DEF texts
<1>2. ~Is("bin", List(texts)) /\ Bounded(List(texts), {})
  BY <1>1, Plains DEF Bounded, Plain
<1>3. IndexOf(labels, value) = None \/ \E x : IndexOf(labels, value) = Num(x)
  BY DEF IndexOf
<1>4. Plain(ix)
  BY <1>3, Plains
<1>5. ~Is("bin", ix) /\ Bounded(ix, {})
  BY <1>4 DEF Plain, Bounded
<1> HIDE DEF ix
<1> QED BY <1>2, <1>5 DEF texts, ix

LEMMA AddDropdownKeeps ==
  ASSUME SessionOf(fresh), AddDropdown
  PROVE  SessionOf(fresh')
<1>1. PICK value : ~Alive /\ Add(Dropdown(Uuid, Labels, None, value), {Uuid}, FALSE)
  BY DEF AddDropdown
<1> DEFINE n == Len(fresh.trees)
           r == Roots[n + 1]
           o == [_options_labels |-> List([i \in DOMAIN Labels |-> Text(Labels[i])]),
                 index |-> IF None # None THEN None ELSE IndexOf(Labels, value)]
           entries == Build("dropdown", <<r>>, o)
<1>2. Add(entries, {<<r>>}, FALSE) /\ n < MaxTrees
  BY <1>1 DEF Dropdown, Uuid, Add
<1>3. n \in Nat
  BY ListGrows DEF SessionOf
<1>4. (\A k \in DOMAIN o : ~Is("bin", o[k]) /\ Bounded(o[k], {})) /\ DOMAIN o \cap Named = {}
  BY DropdownPlain DEF Named
<1> HIDE DEF o, r
<1>5. Made(entries) /\ Distinct(entries) /\ entries # << >> /\ HeadsOf(entries) = {<<r>>}
  BY <1>4, ControlMade, HeadsOfControl
<1>6. {<<r>>} \subseteq Drawn(n + 1)
  BY <1>2, <1>3, UuidIsNew DEF r
<1> HIDE DEF entries
<1> QED BY <1>2, <1>5, <1>6, AddKeeps

\* A single entry that refers to nothing, and has no identity but its model's.
LEMMA SingleMade ==
  ASSUME NEW r, NEW state, IsState(state), Binaries(state) \cap ModelFields = {}, References(state) = {},
         Classed(state)
  PROVE  LET entries == <<Entry(<<r>>, state)>> IN
         /\ Made(entries) /\ Distinct(entries) /\ entries # << >> /\ HeadsOf(entries) = {<<r>>}
<1> DEFINE e == Entry(<<r>>, state)
           entries == <<e>>
<1>1. Formed(e) /\ Id(e) = <<r>> /\ e.state = state
  BY DEF Formed, Entry, Id
<1> HIDE DEF e
<1>2. DOMAIN entries = {1} /\ entries[1] = e /\ entries \in Seq({e}) /\ entries # << >>
  OBVIOUS
<1>3. ToSet(entries) = {e}
  BY <1>2 DEF ToSet
<1> HIDE DEF entries
<1>4. IdsOf(entries) = {<<r>>} /\ <<r>>[1] = r /\ <<r>> # << >>
  BY <1>1, <1>2 DEF IdsOf
<1>5. Made(entries)
  BY <1>1, <1>2, <1>3, <1>4 DEF Made, IsList, Rooted, Closed
<1>6. Distinct(entries)
  BY <1>2 DEF Distinct, IsInjective
<1>7. HeadsOf(entries) = {<<r>>}
  BY <1>4 DEF HeadsOf
<1> QED BY <1>2, <1>5, <1>6, <1>7 DEF entries, e

LEMMA AddPlotKeeps ==
  ASSUME SessionOf(fresh), AddPlot
  PROVE  SessionOf(fresh')
<1>1. PICK type : Add(<<Entry(Uuid, [data |-> Bin("points", type)])>>, {Uuid}, FALSE)
  BY DEF AddPlot
<1> DEFINE n == Len(fresh.trees)
           r == Roots[n + 1]
           state == [data |-> Bin("points", type)]
           entries == <<Entry(<<r>>, state)>>
<1>2. Add(entries, {<<r>>}, FALSE) /\ n < MaxTrees
  BY <1>1 DEF Uuid, Add
<1>3. n \in Nat
  BY ListGrows DEF SessionOf
<1>4. IsState(state) /\ Binaries(state) \cap ModelFields = {} /\ Classed(state)
  BY DEF IsState, Binaries, ModelFields, Classed
<1>5. \A k \in DOMAIN state : Bounded(state[k], {})
  BY Plains DEF Bounded
<1> HIDE DEF state, r
<1>6. References(state) = {}
  BY <1>5, RefsBounded
<1>7. Made(entries) /\ Distinct(entries) /\ entries # << >> /\ HeadsOf(entries) = {<<r>>}
  BY <1>4, <1>6, SingleMade
<1>8. {<<r>>} \subseteq Drawn(n + 1)
  BY <1>2, <1>3, UuidIsNew DEF r
<1> HIDE DEF entries
<1> QED BY <1>2, <1>7, <1>8, AddKeeps

LEMMA AddLoadedKeeps ==
  ASSUME SessionOf(fresh), AddLoaded
  PROVE  SessionOf(fresh')
<1> DEFINE n == Len(fresh.trees)
           parts == {<<Id(e)[1]>> : e \in ToSet(fresh.loaded)}
<1>1. /\ fresh.loaded # << >> /\ Add(fresh.loaded, parts, FALSE) /\ n < MaxTrees
  BY DEF AddLoaded, Add
<1>2. n \in Nat /\ Made(fresh.loaded) /\ Distinct(fresh.loaded) /\ HeadsOf(fresh.loaded) \subseteq Drawn(n)
  BY <1>1, ListGrows DEF SessionOf
<1>3. parts = HeadsOf(fresh.loaded)
  BY DEF HeadsOf, IdsOf, ToSet
<1> HIDE DEF parts
<1>4. parts \subseteq Drawn(n + 1)
  BY <1>1, <1>2, <1>3, UuidIsNew
<1> QED BY <1>1, <1>2, <1>3, <1>4, AddKeeps

\* Two trees share an entry exactly if they share a root.
LEMMA HeadsShared ==
  ASSUME NEW s, NEW t, Made(s), Made(t)
  PROVE  HeadsOf(s) \cap HeadsOf(t) = {} <=> IdsOf(s) \cap IdsOf(t) = {}
<1>1. HeadsOf(s) \subseteq IdsOf(s) /\ HeadsOf(t) \subseteq IdsOf(t)
  BY DEF Made, Rooted, HeadsOf
<1>2. \A id \in IdsOf(s) \cap IdsOf(t) : <<id[1]>> \in HeadsOf(s) \cap HeadsOf(t)
  BY DEF HeadsOf
<1> QED BY <1>1, <1>2

LEMMA FirstIn ==
  ASSUME NEW entries, IsList(entries), entries # << >>
  PROVE  Id(entries[1]) \in IdsOf(entries)
<1>1. entries \in Seq(ToSet(entries))
  BY DEF IsList
<1>2. 1 \in DOMAIN entries
  BY <1>1
<1> QED BY <1>2 DEF IdsOf

LEMMA BoxAdded ==
  ASSUME NEW kind \in {"vbox", "hbox"}, NEW n \in Nat, n < MaxTrees, NEW children,
         Made(FlattenSeq(children)), HeadsOf(FlattenSeq(children)) \subseteq Drawn(n),
         \A i \in DOMAIN children : Id(children[i][1]) \in IdsOf(FlattenSeq(children))
  PROVE  LET rest == FlattenSeq(children)
             root == <<Roots[n + 1]>>
             entries == Box(kind, root, children) IN
         /\ Made(entries) /\ entries # << >> /\ (Distinct(entries) <=> Distinct(rest))
         /\ HeadsOf(entries) = {root} \cup HeadsOf(rest) /\ HeadsOf(entries) \subseteq Drawn(n + 1)
<1> DEFINE rest == FlattenSeq(children)
           r == Roots[n + 1]
           refs == [i \in DOMAIN children |-> Ref(Id(children[i][1]))]
           o == [children |-> List(refs)]
           entries == Build(kind, <<r>>, o) \o rest
<1>1. Box(kind, <<r>>, children) = entries
  BY DEF Box
<1>2. \A x \in ToSet(refs) : ~Is("list", x) /\ (Is("ref", x) => x.ref \in IdsOf(rest))
  BY Plains DEF ToSet
<1> HIDE DEF refs, rest
<1>3. ~Is("bin", List(refs)) /\ Bounded(List(refs), IdsOf(rest))
  BY <1>2, Plains DEF Bounded
<1>4. (\A k \in DOMAIN o : ~Is("bin", o[k]) /\ Bounded(o[k], IdsOf(rest))) /\ DOMAIN o \cap Named = {}
  BY <1>3 DEF Named
<1> HIDE DEF o
<1>5. Drawn(n + 1) = Drawn(n) \cup {<<r>>} /\ <<r>> \notin Drawn(n)
  BY UuidIsNew
<1>6. HeadsOf(rest) \subseteq Drawn(n) /\ Made(rest)
  BY DEF rest
<1> HIDE DEF r
<1>7. <<r>> \notin IdsOf(rest)
  <2>1. <<r>>[1] = r
    OBVIOUS
  <2> QED BY <1>5, <1>6, <2>1 DEF HeadsOf
<1>8. /\ Made(entries) /\ (Distinct(entries) <=> Distinct(rest)) /\ entries # << >>
      /\ IdsOf(entries) = {<<r>>, <<r, "layout">>} \cup IdsOf(rest)
  BY <1>4, <1>6, <1>7, BoxMade
<1> HIDE DEF entries
<1>9. HeadsOf(entries) = {<<r>>} \cup HeadsOf(rest)
  <2>1. <<r>>[1] = r /\ <<r, "layout">>[1] = r
    OBVIOUS
  <2> QED BY <1>8, <2>1 DEF HeadsOf
<1> QED BY <1>1, <1>5, <1>6, <1>8, <1>9 DEF rest, r

LEMMA AddVBoxKeeps ==
  ASSUME SessionOf(fresh), NEW i \in DOMAIN fresh.trees, AddBox("vbox", <<i>>)
  PROVE  SessionOf(fresh')
<1> DEFINE n == Len(fresh.trees)
           t == fresh.trees[i]
           children == <<t.entries>>
           root == <<Roots[n + 1]>>
           entries == Box("vbox", root, children)
           parts == {root} \cup t.parts
<1>1. DOMAIN <<i>> = {1} /\ <<i>>[1] = i
  OBVIOUS
<1>2. [k \in DOMAIN <<i>> |-> fresh.trees[<<i>>[k]].entries] = children
  BY <1>1
<1>3. UNION {fresh.trees[<<i>>[k]].parts : k \in DOMAIN <<i>>} = t.parts
  BY <1>1
<1>4. (\E k, l \in DOMAIN <<i>> :
         \/ fresh.trees[<<i>>[k]].twice
         \/ k # l /\ fresh.trees[<<i>>[k]].parts \cap fresh.trees[<<i>>[l]].parts # {}) <=> t.twice
  BY <1>1
<1>5. n \in Nat /\ TreeInv(t, n) /\ t.twice \in BOOLEAN
  <2>1. n \in Nat /\ DOMAIN fresh.trees = 1 .. n
    BY ListGrows DEF SessionOf, IsList
  <2>2. TreeInv(t, n)
    BY <2>1 DEF SessionOf
  <2> QED BY <2>1, <2>2 DEF TreeInv
<1>6. n < MaxTrees
  BY DEF AddBox, Add
<1>7. \E twice \in BOOLEAN : (twice <=> t.twice) /\ Add(entries, parts, twice)
  BY <1>2, <1>3, <1>4 DEF AddBox, Uuid
<1>8. FlattenSeq(children) = t.entries /\ DOMAIN children = {1} /\ children[1] = t.entries
  BY FlattenOne
<1> HIDE DEF children, t, n
<1>9. /\ Made(t.entries) /\ t.entries # << >> /\ HeadsOf(t.entries) \subseteq Drawn(n)
      /\ t.parts = HeadsOf(t.entries) /\ (t.twice <=> ~Distinct(t.entries))
  BY <1>5 DEF TreeInv
<1>10. \A k \in DOMAIN children : Id(children[k][1]) \in IdsOf(t.entries)
  BY <1>8, <1>9, FirstIn DEF Made
<1>11. /\ Made(entries) /\ entries # << >> /\ (Distinct(entries) <=> Distinct(t.entries))
       /\ HeadsOf(entries) = parts /\ HeadsOf(entries) \subseteq Drawn(n + 1)
  BY <1>5, <1>6, <1>8, <1>9, <1>10, BoxAdded
<1> HIDE DEF entries, parts
<1>12. PICK twice \in BOOLEAN : (twice <=> t.twice) /\ Add(entries, parts, twice)
  BY <1>7
<1> QED BY <1>9, <1>11, <1>12, AddKeeps DEF n

LEMMA AddHBoxKeeps ==
  ASSUME SessionOf(fresh), NEW i \in DOMAIN fresh.trees, NEW j \in DOMAIN fresh.trees,
         AddBox("hbox", <<i, j>>)
  PROVE  SessionOf(fresh')
<1> DEFINE n == Len(fresh.trees)
           t == fresh.trees[i]
           u == fresh.trees[j]
           children == <<t.entries, u.entries>>
           root == <<Roots[n + 1]>>
           entries == Box("hbox", root, children)
           parts == {root} \cup (t.parts \cup u.parts)
           shared == t.parts \cap u.parts # {}
<1>1. DOMAIN <<i, j>> = {1, 2} /\ <<i, j>>[1] = i /\ <<i, j>>[2] = j
  OBVIOUS
<1>2. [k \in DOMAIN <<i, j>> |-> fresh.trees[<<i, j>>[k]].entries] = children
  BY <1>1
<1>3. UNION {fresh.trees[<<i, j>>[k]].parts : k \in DOMAIN <<i, j>>} = t.parts \cup u.parts
  BY <1>1
<1>4. (\E k, l \in DOMAIN <<i, j>> :
         \/ fresh.trees[<<i, j>>[k]].twice
         \/ k # l /\ fresh.trees[<<i, j>>[k]].parts \cap fresh.trees[<<i, j>>[l]].parts # {})
      <=> t.twice \/ u.twice \/ shared
  BY <1>1
<1>5. n \in Nat /\ TreeInv(t, n) /\ TreeInv(u, n) /\ t.twice \in BOOLEAN /\ u.twice \in BOOLEAN
  <2>1. n \in Nat /\ DOMAIN fresh.trees = 1 .. n
    BY ListGrows DEF SessionOf, IsList
  <2>2. TreeInv(t, n) /\ TreeInv(u, n)
    BY <2>1 DEF SessionOf
  <2> QED BY <2>1, <2>2 DEF TreeInv
<1>6. n < MaxTrees
  BY DEF AddBox, Add
<1>7. \E twice \in BOOLEAN : (twice <=> t.twice \/ u.twice \/ shared) /\ Add(entries, parts, twice)
  BY <1>2, <1>3, <1>4 DEF AddBox, Uuid
<1>8. /\ FlattenSeq(children) = t.entries \o u.entries /\ DOMAIN children = {1, 2}
      /\ children[1] = t.entries /\ children[2] = u.entries
  <2> HIDE DEF t, u
  <2>1. FlattenSeq(children) = t.entries \o u.entries
    BY FlattenTwo
  <2>2. DOMAIN children = {1, 2} /\ children[1] = t.entries /\ children[2] = u.entries
    OBVIOUS
  <2> QED BY <2>1, <2>2
<1> HIDE DEF children, t, u, n
<1>9. /\ Made(t.entries) /\ t.entries # << >> /\ HeadsOf(t.entries) \subseteq Drawn(n)
      /\ t.parts = HeadsOf(t.entries) /\ (t.twice <=> ~Distinct(t.entries))
      /\ Made(u.entries) /\ u.entries # << >> /\ HeadsOf(u.entries) \subseteq Drawn(n)
      /\ u.parts = HeadsOf(u.entries) /\ (u.twice <=> ~Distinct(u.entries))
  <2>1. /\ Made(t.entries) /\ t.entries # << >> /\ HeadsOf(t.entries) \subseteq Drawn(n)
        /\ t.parts = HeadsOf(t.entries) /\ (t.twice <=> ~Distinct(t.entries))
    BY <1>5 DEF TreeInv
  <2>2. /\ Made(u.entries) /\ u.entries # << >> /\ HeadsOf(u.entries) \subseteq Drawn(n)
        /\ u.parts = HeadsOf(u.entries) /\ (u.twice <=> ~Distinct(u.entries))
    BY <1>5 DEF TreeInv
  <2> QED BY <2>1, <2>2
<1> DEFINE rest == t.entries \o u.entries
<1>10. IdsOf(rest) = IdsOf(t.entries) \cup IdsOf(u.entries)
  BY <1>9, Concatenated DEF Made
<1>11. HeadsOf(rest) = HeadsOf(t.entries) \cup HeadsOf(u.entries)
  BY <1>10 DEF HeadsOf
<1>12. Made(rest)
  BY <1>9, MadeConcat
<1>13. Distinct(rest) <=> ~(t.twice \/ u.twice \/ shared)
  BY <1>9, DistinctConcat, HeadsShared DEF Made
<1>14. \A k \in DOMAIN children : Id(children[k][1]) \in IdsOf(rest)
  BY <1>8, <1>9, <1>10, FirstIn DEF Made
<1> HIDE DEF rest
<1>15. /\ Made(entries) /\ entries # << >> /\ (Distinct(entries) <=> Distinct(rest))
       /\ HeadsOf(entries) = parts /\ HeadsOf(entries) \subseteq Drawn(n + 1)
  <2>1. rest = FlattenSeq(children) /\ HeadsOf(rest) \subseteq Drawn(n)
    BY <1>8, <1>9, <1>11 DEF rest
  <2>2. /\ Made(entries) /\ entries # << >> /\ (Distinct(entries) <=> Distinct(rest))
        /\ HeadsOf(entries) = {root} \cup HeadsOf(rest) /\ HeadsOf(entries) \subseteq Drawn(n + 1)
    <3> HIDE DEF rest
    <3> QED BY <1>5, <1>6, <1>12, <1>14, <2>1, BoxAdded
  <2> QED BY <1>9, <1>11, <2>2
<1> HIDE DEF entries, parts, shared
<1>16. PICK twice \in BOOLEAN : (twice <=> t.twice \/ u.twice \/ shared) /\ Add(entries, parts, twice)
  BY <1>7
<1> QED BY <1>13, <1>15, <1>16, AddKeeps DEF n

LEMMA LoadKeeps ==
  ASSUME SessionOf(fresh), Load
  PROVE  /\ SessionOf(fresh') /\ fresh'.doc = fresh.doc
         /\ DumpDocument(fresh'.loaded) = fresh.doc
<1> DEFINE d == fresh.doc
           records == d.records
           read == Read(records)
<1>1. /\ fresh = [doc |-> fresh.doc, loaded |-> fresh.loaded, trees |-> fresh.trees]
      /\ d = [major |-> d.major, shape |-> d.shape, records |-> records]
      /\ Filed(records) /\ HeadsOf(read) \subseteq Drawn(Len(fresh.trees))
  BY DEF SessionOf
<1>2. Readable(d) /\ fresh' = [fresh EXCEPT !.loaded = LoadDocument(d)]
  BY DEF Load, Step
<1>3. LoadDocument(d) = read
  BY <1>2 DEF LoadDocument, Read
<1>4. d.major = 2 /\ d.shape = "mapping"
  BY <1>2 DEF Readable
<1>5. /\ Made(read) /\ Distinct(read) /\ read # << >>
      /\ IsState(records) /\ \A i \in DOMAIN records : DumpModel(LoadModel(records[i])) = records[i]
  BY <1>1 DEF Filed
<1>6. /\ fresh' = [doc |-> fresh'.doc, loaded |-> fresh'.loaded, trees |-> fresh'.trees]
      /\ fresh'.doc = d /\ fresh'.loaded = read /\ fresh'.trees = fresh.trees
  BY <1>1, <1>2, <1>3
<1>7. DumpDocument(read) = d
  <2>1. DumpDocument(read) = Document(Dumped(read))
    BY <1>5, MadeDumpable
  <2>2. Dumped(read) = records
    BY <1>5 DEF Dumped, Read, IsState
  <2> HIDE DEF d, records
  <2> QED BY <1>1, <1>4, <2>1, <2>2 DEF Document
<1>8. SessionOf(fresh')
  <2> HIDE DEF read
  <2>1. /\ IsList(fresh.trees) /\ Len(fresh.trees) <= MaxTrees
        /\ \A i \in 1 .. Len(fresh.trees) : TreeInv(fresh.trees[i], Len(fresh.trees))
    BY DEF SessionOf
  <2> QED BY <1>1, <1>5, <1>6, <2>1 DEF SessionOf, read
<1> QED BY <1>6, <1>7, <1>8

LEMMA DumpKeeps ==
  ASSUME SessionOf(fresh), NEW i \in DOMAIN fresh.trees, Dump(fresh.trees[i])
  PROVE  SessionOf(fresh')
<1> DEFINE n == Len(fresh.trees)
           t == fresh.trees[i]
           records == Dumped(t.entries)
<1>1. fresh = [doc |-> fresh.doc, loaded |-> fresh.loaded, trees |-> fresh.trees]
  BY DEF SessionOf
<1>2. DumpDocument(t.entries) # Raised /\ fresh' = [fresh EXCEPT !.doc = DumpDocument(t.entries)]
  BY DEF Dump, Step
<1>3. TreeInv(t, n)
  <2>1. DOMAIN fresh.trees = 1 .. n
    BY DEF SessionOf, IsList
  <2> QED BY <2>1 DEF SessionOf
<1> HIDE DEF t, n
<1>4. Made(t.entries) /\ t.entries # << >> /\ HeadsOf(t.entries) \subseteq Drawn(n)
  BY <1>3 DEF TreeInv
<1>5. Distinct(t.entries)
  BY <1>2, <1>4, MadeDumpable
<1>6. /\ DumpDocument(t.entries) = Document(records) /\ Filed(records)
      /\ IdsOf(Read(records)) = IdsOf(t.entries)
  BY <1>4, <1>5, DumpFiled
<1> HIDE DEF records
<1>7. HeadsOf(Read(records)) \subseteq Drawn(n)
  BY <1>4, <1>6 DEF HeadsOf
<1>8. /\ fresh' = [doc |-> fresh'.doc, loaded |-> fresh'.loaded, trees |-> fresh'.trees]
      /\ fresh'.doc = Document(records) /\ fresh'.loaded = fresh.loaded /\ fresh'.trees = fresh.trees
  BY <1>1, <1>2, <1>6
<1>9. /\ Document(records).records = records
      /\ Document(records) = [major |-> Document(records).major, shape |-> Document(records).shape,
                              records |-> Document(records).records]
  BY DEF Document
<1>10. /\ IsList(fresh.trees) /\ Len(fresh.trees) <= MaxTrees
       /\ \A j \in 1 .. Len(fresh.trees) : TreeInv(fresh.trees[j], Len(fresh.trees))
       /\ fresh.loaded # << >> =>
            Made(fresh.loaded) /\ Distinct(fresh.loaded) /\ HeadsOf(fresh.loaded) \subseteq Drawn(n)
  BY DEF SessionOf, n
<1> QED BY <1>6, <1>7, <1>8, <1>9, <1>10 DEF SessionOf, n

LEMMA TamperKeeps ==
  ASSUME SessionOf(fresh), NEW major, NEW shape, Tamper(major, shape)
  PROVE  SessionOf(fresh')
<1> DEFINE d == fresh.doc
<1>1. /\ fresh = [doc |-> fresh.doc, loaded |-> fresh.loaded, trees |-> fresh.trees]
      /\ d = [major |-> d.major, shape |-> d.shape, records |-> d.records]
  BY DEF SessionOf
<1>2. fresh' = [fresh EXCEPT !.doc.major = major, !.doc.shape = shape]
  BY DEF Tamper, Step
<1>3. /\ fresh' = [doc |-> fresh'.doc, loaded |-> fresh'.loaded, trees |-> fresh'.trees]
      /\ fresh'.doc = [major |-> fresh'.doc.major, shape |-> fresh'.doc.shape, records |-> fresh'.doc.records]
      /\ fresh'.doc.records = d.records /\ fresh'.loaded = fresh.loaded /\ fresh'.trees = fresh.trees
  BY <1>1, <1>2
<1>4. /\ Filed(d.records) /\ HeadsOf(Read(d.records)) \subseteq Drawn(Len(fresh.trees))
      /\ fresh.loaded # << >> =>
           Made(fresh.loaded) /\ Distinct(fresh.loaded) /\ HeadsOf(fresh.loaded) \subseteq Drawn(Len(fresh.trees))
      /\ IsList(fresh.trees) /\ Len(fresh.trees) <= MaxTrees
      /\ \A i \in 1 .. Len(fresh.trees) : TreeInv(fresh.trees[i], Len(fresh.trees))
  BY DEF SessionOf
<1> HIDE DEF d
<1> QED BY <1>3, <1>4 DEF SessionOf
-----------------------------------------------------------------------------
(***************************************************************************)
(* The file: what the button holds.                                        *)
(***************************************************************************)
\* A state that may be dumped, and refers to companions only.
Harmless(state, R) ==
  /\ IsState(state) /\ Classed(state)
  /\ \A k \in DOMAIN state : ~Is("bin", state[k]) /\ Bounded(state[k], R)

LEMMA ControlHarmless ==
  ASSUME NEW kind, NEW r, NEW overrides, NEW R, <<r, "style">> \in R, <<r, "layout">> \in R,
         \A k \in DOMAIN overrides : ~Is("bin", overrides[k]) /\ Bounded(overrides[k], {}),
         kind # "AnyModel", DOMAIN overrides \cap Named = {}
  PROVE  Harmless(ControlState(kind, <<r>>, overrides), R)
<1> DEFINE st == ControlState(kind, <<r>>, overrides)
<1>1. IsState(st) /\ Classed(st)
  <2>1. IsState(st)
    BY MergedOver DEF ControlState
  <2> HIDE DEF st
  <2>2. Classed(st)
    BY ControlClassed DEF st
  <2> QED BY <2>1, <2>2
<1>2. \A k \in DOMAIN st :
        \/ k \in DOMAIN overrides /\ st[k] = overrides[k]
        \/ Plain(st[k])
        \/ st[k] \in {Ref(<<r, "style">>), Ref(<<r, "layout">>)}
  BY ControlParts, TwoLong
<1> HIDE DEF st
<1>3. \A k \in DOMAIN st : ~Is("bin", st[k]) /\ Bounded(st[k], R)
  <2> SUFFICES ASSUME NEW k \in DOMAIN st PROVE ~Is("bin", st[k]) /\ Bounded(st[k], R)
    OBVIOUS
  <2>1. CASE k \in DOMAIN overrides /\ st[k] = overrides[k]
    BY <2>1 DEF Bounded
  <2>2. CASE Plain(st[k])
    BY <2>2 DEF Plain, Bounded
  <2>3. CASE st[k] \in {Ref(<<r, "style">>), Ref(<<r, "layout">>)}
    BY <2>3, Plains DEF Bounded
  <2> QED BY <1>2, <2>1, <2>2, <2>3
<1> QED BY <1>1, <1>3 DEF Harmless, st

LEMMA MergeHarmless ==
  ASSUME NEW s, NEW t, NEW R, Harmless(s, R), \A k \in DOMAIN t : Plain(t[k]), DOMAIN t \cap Named = {}
  PROVE  Harmless(Merge(s, t), R)
<1> DEFINE m == Merge(s, t)
<1>1. /\ IsState(m) /\ DOMAIN m = DOMAIN s \cup DOMAIN t
      /\ \A k \in DOMAIN t : m[k] = t[k]
      /\ \A k \in DOMAIN s \ DOMAIN t : m[k] = s[k]
  BY MergedOver
<1> HIDE DEF m
<1>2. \A v : Plain(v) => ~Is("bin", v) /\ Bounded(v, R)
  BY DEF Plain, Bounded
<1>3. Classed(m)
  BY ClassedOver DEF m, Harmless
<1> QED BY <1>1, <1>2, <1>3 DEF Harmless, m

LEMMA IndexPlain ==
  ASSUME NEW i \in Indexes
  PROVE  (i = None \/ \E x : i = Num(x)) /\ Plain(i)
<1>1. i = None \/ \E x : i = Num(x)
  BY DashboardAssumption
<1> QED BY <1>1, Plains

LEMMA StatesHarmless ==
  ASSUME NEW m \in Models
  PROVE  /\ Harmless(GetSliderState[m], CompanionIds)
         /\ Harmless(GetDropdownState[m], CompanionIds)
         /\ Harmless(GetSummaryState[m], CompanionIds)
         /\ "value" \in DOMAIN GetSliderState[m] /\ GetSliderState[m]["value"] = Num(m.value)
         /\ "index" \in DOMAIN GetDropdownState[m] /\ GetDropdownState[m]["index"] = m.index
         /\ "text" \in DOMAIN GetSummaryState[m] /\ GetSummaryState[m]["text"] = SummaryText(m)
<1> DEFINE slider == ControlState("int_slider", <<"slider">>, SliderOverrides)
           dropdown == ControlState("dropdown", <<"dropdown">>, DropdownOverrides)
<1>1. Harmless(slider, CompanionIds)
  <2>1. \A k \in DOMAIN SliderOverrides : ~Is("bin", SliderOverrides[k]) /\ Bounded(SliderOverrides[k], {})
    BY SliderPlain DEF SliderOverrides
  <2>2. <<"slider", "style">> \in CompanionIds /\ <<"slider", "layout">> \in CompanionIds
    BY CompanionsAre
  <2>3. DOMAIN SliderOverrides \cap Named = {} /\ "int_slider" # "AnyModel"
    BY DEF SliderOverrides, Named
  <2> QED BY <2>1, <2>2, <2>3, ControlHarmless
<1>2. Harmless(dropdown, CompanionIds)
  <2>1. Initial.index = None \/ \E x : Initial.index = Num(x)
    BY InitialAssumption, IndexPlain DEF Models
  <2>2. \A k \in DOMAIN DropdownOverrides : ~Is("bin", DropdownOverrides[k]) /\ Bounded(DropdownOverrides[k], {})
    BY <2>1, DropdownPlain DEF DropdownOverrides
  <2>3. <<"dropdown", "style">> \in CompanionIds /\ <<"dropdown", "layout">> \in CompanionIds
    BY CompanionsAre
  <2>4. DOMAIN DropdownOverrides \cap Named = {} /\ "dropdown" # "AnyModel"
    BY DEF DropdownOverrides, Named
  <2> QED BY <2>2, <2>3, <2>4, ControlHarmless
<1>3. /\ GetSliderState[m] = Merge(slider, [value |-> Num(m.value)])
      /\ GetDropdownState[m] = Merge(dropdown, [index |-> m.index])
  <2>1. SliderEntries[1].state = slider
    BY ControlsBuilt, IdsApart DEF Entry
  <2>2. DropdownEntries[1].state = dropdown
    BY ControlsBuilt, IdsApart DEF Entry
  <2> QED BY <2>1, <2>2 DEF GetSliderState, GetDropdownState
<1> HIDE DEF slider, dropdown
<1>4. Harmless(GetSliderState[m], CompanionIds)
  <2>1. /\ \A k \in DOMAIN [value |-> Num(m.value)] : Plain([value |-> Num(m.value)][k])
        /\ DOMAIN [value |-> Num(m.value)] \cap Named = {}
    BY Plains DEF Named
  <2> QED BY <1>1, <1>3, <2>1, MergeHarmless
<1>5. Harmless(GetDropdownState[m], CompanionIds)
  <2>1. Plain(m.index)
    BY IndexPlain DEF Models
  <2>2. /\ \A k \in DOMAIN [index |-> m.index] : Plain([index |-> m.index][k])
        /\ DOMAIN [index |-> m.index] \cap Named = {}
    BY <2>1 DEF Named
  <2> QED BY <1>2, <1>3, <2>2, MergeHarmless
<1>6. GetSummaryState[m] = [_esm |-> Text("summary"), text |-> SummaryText(m)]
  BY DEF GetSummaryState
<1>7. Harmless(GetSummaryState[m], CompanionIds)
  <2>1. Plain(SummaryText(m)) /\ Plain(Text("summary"))
    BY Plains DEF Plain, Is, SummaryText
  <2>2. \A v : Plain(v) => ~Is("bin", v) /\ Bounded(v, CompanionIds)
    BY DEF Plain, Bounded
  <2>3. Classed(GetSummaryState[m])
    BY <1>6 DEF Classed
  <2> QED BY <1>6, <2>1, <2>2, <2>3 DEF Harmless, IsState
<1>8. \A s, v : "value" \in DOMAIN Merge(s, [value |-> v]) /\ Merge(s, [value |-> v])["value"] = v
  BY DEF Merge
<1>9. \A s, v : "index" \in DOMAIN Merge(s, [index |-> v]) /\ Merge(s, [index |-> v])["index"] = v
  BY DEF Merge
<1>10. "value" \in DOMAIN GetSliderState[m] /\ GetSliderState[m]["value"] = Num(m.value)
  BY <1>3, <1>8
<1>11. "index" \in DOMAIN GetDropdownState[m] /\ GetDropdownState[m]["index"] = m.index
  BY <1>3, <1>9
<1> QED BY <1>4, <1>5, <1>6, <1>7, <1>10, <1>11

Three(m) ==
  <<Entry(SliderId, GetSliderState[m]), Entry(DropdownId, GetDropdownState[m]),
    Entry(SummaryId, GetSummaryState[m])>>
Saved(m) == Three(m) \o CompanionEntries

LEMMA SavedMade ==
  ASSUME NEW m \in Models
  PROVE  /\ Made(Saved(m)) /\ Distinct(Saved(m)) /\ Saved(m) # << >> /\ HeadsOf(Saved(m)) = LiveHeads
         /\ \A e \in ToSet(Saved(m)) : Harmless(e.state, CompanionIds)
         /\ \A e \in ToSet(Saved(m)) :
              /\ Id(e) = SliderId => e.state = GetSliderState[m]
              /\ Id(e) = DropdownId => e.state = GetDropdownState[m]
              /\ Id(e) = SummaryId => e.state = GetSummaryState[m]
<1> DEFINE a == Entry(SliderId, GetSliderState[m])
           b == Entry(DropdownId, GetDropdownState[m])
           c == Entry(SummaryId, GetSummaryState[m])
           three == <<a, b, c>>
           all == three \o CompanionEntries
<1>1. /\ Id(a) = SliderId /\ Id(b) = DropdownId /\ Id(c) = SummaryId
      /\ a.state = GetSliderState[m] /\ b.state = GetDropdownState[m] /\ c.state = GetSummaryState[m]
  BY DEF Entry, Id
<1>2. /\ Harmless(a.state, CompanionIds) /\ Harmless(b.state, CompanionIds) /\ Harmless(c.state, CompanionIds)
  BY <1>1, StatesHarmless
<1>3. Formed(a) /\ Formed(b) /\ Formed(c)
  BY <1>1, <1>2, EntryFormed DEF Harmless
<1>4. Saved(m) = all
  BY DEF Saved, Three
<1> HIDE DEF a, b, c
<1>5. /\ DOMAIN three = 1 .. 3 /\ three[1] = a /\ three[2] = b /\ three[3] = c
      /\ ToSet(three) = {a, b, c} /\ three # << >>
  BY DEF ToSet
<1>6. IsList(three)
  BY <1>5 DEF IsList
<1> HIDE DEF three
<1>7. IdsOf(three) = {SliderId, DropdownId, SummaryId}
  BY <1>1, <1>5 DEF IdsOf
<1>8. Distinct(three)
  <2>1. SliderId # DropdownId /\ SliderId # SummaryId /\ DropdownId # SummaryId
    BY IdsApart
  <2>2. \A i \in 1 .. 3 : i = 1 \/ i = 2 \/ i = 3
    OBVIOUS
  <2>3. \A i, j \in 1 .. 3 : Id(three[i]) = Id(three[j]) => i = j
    BY <1>1, <1>5, <2>1, <2>2
  <2> QED BY <1>5, <2>3 DEF Distinct, IsInjective
<1>9. \A e \in ToSet(CompanionEntries) :
        /\ Formed(e) /\ Id(e) \in CompanionIds /\ Harmless(e.state, CompanionIds)
  <2>1. ASSUME NEW root, NEW role, role # "AnyModel"
        PROVE  /\ Formed(Companion(root, role)) /\ Companion(root, role).state = Identity(role)
               /\ Harmless(Identity(role), CompanionIds)
    <3>1. \A v : Plain(v) => ~Is("bin", v) /\ Bounded(v, CompanionIds)
      BY DEF Plain, Bounded
    <3>2. Harmless(Identity(role), CompanionIds)
      BY <2>1, <3>1, IdentityPlain, IdentityClassed DEF Harmless
    <3>3. Companion(root, role).state = Identity(role)
      BY DEF Companion, Entry
    <3> QED BY <2>1, <3>2, <3>3, IdentityFormed DEF Companion
  <2>2. \A e \in ToSet(CompanionEntries) : Id(e) \in CompanionIds
    BY DEF CompanionIds
  <2>3. \A e \in ToSet(CompanionEntries) : \E root, role : role # "AnyModel" /\ e = Companion(root, role)
    BY CompanionsAre
  <2> QED BY <2>1, <2>2, <2>3
<1>10. /\ IsList(all) /\ ToSet(all) = {a, b, c} \cup ToSet(CompanionEntries)
       /\ IdsOf(all) = {SliderId, DropdownId, SummaryId} \cup CompanionIds
  BY <1>5, <1>6, <1>7, CompanionsAre, Concatenated
<1>11. Distinct(all)
  <2>1. IdsOf(three) \cap IdsOf(CompanionEntries) = {}
    BY <1>7, CompanionsAre, IdsApart
  <2> QED BY <1>6, <1>8, <2>1, CompanionsAre, DistinctConcat
<1>12. all # << >>
  <2>1. three \in Seq(ToSet(three) \cup ToSet(CompanionEntries))
        /\ CompanionEntries \in Seq(ToSet(three) \cup ToSet(CompanionEntries))
    BY <1>6, CompanionsAre, InOneSet
  <2> QED BY <1>5, <2>1, FirstOf
<1> HIDE DEF all
<1>13. \A e \in ToSet(all) : Formed(e) /\ Harmless(e.state, CompanionIds)
  BY <1>2, <1>3, <1>9, <1>10
<1>14. Closed(all)
  <2>1. \A e \in ToSet(all) : References(e.state) \subseteq CompanionIds
    BY <1>13, RefsBounded DEF Harmless
  <2> QED BY <1>10, <2>1 DEF Closed
<1>15. \A id \in IdsOf(all) : id # << >> /\ <<id[1]>> \in LiveHeads
  <2>1. /\ <<"slider">>[1] = "slider" /\ <<"dropdown">>[1] = "dropdown" /\ <<"slider", "summary">>[1] = "slider"
        /\ <<"slider", "style">>[1] = "slider" /\ <<"slider", "layout">>[1] = "slider"
        /\ <<"dropdown", "style">>[1] = "dropdown" /\ <<"dropdown", "layout">>[1] = "dropdown"
    OBVIOUS
  <2>2. IdsOf(all) = {<<"slider">>, <<"dropdown">>, <<"slider", "summary">>, <<"slider", "style">>,
                      <<"slider", "layout">>, <<"dropdown", "style">>, <<"dropdown", "layout">>}
    BY <1>10, IdsApart, CompanionsAre
  <2> QED BY <2>1, <2>2 DEF LiveHeads
<1>16. LiveHeads \subseteq IdsOf(all)
  BY <1>10, IdsApart DEF LiveHeads
<1>17. HeadsOf(all) = LiveHeads
  <2>1. <<"slider">>[1] = "slider" /\ <<"dropdown">>[1] = "dropdown"
    OBVIOUS
  <2>2. LiveHeads \subseteq HeadsOf(all)
    BY <1>16, <2>1 DEF HeadsOf, LiveHeads
  <2> QED BY <1>15, <2>2 DEF HeadsOf
<1>18. Made(all)
  BY <1>10, <1>13, <1>14, <1>15, <1>16 DEF Made, Rooted
<1>19. \A e \in ToSet(all) :
         /\ Id(e) = SliderId => e.state = GetSliderState[m]
         /\ Id(e) = DropdownId => e.state = GetDropdownState[m]
         /\ Id(e) = SummaryId => e.state = GetSummaryState[m]
  BY <1>1, <1>9, <1>10, IdsApart
<1> QED BY <1>4, <1>11, <1>12, <1>13, <1>17, <1>18, <1>19

\* The document of any Model is a whole one, and a session can begin with it.
LEMMA FileWhole ==
  ASSUME NEW m \in Models
  PROVE  /\ Whole(DashboardDocument[m])
         /\ SessionOf([doc |-> DashboardDocument[m], loaded |-> << >>, trees |-> << >>])
<1> DEFINE s == Saved(m)
           records == Dumped(s)
           doc == DashboardDocument[m]
<1>1. doc = DumpDocument(s)
  BY DEF DashboardDocument, Saved, Three
<1>2. /\ Made(s) /\ Distinct(s) /\ s # << >> /\ HeadsOf(s) = LiveHeads
      /\ \A e \in ToSet(s) : Harmless(e.state, CompanionIds)
      /\ \A e \in ToSet(s) :
           /\ Id(e) = SliderId => e.state = GetSliderState[m]
           /\ Id(e) = DropdownId => e.state = GetDropdownState[m]
           /\ Id(e) = SummaryId => e.state = GetSummaryState[m]
  BY SavedMade
<1> HIDE DEF s
<1>3. /\ DumpDocument(s) = Document(records) /\ Filed(records)
      /\ IdsOf(Read(records)) = IdsOf(s)
      /\ Dangling(Document(records)) = << >>
      /\ Document(records).records = records
      /\ LoadDocument(Document(records)) = AsRead(s)
  BY <1>2, DumpFiled
<1>4. Readable(DumpDocument(s))
  BY <1>2, MadeDumpable, DumpedReadable
<1> HIDE DEF records, doc
<1>5. \A e \in ToSet(AsRead(s)) :
        /\ e.id = SliderId => e.state["value"] = Num(m.value)
        /\ e.id = DropdownId => e.state["index"] = m.index
        /\ e.id = SummaryId => e.state["text"] = SummaryText(m)
  <2> SUFFICES ASSUME NEW e \in ToSet(AsRead(s))
               PROVE  /\ e.id = SliderId => e.state["value"] = Num(m.value)
                      /\ e.id = DropdownId => e.state["index"] = m.index
                      /\ e.id = SummaryId => e.state["text"] = SummaryText(m)
    OBVIOUS
  <2>1. PICK x \in ToSet(s) : e = Entry(Id(x), Flat(x.state))
    BY DEF ToSet, AsRead
  <2>2. e.id = Id(x) /\ e.state = Flat(x.state)
    BY <2>1 DEF Entry
  <2>3. \A k \in DOMAIN x.state : ~Is("bin", x.state[k])
    BY <1>2 DEF Harmless
  <2>4. \A k \in DOMAIN x.state : e.state[k] = x.state[k]
    BY <2>2, <2>3 DEF Flat
  <2> QED BY <1>2, <2>2, <2>4, StatesHarmless
<1>6. Whole(doc)
  BY <1>1, <1>3, <1>4, <1>5 DEF Whole
<1>7. SessionOf([doc |-> doc, loaded |-> << >>, trees |-> << >>])
  <2> DEFINE f == [doc |-> doc, loaded |-> << >>, trees |-> << >>]
  <2>1. f.doc = doc /\ f.loaded = << >> /\ f.trees = << >> /\ f = [doc |-> f.doc, loaded |-> f.loaded, trees |-> f.trees]
    OBVIOUS
  <2>2. /\ doc = [major |-> doc.major, shape |-> doc.shape, records |-> doc.records]
        /\ doc.records = records
    BY <1>1, <1>3 DEF Document
  <2>3. HeadsOf(Read(records)) \subseteq Drawn(0)
    BY <1>2, <1>3 DEF HeadsOf, Drawn
  <2> HIDE DEF f
  <2>4. IsList(f.trees) /\ Len(f.trees) = 0 /\ 1 .. 0 = {}
    BY <2>1 DEF IsList
  <2>5. 0 <= MaxTrees
    BY DashboardAssumption
  <2>6. SessionOf(f)
    BY <1>3, <2>1, <2>2, <2>3, <2>4, <2>5 DEF SessionOf
  <2> QED BY <2>6 DEF f
<1> QED BY <1>6, <1>7 DEF doc

\* The button of the page holds the document of some Model.
LEMMA RestartKeeps ==
  ASSUME LiveInv, NEW widget, DownloadAndRestart(widget)
  PROVE  SessionOf(fresh')
<1>1. /\ widget \in DOMAIN page /\ widget[2] = DownloadId
      /\ fresh' = [doc |-> page[widget]["json"].json, loaded |-> << >>, trees |-> << >>]
  BY DEF DownloadAndRestart
<1>2. PICK m \in Models : page[widget] = GetState[widget[2]][m]
  BY <1>1 DEF LiveInv, Pages
<1>3. page[widget] = GetDownloadState[m]
  BY <1>1, <1>2, StatesAre
<1>4. page[widget]["json"].json = DashboardDocument[m]
  BY <1>3 DEF GetDownloadState, Json
<1> QED BY <1>1, <1>4, FileWhole
-----------------------------------------------------------------------------
(***************************************************************************)
(* The invariant is inductive.                                             *)
(***************************************************************************)
LEMMA DashInit == Init => DashInv
<1> SUFFICES ASSUME Init PROVE DashInv
  OBVIOUS
<1>1. Blank /\ Alive
  BY DEF Init, Blank, Alive
<1> QED BY <1>1, BlankLive DEF DashInv, FileInv

LEMMA DashStep == DashInv /\ [Next]_vars => DashInv'
<1> SUFFICES ASSUME DashInv, [Next]_vars PROVE DashInv'
  OBVIOUS
<1> USE DEF DashInv
<1>1. ASSUME UNCHANGED fresh PROVE FileInv'
  BY <1>1 DEF FileInv, Alive
<1>2. ASSUME SessionOf(fresh') PROVE FileInv'
  BY <1>2 DEF FileInv
<1>3. ASSUME ~Alive PROVE SessionOf(fresh)
  BY <1>3 DEF FileInv
<1>4. ASSUME NEW session, Step(session) PROVE LiveInv'
  BY <1>4, LiveStays DEF Step
<1>5. CASE UNCHANGED vars
  BY <1>1, <1>5, LiveStays DEF vars
<1>6. ASSUME NEW companions \in BOOLEAN, NEW download \in BOOLEAN, Wire(companions, download) PROVE DashInv'
  BY <1>1, <1>6, WireKeeps DEF Wire
<1>7. ASSUME NEW widget \in open, Close(widget) PROVE DashInv'
  BY <1>1, <1>7, CloseKeeps DEF Close
<1>8. CASE HostReceive
  BY <1>1, <1>8, HostReceiveKeeps DEF HostReceive
<1>9. CASE PageReceive
  BY <1>1, <1>9, PageReceiveKeeps DEF PageReceive
<1>10. ASSUME NEW widget \in DOMAIN page, widget[2] \in {SliderId, DropdownId},
              NEW state \in Moves(widget[2]), Move(widget, state)
       PROVE  DashInv'
  BY <1>1, <1>10, MoveKeeps DEF Move
<1>11. ASSUME NEW widget \in DOMAIN page, DownloadAndRestart(widget) PROVE DashInv'
  BY <1>2, <1>11, RestartLive, RestartKeeps
<1>12. CASE Reload
  BY <1>1, <1>12, ReloadKeeps DEF Reload
<1>13. CASE Load
  BY <1>2, <1>3, <1>4, <1>13, LoadKeeps DEF Load
<1>14. CASE AddSlider
  BY <1>2, <1>3, <1>4, <1>14, AddSliderKeeps DEF AddSlider, Add
<1>15. CASE AddDropdown
  BY <1>2, <1>3, <1>4, <1>15, AddDropdownKeeps DEF AddDropdown, Add
<1>16. CASE AddPlot
  BY <1>2, <1>3, <1>4, <1>16, AddPlotKeeps DEF AddPlot, Add
<1>17. CASE AddLoaded
  BY <1>2, <1>3, <1>4, <1>17, AddLoadedKeeps DEF AddLoaded, Add
<1>18. ASSUME ~Alive, NEW i \in DOMAIN fresh.trees, AddBox("vbox", <<i>>) PROVE DashInv'
  BY <1>2, <1>3, <1>4, <1>18, AddVBoxKeeps DEF AddBox, Add
<1>19. ASSUME ~Alive, NEW i \in DOMAIN fresh.trees, NEW j \in DOMAIN fresh.trees, AddBox("hbox", <<i, j>>)
       PROVE  DashInv'
  BY <1>2, <1>3, <1>4, <1>19, AddHBoxKeeps DEF AddBox, Add
<1>20. ASSUME ~Alive, NEW i \in DOMAIN fresh.trees, Dump(fresh.trees[i]) PROVE DashInv'
  BY <1>2, <1>3, <1>4, <1>20, DumpKeeps DEF Dump
<1>21. ASSUME NEW major, NEW shape, Tamper(major, shape) PROVE DashInv'
  BY <1>2, <1>3, <1>4, <1>21, TamperKeeps DEF Tamper
<1>22. CASE Next
  BY <1>6, <1>7, <1>8, <1>9, <1>10, <1>11, <1>12, <1>13, <1>14, <1>15, <1>16, <1>17,
     <1>18, <1>19, <1>20, <1>21, <1>22 DEF Next
<1> QED BY <1>5, <1>22

LEMMA DashInvariant == Spec => []DashInv
<1>1. Init => DashInv
  BY DashInit
<1>2. DashInv /\ [Next]_vars => DashInv'
  BY DashStep
<1> QED BY <1>1, <1>2, PTL DEF Spec
-----------------------------------------------------------------------------
(***************************************************************************)
(* The theorems about the dashboard.                                       *)
(***************************************************************************)
\* What is wired, open, shown and on its way has its type.
THEOREM DashTypeOK == Spec => []TypeOK
<1>1. DashInv => TypeOK
  <2> SUFFICES ASSUME DashInv PROVE TypeOK
    OBVIOUS
  <2>1. Shapes
    BY DEF DashInv, LiveInv
  <2>2. \A w \in open \cup DOMAIN page : w[1] \in 1 .. wires
    BY <2>1, CalledAre DEF Shapes
  <2>3. \A i \in DOMAIN toPage : toPage[i] \in PageMessages
    BY <2>1 DEF Shapes
  <2>4. \A i \in DOMAIN toHost : toHost[i] \in HostMessages
    BY <2>1 DEF Shapes
  <2>5. \A i \in DOMAIN toPage : toPage[i].type \in {"comm_open", "comm_close", "update", "answer"}
    BY <2>3, PageMessageIs
  <2>6. \A i \in DOMAIN toHost : toHost[i].type \in {"update", "request_state"}
    BY <2>4, HostMessageIs
  <2>7. wires \in 0 .. events
    BY <2>1 DEF Shapes
  <2> QED BY <2>1, <2>2, <2>5, <2>6, <2>7 DEF TypeOK, Shapes
<1> QED BY <1>1, DashInvariant, PTL

\* Once all is delivered, the summary and the button of the page show the Model, whatever
\* was wired twice, closed or reloaded, unless a closed summary cut a render short.
THEOREM DashPageFollows == Spec => []PageFollows
<1>1. DashInv => PageFollows
  <2> DEFINE summary == <<wires, SummaryId>>
             button == <<downloadAt, DownloadId>>
  <2> SUFFICES ASSUME DashInv, Quiet
               PROVE  /\ summary \in open =>
                           summary \in DOMAIN page /\ Shown(summary, "text") = SummaryText(model)
                      /\ button \in open /\ ~cut =>
                           button \in DOMAIN page /\ Shown(button, "json") = Json(DashboardDocument[model])
    BY DEF PageFollows
  <2>1. LiveInv /\ model \in Models
    BY DEF DashInv, LiveInv, Shapes
  <2>2. DOMAIN toPage = {} /\ DOMAIN toHost = {}
    BY DEF Quiet
  <2>3. \A w \in open : w \in DOMAIN page
    BY <2>1, <2>2 DEF LiveInv, Presence, MakesIn, AsksIn
  <2>4. /\ summary \in open => Latest(summary, GetSummaryState[model])
        /\ button \in open /\ ~cut => Latest(button, GetDownloadState[model])
    BY <2>1 DEF LiveInv, Currency
  <2>5. \A w, st : Latest(w, st) /\ w \in DOMAIN page => page[w] = st
    BY <2>2 DEF Latest, Carries
  <2>6. /\ GetSummaryState[model]["text"] = SummaryText(model)
        /\ GetDownloadState[model]["json"] = Json(DashboardDocument[model])
    BY <2>1 DEF GetSummaryState, GetDownloadState
  <2> HIDE DEF summary, button
  <2> QED BY <2>3, <2>4, <2>5, <2>6 DEF Shown
<1> QED BY <1>1, DashInvariant, PTL

\* Whatever the button holds, or has on its way to it, is a document that loads, lacks
\* nothing it refers to, and shows one Model.
THEOREM DashSnapshotsWhole == Spec => []SnapshotsWhole
<1>1. DashInv => SnapshotsWhole
  <2> SUFFICES ASSUME DashInv, NEW doc \in Snapshots PROVE Whole(doc)
    BY DEF SnapshotsWhole
  <2>1. Shapes /\ Pages
    BY DEF DashInv, LiveInv
  <2>2. ASSUME NEW m \in Models, NEW w, w[2] = DownloadId, NEW st, st = GetState[w[2]][m],
               doc = st["json"].json
        PROVE  Whole(doc)
    <3>1. st = GetDownloadState[m]
      BY <2>2, StatesAre
    <3>2. doc = DashboardDocument[m]
      BY <2>2, <3>1 DEF GetDownloadState, Json
    <3> QED BY <3>2, FileWhole
  <2>3. CASE \E w \in DOMAIN page : w[2] = DownloadId /\ doc = page[w]["json"].json
    BY <2>1, <2>2, <2>3 DEF Pages
  <2>4. CASE \E n \in ToSet(toPage) : \E w \in DOMAIN n.states :
               n.type # "comm_close" /\ w[2] = DownloadId /\ doc = n.states[w]["json"].json
    <3>1. PICK n \in ToSet(toPage) : \E w \in DOMAIN n.states :
                 n.type # "comm_close" /\ w[2] = DownloadId /\ doc = n.states[w]["json"].json
      BY <2>4
    <3>2. n \in PageMessages
      BY <2>1 DEF Shapes, ToSet
    <3> QED BY <2>2, <3>1, <3>2, PageMessageIs
  <2> QED BY <2>3, <2>4 DEF Snapshots
<1> QED BY <1>1, DashInvariant, PTL

LEMMA ButtonHarmless ==
  ASSUME NEW m \in Models
  PROVE  Harmless(GetDownloadState[m], CompanionIds) /\ References(GetDownloadState[m]) = {}
<1>1. GetDownloadState[m] = [_esm |-> Text("download"), json |-> Json(DashboardDocument[m])]
  BY DEF GetDownloadState
<1>2. Plain(Json(DashboardDocument[m])) /\ Plain(Text("download"))
  BY Plains
<1>3. \A v, R : Plain(v) => ~Is("bin", v) /\ Bounded(v, R)
  BY DEF Plain, Bounded
<1>4. \A k \in DOMAIN GetDownloadState[m] : Plain(GetDownloadState[m][k])
  BY <1>1, <1>2
<1>5. Classed(GetDownloadState[m]) /\ IsState(GetDownloadState[m])
  BY <1>1 DEF Classed, IsState
<1>6. References(GetDownloadState[m]) \subseteq {}
  <2>1. \A k \in DOMAIN GetDownloadState[m] : Bounded(GetDownloadState[m][k], {})
    BY <1>3, <1>4
  <2> QED BY <2>1, RefsBounded
<1> QED BY <1>3, <1>4, <1>5, <1>6 DEF Harmless

LEMMA SummaryRefers ==
  ASSUME NEW m \in Models
  PROVE  References(GetSummaryState[m]) = {}
<1>1. Plain(SummaryText(m)) /\ Plain(Text("summary"))
  BY Plains DEF Plain, Is, SummaryText
<1>2. \A v : Plain(v) => Bounded(v, {})
  BY DEF Plain, Bounded
<1>3. \A k \in DOMAIN GetSummaryState[m] : Bounded(GetSummaryState[m][k], {})
  BY <1>1, <1>2 DEF GetSummaryState
<1>4. References(GetSummaryState[m]) \subseteq {}
  BY <1>3, RefsBounded
<1> QED BY <1>4

LEMMA RefersToCompanions ==
  ASSUME NEW id \in Ids, NEW m \in Models
  PROVE  References(GetState[id][m]) \subseteq CompanionIds
<1>1. \A st, R : Harmless(st, R) => References(st) \subseteq R
  BY RefsBounded DEF Harmless
<1>2. CASE id \in {SliderId, DropdownId}
  BY <1>1, <1>2, StatesAre, StatesHarmless
<1>3. CASE id = SummaryId
  BY <1>3, StatesAre, SummaryRefers
<1>4. CASE id = DownloadId
  BY <1>4, StatesAre, ButtonHarmless
<1>5. CASE id \in CompanionIds
  <2> DEFINE e == CHOOSE e \in ToSet(CompanionEntries) : Id(e) = id
  <2>1. GetState[id][m] = e.state
    BY <1>5, IdsApart DEF GetState
  <2>2. \E x \in ToSet(CompanionEntries) : Id(x) = id
    BY <1>5 DEF CompanionIds
  <2>3. e \in ToSet(CompanionEntries)
    BY <2>2
  <2> HIDE DEF e
  <2>4. \E root, role : e = Companion(root, role)
    BY <2>3, CompanionsAre
  <2>5. \E role : e.state = Identity(role)
    BY <2>4 DEF Companion, Entry
  <2> QED BY <2>1, <2>5, IdentityRefers
<1> QED BY <1>2, <1>3, <1>4, <1>5, IdsApart DEF Ids

\* Once all is delivered, the page has a model for every companion that a control of it
\* refers to, of the same call of wire(), if that was given transports for them.
THEOREM DashCompanionsArrive == Spec => []CompanionsArrive
<1>1. DashInv => CompanionsArrive
  <2> SUFFICES ASSUME DashInv, Quiet, NEW w \in DOMAIN page, w[1] \in resolvable,
                      NEW id \in References(page[w])
               PROVE  <<w[1], id>> \in DOMAIN page
    BY DEF CompanionsArrive
  <2>1. LiveInv /\ w[2] \in Ids
    BY DEF DashInv, LiveInv, Shapes, Called
  <2>2. id \in CompanionIds
    <3>1. PICK m \in Models : page[w] = GetState[w[2]][m]
      BY <2>1 DEF LiveInv, Pages
    <3> QED BY <2>1, <3>1, RefersToCompanions
  <2>3. <<w[1], id>> \in open
    BY <2>1, <2>2 DEF LiveInv, Companionship
  <2>4. DOMAIN toPage = {} /\ DOMAIN toHost = {}
    BY DEF Quiet
  <2> QED BY <2>1, <2>3, <2>4 DEF LiveInv, Presence, MakesIn, AsksIn
<1>2. Spec => []DashInv
  BY DashInvariant
<1> QED BY <1>1, <1>2, PTL

\* The trees of the fresh session are dumped unless a part is in them twice; the document
\* lacks nothing it refers to, and is loaded as the entries were.
THEOREM DashTreesExport == Spec => []TreesExport
<1>1. DashInv => TreesExport
  <2> SUFFICES ASSUME DashInv, ~Alive, NEW t \in ToSet(fresh.trees)
               PROVE  LET doc == DumpDocument(t.entries) IN
                      /\ t.twice <=> doc = Raised
                      /\ ~t.twice => Dangling(doc) = << >> /\ LoadDocument(doc) = AsRead(t.entries)
    BY DEF TreesExport
  <2>1. TreeInv(t, Len(fresh.trees))
    <3>1. SessionOf(fresh)
      BY DEF DashInv, FileInv
    <3>2. DOMAIN fresh.trees = 1 .. Len(fresh.trees)
      BY <3>1 DEF SessionOf, IsList
    <3> QED BY <3>1, <3>2 DEF SessionOf, ToSet
  <2>2. Made(t.entries) /\ t.entries # << >> /\ (t.twice <=> ~Distinct(t.entries))
    BY <2>1 DEF TreeInv
  <2>3. \A records : Document(records) # Raised
    BY DEF Document, Raised
  <2>4. DumpDocument(t.entries) = IF Distinct(t.entries) THEN Document(Dumped(t.entries)) ELSE Raised
    BY <2>2, MadeDumpable
  <2>5. ~t.twice => /\ Dangling(DumpDocument(t.entries)) = << >>
                    /\ LoadDocument(DumpDocument(t.entries)) = AsRead(t.entries)
    BY <2>2, DumpFiled
  <2> QED BY <2>2, <2>3, <2>4, <2>5
<1> QED BY <1>1, DashInvariant, PTL

\* Loading changes nothing of the document, and what was loaded is dumped to it again.
THEOREM DashRestoreExact == Spec => RestoreExact
<1> DEFINE Exact == ~Alive /\ fresh'.loaded # fresh.loaded =>
                      fresh'.doc = fresh.doc /\ DumpDocument(fresh'.loaded) = fresh.doc
<1>1. DashInv /\ [Next]_vars => [Exact]_vars
  <2> SUFFICES ASSUME DashInv, Next, ~Alive, fresh'.loaded # fresh.loaded
               PROVE  fresh'.doc = fresh.doc /\ DumpDocument(fresh'.loaded) = fresh.doc
    OBVIOUS
  <2>1. SessionOf(fresh)
    BY DEF DashInv, FileInv
  <2>2. fresh = [doc |-> fresh.doc, loaded |-> fresh.loaded, trees |-> fresh.trees]
    BY <2>1 DEF SessionOf
  <2>3. ASSUME NEW entries, NEW parts, NEW twice, Add(entries, parts, twice) PROVE FALSE
    BY <2>2, <2>3 DEF Add, Step
  <2>4. ASSUME NEW tree, Dump(tree) PROVE FALSE
    BY <2>2, <2>4 DEF Dump, Step
  <2>5. ASSUME NEW major, NEW shape, Tamper(major, shape) PROVE FALSE
    BY <2>2, <2>5 DEF Tamper, Step
  <2>6. ~HostReceive /\ ~PageReceive /\ ~Reload
    BY DEF HostReceive, PageReceive, Reload
  <2>7. \A c, d : ~Wire(c, d)
    BY DEF Wire
  <2>8. \A w : ~Close(w) /\ ~DownloadAndRestart(w)
    BY DEF Close, DownloadAndRestart
  <2>9. \A w, st : ~Move(w, st)
    BY DEF Move
  <2>10. ~AddSlider /\ ~AddDropdown /\ ~AddPlot /\ ~AddLoaded
    BY <2>3 DEF AddSlider, AddDropdown, AddPlot, AddLoaded
  <2>11. \A kind, chosen : ~AddBox(kind, chosen)
    BY <2>3 DEF AddBox
  <2>12. Load
    BY <2>4, <2>5, <2>6, <2>7, <2>8, <2>9, <2>10, <2>11 DEF Next
  <2> QED BY <2>1, <2>12, LoadKeeps
<1> QED BY <1>1, DashInvariant, PTL DEF Spec, RestoreExact
-----------------------------------------------------------------------------
(***************************************************************************)
(* Pages.                                                                  *)
(***************************************************************************)
\* What embed.py makes of the record of an entry: a state that has a view class, refers to
\* nothing that the entry's does not, and has no binary.
LEMMA RecordShown ==
  ASSUME NEW e, Formed(e)
  PROVE  LET r == DumpModel(e)
             shown == Merge(ViewIdentity(r.model["_model_module_version"]), r.state) IN
         /\ Binaries(shown) = {}
         /\ References(shown) \subseteq References(e.state)
         /\ shown["_view_module"] =
              IF r.model["_model_name"] = Text("AnyModel") THEN Text("anywidget") ELSE Text("controls")
<1> DEFINE s == e.state
           B == Binaries(s)
           r == DumpModel(e)
           version == r.model["_model_module_version"]
           name == r.model["_model_name"]
           identity == ViewIdentity(version)
           kept == Without(s, B)
           shown == Merge(identity, kept)
<1>1. /\ r.state = kept
      /\ version = IF "_model_module_version" \in DOMAIN s THEN s["_model_module_version"] ELSE AnyModel["_model_module_version"]
      /\ name = IF "_model_name" \in DOMAIN s THEN s["_model_name"] ELSE AnyModel["_model_name"]
  BY DEF DumpModel, ModelFields
<1>2. AnyModel["_model_name"] = Text("AnyModel") /\ Plain(AnyModel["_model_module_version"])
  BY Plains DEF AnyModel, ModelFields
<1>3. Classed(s) /\ IsState(s)
  BY DEF Formed
<1>4. Plain(version)
  BY <1>1, <1>2, <1>3 DEF Classed
<1>5. /\ DOMAIN kept = DOMAIN s \ B
      /\ \A k \in DOMAIN kept : kept[k] = s[k] /\ ~Is("bin", s[k])
  BY DEF Without, Binaries
<1>6. "_view_module" \in DOMAIN s /\ s["_view_module"] = Text("controls") => "_view_module" \notin B
  BY DEF Binaries, Is, Text
<1> HIDE DEF version, name, r
<1>7. /\ DOMAIN identity = {"_view_module", "_view_name", "_view_module_version", "_view_count"}
      /\ \A k \in DOMAIN identity : Plain(identity[k])
      /\ identity["_view_module"] = Text("anywidget")
  BY <1>4, Plains DEF ViewIdentity
<1> HIDE DEF identity, kept, B
<1>8. /\ DOMAIN shown = DOMAIN identity \cup DOMAIN kept
      /\ \A k \in DOMAIN kept : shown[k] = kept[k]
      /\ \A k \in DOMAIN identity \ DOMAIN kept : shown[k] = identity[k]
  BY MergedOver
<1> HIDE DEF shown
<1>9. \A k \in DOMAIN shown : \/ k \in DOMAIN s /\ shown[k] = s[k] /\ ~Is("bin", shown[k])
                              \/ Plain(shown[k])
  BY <1>5, <1>7, <1>8
<1>10. Binaries(shown) = {}
  BY <1>9 DEF Binaries, Plain
<1>11. References(shown) \subseteq References(s)
  <2>1. Over(shown, s)
    BY <1>9 DEF Over, Plain
  <2> HIDE DEF s
  <2> QED BY <2>1, RefsOver
<1>12. shown["_view_module"] = IF name = Text("AnyModel") THEN Text("anywidget") ELSE Text("controls")
  <2>1. CASE "_model_name" \notin DOMAIN s /\ "_view_module" \notin DOMAIN s
    BY <1>1, <1>2, <1>5, <1>7, <1>8, <2>1
  <2>2. CASE /\ "_model_name" \in DOMAIN s /\ s["_model_name"] # Text("AnyModel")
             /\ "_view_module" \in DOMAIN s /\ s["_view_module"] = Text("controls")
    BY <1>1, <1>5, <1>6, <1>8, <2>2
  <2> QED BY <1>3, <2>1, <2>2 DEF Classed
<1> QED BY <1>1, <1>10, <1>11, <1>12 DEF shown, kept, identity, version, name, r, B

\* Records that were dumped of well-formed entries, of which none refers to a model that is
\* not among them.
Showable(records) ==
  \A i \in DOMAIN records :
    \E e : Formed(e) /\ References(e.state) \subseteq IdsOf(records) /\ records[i] = DumpModel(e)

LEMMA ShowableRenders ==
  ASSUME NEW doc, doc = [major |-> doc.major, shape |-> doc.shape, records |-> doc.records],
         doc.shape # "other", Showable(Records(doc)),
         NEW views, ToSet(views) \subseteq IdsOf(Records(doc))
  PROVE  /\ Embed(doc, views) # Raised /\ Renders(Embed(doc, views))
         /\ Embed(doc, views).views = views
<1> DEFINE records == Records(doc)
           ids == IdsOf(records)
           whole == WithViewIdentity(doc)
           shown(r) == Merge(Injected(r), r.state)
           out == [i \in DOMAIN records |-> [records[i] EXCEPT !.state = shown(records[i])]]
<1>1. whole = [major |-> doc.major, shape |-> "mapping", records |-> out]
  <2>1. whole = [doc EXCEPT !.shape = "mapping", !.records = out]
    BY DEF WithViewIdentity, WithStates
  <2> HIDE DEF whole, out
  <2> QED BY <2>1
<1>2. whole.records = out
  <2> HIDE DEF whole, out
  <2> QED BY <1>1
<1>3. ASSUME NEW i \in DOMAIN records
      PROVE  /\ Id(out[i]) = Id(records[i]) /\ References(out[i].state) \subseteq ids
             /\ Binaries(out[i].state) = {}
             /\ out[i].state["_view_module"] =
                  IF out[i].model["_model_name"] = Text("AnyModel") THEN Text("anywidget") ELSE Text("controls")
  <2>1. PICK e : Formed(e) /\ References(e.state) \subseteq ids /\ records[i] = DumpModel(e)
    BY DEF Showable
  <2> DEFINE r == DumpModel(e)
             st == shown(r)
  <2>2. out[i] = [r EXCEPT !.state = st]
    BY <2>1
  <2>3. [r EXCEPT !.state = st].id = r.id /\ [r EXCEPT !.state = st].model = r.model
        /\ [r EXCEPT !.state = st].state = st
    <3> HIDE DEF st
    <3> QED BY DEF DumpModel
  <2>4. /\ Binaries(st) = {} /\ References(st) \subseteq References(e.state)
        /\ st["_view_module"] =
             IF r.model["_model_name"] = Text("AnyModel") THEN Text("anywidget") ELSE Text("controls")
    BY <2>1, RecordShown DEF Injected
  <2> HIDE DEF st, out
  <2>5. records[i] = r
    BY <2>1
  <2> HIDE DEF r
  <2> QED BY <2>1, <2>2, <2>3, <2>4, <2>5 DEF Id
<1>4. DOMAIN out = DOMAIN records
  OBVIOUS
<1> HIDE DEF whole, out
<1>5. ids = {Id(r) : r \in ToSet(whole.records)}
  BY <1>2, <1>3, <1>4 DEF IdsOf, ToSet
<1>6. \A r \in ToSet(whole.records) :
        /\ References(r.state) \subseteq ids /\ Binaries(r.state) = {}
        /\ r.state["_view_module"] =
             IF r.model["_model_name"] = Text("AnyModel") THEN Text("anywidget") ELSE Text("controls")
  BY <1>2, <1>3, <1>4 DEF ToSet
<1>7. /\ Embed(doc, views) = [state |-> whole, views |-> views]
      /\ Embed(doc, views).state = whole /\ Embed(doc, views).views = views
      /\ Embed(doc, views) # Raised
  <2>1. "raised" \in DOMAIN Raised /\ "raised" \notin DOMAIN whole
    BY <1>1 DEF Raised
  <2>2. Embed(doc, views) = [state |-> whole, views |-> views]
    BY <2>1 DEF Embed, whole
  <2>3. "raised" \notin DOMAIN [state |-> whole, views |-> views]
    OBVIOUS
  <2> QED BY <2>1, <2>2, <2>3
<1> HIDE DEF ids
<1>8. Dangling(whole) = << >>
  BY <1>1, <1>5, <1>6, NoDangling
<1>9. ToSet(views) \subseteq {Id(r) : r \in ToSet(whole.records)}
  BY <1>5 DEF ids
<1> QED BY <1>6, <1>7, <1>8, <1>9 DEF Renders

WF == INSTANCE WellFoundedInduction

\* A set of naturals that lacks one lacks a first one.
LEMMA FirstMissing ==
  ASSUME NEW T \in SUBSET Nat, T # Nat
  PROVE  \E n \in Nat \ T : \A m \in Nat : m < n => m \in T
<1> DEFINE R == WF!OpToRel(<, Nat)
           U == Nat \ T
<1>1. \E x \in U : \A y \in U : ~(<<y, x>> \in R)
  <2>1. WF!IsWellFoundedOn(R, Nat)
    BY WF!NatLessThanWellFounded
  <2>2. U # {} /\ U \subseteq Nat
    OBVIOUS
  <2> HIDE DEF R, U
  <2> QED BY <2>1, <2>2, WF!WFMin
<1>2. \A x, y \in Nat : y < x => <<y, x>> \in R
  BY DEF WF!OpToRel
<1> HIDE DEF R
<1> QED BY <1>1, <1>2

LEMMA NatSets ==
  ASSUME NEW T \in SUBSET Nat, 0 \in T, \A n \in T : n + 1 \in T
  PROVE  T = Nat
<1> SUFFICES ASSUME T # Nat PROVE FALSE
  OBVIOUS
<1>1. PICK n \in Nat \ T : \A m \in Nat : m < n => m \in T
  BY FirstMissing
<1>2. n # 0 /\ n - 1 \in Nat /\ n - 1 < n
  BY <1>1
<1>3. (n - 1) + 1 \in T
  BY <1>1, <1>2
<1> QED BY <1>1, <1>3

\* One turn of EmbedData's recursion, and what it defines.
Taking(entries, f, n) ==
  IF n = 0 THEN << >>
  ELSE IF FirstPlace(entries, n) THEN Append(f[n - 1], DumpModel(entries[n]))
  ELSE f[n - 1]
Takings(entries, m, f) == f = [n \in 0 .. m |-> Taking(entries, f, n)]

LEMMA TakingsExist ==
  ASSUME NEW entries
  PROVE  \A m \in Nat : \E f : Takings(entries, m, f)
<1> DEFINE T == {m \in Nat : \E f : Takings(entries, m, f)}
<1>1. 0 \in T
  <2> DEFINE f == [n \in 0 .. 0 |-> << >>]
  <2>1. \A n \in 0 .. 0 : Taking(entries, f, n) = << >>
    BY DEF Taking
  <2> HIDE DEF f
  <2>2. f = [n \in 0 .. 0 |-> Taking(entries, f, n)]
    BY <2>1 DEF f
  <2> QED BY <2>2 DEF Takings
<1>2. ASSUME NEW m \in T PROVE m + 1 \in T
  <2>1. PICK f : f = [n \in 0 .. m |-> Taking(entries, f, n)]
    BY DEF Takings
  <2> DEFINE g == [n \in 0 .. m + 1 |-> IF n <= m THEN f[n] ELSE Taking(entries, f, m + 1)]
  <2>2. \A n \in 0 .. m + 1 : Taking(entries, g, n) = Taking(entries, f, n)
    BY DEF Taking
  <2>3. \A n \in 0 .. m + 1 : g[n] = Taking(entries, f, n)
    <3>1. \A n \in 0 .. m : f[n] = Taking(entries, f, n)
      BY <2>1
    <3>2. \A n \in 0 .. m + 1 : n \in 0 .. m \/ n = m + 1
      OBVIOUS
    <3> QED BY <3>1, <3>2
  <2>4. g = [n \in 0 .. m + 1 |-> Taking(entries, g, n)]
    <3>1. \A n \in 0 .. m + 1 : g[n] = Taking(entries, g, n)
      BY <2>2, <2>3
    <3> QED BY <3>1, Zenon
  <2> HIDE DEF g
  <2>5. Takings(entries, m + 1, g)
    BY <2>4 DEF Takings
  <2> QED BY <2>5
<1> HIDE DEF T
<1>3. T = Nat
  <2>1. T \in SUBSET Nat
    BY DEF T
  <2> QED BY <1>1, <1>2, <2>1, NatSets
<1> QED BY <1>3 DEF T

\* What embed_data makes of the entries of the trees.
TakenOf(entries) == (CHOOSE f : Takings(entries, Len(entries), f))[Len(entries)]

LEMMA EmbedDataTakes ==
  ASSUME NEW trees, NEW entries, FlattenSeq(trees) = entries
  PROVE  EmbedData(trees) = TakenOf(entries)
  BY DEF EmbedData, TakenOf, Takings, Taking

\* Up to its n-th entry it has taken a record for each id, of an entry with that id.
TakenTo(entries, q, n) ==
  /\ IsList(q)
  /\ \A i \in DOMAIN q : \E e \in ToSet(entries) : q[i] = DumpModel(e)
  /\ \A i \in 1 .. n : Id(entries[i]) \in IdsOf(q)

LEMMA AppendIds ==
  ASSUME NEW q, IsList(q), NEW x
  PROVE  IdsOf(Append(q, x)) = IdsOf(q) \cup {Id(x)}
<1> DEFINE r == Append(q, x)
           n == Len(q)
<1>1. /\ IsList(r) /\ n \in Nat /\ Len(r) = n + 1
      /\ \A i \in 1 .. n : r[i] = q[i]
      /\ r[n + 1] = x
  BY ListGrows
<1>2. DOMAIN r = 1 .. n + 1 /\ DOMAIN q = 1 .. n
  BY <1>1 DEF IsList
<1> HIDE DEF r, n
<1>3. \A i \in 1 .. n + 1 : i \in 1 .. n \/ i = n + 1
  BY <1>1
<1>4. n + 1 \in 1 .. n + 1 /\ 1 .. n \subseteq 1 .. n + 1
  BY <1>1
<1> QED BY <1>1, <1>2, <1>3, <1>4 DEF IdsOf, r

LEMMA TakenAll ==
  ASSUME NEW entries, IsList(entries)
  PROVE  TakenTo(entries, TakenOf(entries), Len(entries))
<1> DEFINE L == Len(entries)
           f == CHOOSE g : Takings(entries, L, g)
<1>1. L \in Nat /\ DOMAIN entries = 1 .. L
  BY DEF IsList
<1>2. Takings(entries, L, f)
  <2>1. \E g : Takings(entries, L, g)
    BY <1>1, TakingsExist
  <2> QED BY <2>1, Zenon
<1>3. TakenOf(entries) = f[L]
  BY DEF TakenOf
<1> HIDE DEF L, f
<1>4. \A n \in 0 .. L : f[n] = Taking(entries, f, n)
  BY <1>2 DEF Takings
<1> DEFINE T == {n \in Nat : n <= L => TakenTo(entries, f[n], n)}
<1>5. 0 \in T
  <2>1. f[0] = << >>
    BY <1>1, <1>4 DEF Taking
  <2>2. IsList(<< >>) /\ DOMAIN << >> = {}
    BY DEF IsList
  <2> QED BY <2>1, <2>2 DEF TakenTo
<1>6. ASSUME NEW n \in T PROVE n + 1 \in T
  <2> DEFINE q == f[n]
             k == n + 1
             r == f[k]
             e == entries[k]
  <2> SUFFICES ASSUME n + 1 <= L PROVE TakenTo(entries, r, n + 1)
    BY <1>6
  <2>1. TakenTo(entries, q, n) /\ n \in Nat
    BY <1>1
  <2>2. k \in 1 .. L /\ k # 0 /\ k - 1 = n /\ k \in 0 .. L
    BY <1>1, <2>1
  <2>3. r = IF FirstPlace(entries, k) THEN Append(q, DumpModel(e)) ELSE q
    BY <1>4, <2>2 DEF Taking
  <2>4. e \in ToSet(entries)
    BY <1>1, <2>2 DEF ToSet
  <2>5. \A i \in 1 .. k : i \in 1 .. n \/ i = k
    BY <2>1
  <2> HIDE DEF q, k, r, e
  <2>6. CASE FirstPlace(entries, k)
    <3>1. r = Append(q, DumpModel(e)) /\ IsList(q)
      BY <2>1, <2>3, <2>6 DEF TakenTo
    <3>2. /\ IsList(r) /\ Len(q) \in Nat /\ Len(r) = Len(q) + 1
          /\ \A i \in 1 .. Len(q) : r[i] = q[i]
          /\ r[Len(q) + 1] = DumpModel(e)
      BY <3>1, ListGrows
    <3>3. IdsOf(r) = IdsOf(q) \cup {Id(e)}
      <4>1. Id(DumpModel(e)) = Id(e)
        BY DEF DumpModel, Id
      <4> QED BY <3>1, <4>1, AppendIds
    <3>4. DOMAIN r = 1 .. Len(q) + 1 /\ DOMAIN q = 1 .. Len(q)
      BY <3>1, <3>2 DEF IsList
    <3>5. \A i \in 1 .. Len(q) + 1 : i \in 1 .. Len(q) \/ i = Len(q) + 1
      BY <3>2
    <3>6. \A i \in DOMAIN r : \E x \in ToSet(entries) : r[i] = DumpModel(x)
      BY <2>1, <2>4, <3>2, <3>4, <3>5 DEF TakenTo
    <3>7. \A i \in 1 .. k : Id(entries[i]) \in IdsOf(r)
      BY <2>1, <2>5, <3>3 DEF TakenTo, e
    <3> QED BY <3>2, <3>6, <3>7 DEF TakenTo, k
  <2>7. CASE ~FirstPlace(entries, k)
    <3>1. PICK j \in 1 .. k - 1 : Id(entries[j]) = Id(entries[k])
      BY <2>7 DEF FirstPlace
    <3>2. j \in 1 .. n
      BY <2>2, <3>1
    <3>3. \A i \in 1 .. k : Id(entries[i]) \in IdsOf(q)
      BY <2>1, <2>5, <3>1, <3>2 DEF TakenTo
    <3>4. r = q
      BY <2>3, <2>7
    <3> QED BY <2>1, <3>3, <3>4 DEF TakenTo, k
  <2> QED BY <2>6, <2>7
<1> HIDE DEF T
<1>7. T = Nat
  <2>1. T \in SUBSET Nat
    BY DEF T
  <2> QED BY <1>5, <1>6, <2>1, NatSets
<1>8. L \in T
  BY <1>1, <1>7
<1>9. TakenTo(entries, f[L], L)
  BY <1>1, <1>8 DEF T
<1> QED BY <1>3, <1>9 DEF L

\* A page of any two lists of entries that were made, whatever they have in common.
LEMMA HarvestRenders ==
  ASSUME NEW s, NEW t, Made(s), Made(t), s # << >>, t # << >>
  PROVE  Renders(HarvestHtml(<<s, t>>))
<1> DEFINE entries == s \o t
           trees == <<s, t>>
           records == TakenOf(entries)
           views == [i \in DOMAIN trees |-> Id(trees[i][1])]
<1>1. FlattenSeq(trees) = entries
  BY FlattenTwo
<1>2. Made(entries) /\ IdsOf(entries) = IdsOf(s) \cup IdsOf(t)
  BY MadeConcat, Concatenated DEF Made
<1>3. trees # << >> /\ DOMAIN trees = {1, 2} /\ trees[1] = s /\ trees[2] = t
  OBVIOUS
<1>4. Id(s[1]) \in IdsOf(s) /\ Id(t[1]) \in IdsOf(t)
  BY FirstIn DEF Made
<1>5. ToSet(views) \subseteq IdsOf(entries)
  BY <1>2, <1>3, <1>4 DEF ToSet
<1>6. HarvestHtml(trees) = Embed(Document(EmbedData(trees)), views)
  BY <1>3 DEF HarvestHtml, Harvest
<1> HIDE DEF entries, trees, views
<1>7. EmbedData(trees) = records
  BY <1>1, EmbedDataTakes
<1>8. TakenTo(entries, records, Len(entries))
  BY <1>2, TakenAll DEF Made
<1>9. DOMAIN entries = 1 .. Len(entries)
  BY <1>2 DEF Made, IsList
<1> HIDE DEF records
<1>10. IdsOf(entries) \subseteq IdsOf(records)
  BY <1>8, <1>9 DEF TakenTo, IdsOf
<1>11. Showable(records)
  <2> SUFFICES ASSUME NEW i \in DOMAIN records
               PROVE  \E e : /\ Formed(e) /\ References(e.state) \subseteq IdsOf(records)
                             /\ records[i] = DumpModel(e)
    BY DEF Showable
  <2>1. PICK e \in ToSet(entries) : records[i] = DumpModel(e)
    BY <1>8 DEF TakenTo
  <2>2. Formed(e) /\ References(e.state) \subseteq IdsOf(entries)
    BY <1>2 DEF Made, Closed
  <2> QED BY <1>10, <2>1, <2>2
<1> DEFINE doc == Document(records)
<1>12. /\ doc = [major |-> doc.major, shape |-> doc.shape, records |-> doc.records]
       /\ doc.shape # "other" /\ Records(doc) = records
  BY DEF Document, Records
<1> HIDE DEF doc
<1>13. Renders(Embed(doc, views))
  BY <1>5, <1>10, <1>11, <1>12, ShowableRenders
<1> QED BY <1>6, <1>7, <1>13 DEF trees, doc

\* The records of a document that was filed can be shown.
LEMMA FiledShowable ==
  ASSUME NEW records, Filed(records)
  PROVE  Showable(records)
<1> DEFINE read == Read(records)
<1>1. /\ Made(read) /\ DOMAIN read = DOMAIN records
      /\ \A i \in DOMAIN records : read[i] = LoadModel(records[i]) /\ DumpModel(read[i]) = records[i]
  BY DEF Filed, Read
<1> HIDE DEF read
<1>2. \A i \in DOMAIN records : read[i] \in ToSet(read) /\ Id(records[i]) = Id(read[i])
  <2>1. \A e : DumpModel(e).id = e.id
    BY DEF DumpModel
  <2>2. \A i \in DOMAIN records : records[i].id = read[i].id
    BY <1>1, <2>1
  <2> QED BY <1>1, <2>2 DEF ToSet, Id
<1>3. IdsOf(read) = IdsOf(records)
  BY <1>1, <1>2 DEF IdsOf
<1>4. \A i \in DOMAIN records : Formed(read[i]) /\ References(read[i].state) \subseteq IdsOf(records)
  BY <1>1, <1>2, <1>3 DEF Made, Closed
<1> QED BY <1>1, <1>4 DEF Showable

\* What embed_html makes of a document: nothing if its state is no mapping, an empty page if
\* there is none, otherwise a page with a view for each of its models.
LEMMA DocumentRenders ==
  ASSUME NEW doc, doc = [major |-> doc.major, shape |-> doc.shape, records |-> doc.records],
         Filed(doc.records)
  PROVE  LET html == EmbedAll(doc) IN
         /\ html = Raised <=> doc.shape = "other"
         /\ html # Raised => Renders(html) /\ (html.views = << >> <=> doc.shape = "missing")
<1> DEFINE html == EmbedAll(doc)
           views == EveryModel(doc)
<1>1. CASE doc.shape = "other"
  BY <1>1 DEF EmbedAll, Embed, WithViewIdentity, WithStates
<1>2. CASE doc.shape # "other"
  <2>1. Showable(Records(doc))
    BY FiledShowable DEF Records, Showable
  <2>2. ToSet(views) \subseteq IdsOf(Records(doc))
    BY DEF EveryModel, ToSet, IdsOf
  <2>3. html = Embed(doc, views)
    BY DEF EmbedAll
  <2>4. views = << >> <=> doc.shape = "missing"
    <3>1. CASE doc.shape = "missing"
      BY <3>1 DEF EveryModel, Records
    <3>2. CASE doc.shape # "missing"
      <4>1. DOMAIN views = DOMAIN doc.records
        BY <3>2 DEF EveryModel, Records
      <4>2. DOMAIN doc.records # {}
        <5>1. IsList(Read(doc.records)) /\ Read(doc.records) # << >>
          BY DEF Filed, Made
        <5>2. \E i \in DOMAIN Read(doc.records) : TRUE
          BY <5>1, FirstIn DEF IdsOf
        <5> QED BY <5>2 DEF Read
      <4>3. DOMAIN << >> = {}
        OBVIOUS
      <4> HIDE DEF views
      <4> QED BY <3>2, <4>1, <4>2, <4>3
    <3> QED BY <3>1, <3>2
  <2> HIDE DEF views
  <2> QED BY <1>2, <2>1, <2>2, <2>3, <2>4, ShowableRenders
<1> QED BY <1>1, <1>2

FourJoined(a, b, c, d) == FlattenSeq(<<a, b, c, d>>) = ((a \o b) \o c) \o d

LEMMA FlattenFour ==
  ASSUME NEW a, NEW b, NEW c, NEW d
  PROVE  FourJoined(a, b, c, d)
<1> DEFINE seqs == <<a, b, c, d>>
           P(f) == f = [i \in 1 .. Len(seqs) |-> IF i = 1 THEN seqs[i] ELSE f[i - 1] \o seqs[i]]
           ab == a \o b
           abc == ab \o c
           abcd == abc \o d
           g == [i \in 1 .. 4 |-> IF i = 1 THEN a ELSE IF i = 2 THEN ab ELSE IF i = 3 THEN abc ELSE abcd]
           h == CHOOSE f : P(f)
<1>1. FlattenSeq(seqs) = h[Len(seqs)]
  BY DEF FlattenSeq
<1>2. Len(seqs) = 4 /\ seqs[1] = a /\ seqs[2] = b /\ seqs[3] = c /\ seqs[4] = d
  OBVIOUS
<1> HIDE DEF seqs
<1>3. /\ g[1] = a /\ g[2] = a \o b /\ g[3] = g[2] \o c /\ g[4] = g[3] \o d
      /\ DOMAIN g = 1 .. 4 /\ g = [i \in 1 .. 4 |-> g[i]]
  <2> HIDE DEF ab, abc, abcd
  <2>1. /\ g[1] = a /\ g[2] = ab /\ g[3] = abc /\ g[4] = abcd
        /\ DOMAIN g = 1 .. 4 /\ g = [i \in 1 .. 4 |-> g[i]]
    OBVIOUS
  <2> HIDE DEF g
  <2> QED BY <2>1, Zenon DEF ab, abc, abcd
<1> HIDE DEF g
<1>4. P(g)
  <2>1. \A i \in 1 .. 4 : g[i] = IF i = 1 THEN seqs[i] ELSE g[i - 1] \o seqs[i]
    <3>1. \A i \in 1 .. 4 : i = 1 \/ i = 2 \/ i = 3 \/ i = 4
      OBVIOUS
    <3>2. 2 - 1 = 1 /\ 3 - 1 = 2 /\ 4 - 1 = 3 /\ 2 # 1 /\ 3 # 1 /\ 4 # 1
      OBVIOUS
    <3> QED BY <1>2, <1>3, <3>1, <3>2, Zenon
  <2> QED BY <1>2, <1>3, <2>1
<1>5. P(h)
  <2> HIDE DEF P
  <2> QED BY <1>4
<1>6. h = [i \in 1 .. 4 |-> IF i = 1 THEN seqs[i] ELSE h[i - 1] \o seqs[i]]
  BY <1>2, <1>5
<1> HIDE DEF h
<1>7. \A i \in 1 .. 4 : h[i] = IF i = 1 THEN seqs[i] ELSE h[i - 1] \o seqs[i]
  BY <1>6, Zenon
<1>8. h[4] = abcd
  <2>1. 1 \in 1 .. 4 /\ 2 \in 1 .. 4 /\ 3 \in 1 .. 4 /\ 4 \in 1 .. 4
    OBVIOUS
  <2>2. 2 - 1 = 1 /\ 3 - 1 = 2 /\ 4 - 1 = 3 /\ 2 # 1 /\ 3 # 1 /\ 4 # 1
    OBVIOUS
  <2>3. h[1] = a
    BY <1>2, <1>7, <2>1, Zenon
  <2>4. h[2] = h[1] \o b
    BY <1>2, <1>7, <2>1, <2>2, Zenon
  <2>5. h[3] = h[2] \o c
    BY <1>2, <1>7, <2>1, <2>2, Zenon
  <2>6. h[4] = h[3] \o d
    BY <1>2, <1>7, <2>1, <2>2, Zenon
  <2> QED BY <2>3, <2>4, <2>5, <2>6, Zenon
<1>9. FlattenSeq(seqs) = abcd
  BY <1>1, <1>2, <1>8, Zenon
<1> QED BY <1>9, Zenon DEF FourJoined, seqs

\* One more entry, of which the root and what it refers to are there.
LEMMA MadeAppend ==
  ASSUME NEW s, Made(s), NEW e, Formed(e), References(e.state) \subseteq IdsOf(s),
         Id(e) # << >>, <<Id(e)[1]>> \in IdsOf(s)
  PROVE  /\ Made(s \o <<e>>) /\ IdsOf(s \o <<e>>) = IdsOf(s) \cup {Id(e)}
         /\ Distinct(s \o <<e>>) <=> (Distinct(s) /\ Id(e) \notin IdsOf(s))
<1> DEFINE one == <<e>>
           all == s \o one
<1>1. DOMAIN one = {1} /\ one[1] = e /\ one \in Seq({e})
  OBVIOUS
<1> HIDE DEF one
<1>2. ToSet(one) = {e} /\ IdsOf(one) = {Id(e)}
  BY <1>1 DEF ToSet, IdsOf
<1>3. IsList(one) /\ IsList(s)
  BY <1>1, <1>2 DEF IsList, Made
<1>4. /\ IsList(all) /\ ToSet(all) = ToSet(s) \cup {e} /\ IdsOf(all) = IdsOf(s) \cup {Id(e)}
  BY <1>2, <1>3, Concatenated
<1>5. Distinct(one)
  BY <1>1 DEF Distinct, IsInjective
<1>6. Distinct(all) <=> (Distinct(s) /\ Id(e) \notin IdsOf(s))
  BY <1>2, <1>3, <1>5, DistinctConcat
<1> HIDE DEF all
<1>7. Rooted(all)
  BY <1>4 DEF Made, Rooted
<1>8. Closed(all)
  BY <1>4 DEF Made, Closed
<1>9. \A x \in ToSet(all) : Formed(x)
  BY <1>4 DEF Made
<1> QED BY <1>4, <1>6, <1>7, <1>8, <1>9 DEF Made, all, one

LEMMA ControlsMade ==
  /\ Made(SliderEntries) /\ Distinct(SliderEntries) /\ SliderEntries # << >>
  /\ Id(SliderEntries[1]) = SliderId
  /\ IdsOf(SliderEntries) = {<<"slider">>, <<"slider", "style">>, <<"slider", "layout">>}
  /\ Made(DropdownEntries) /\ Distinct(DropdownEntries) /\ DropdownEntries # << >>
  /\ Id(DropdownEntries[1]) = DropdownId
  /\ IdsOf(DropdownEntries) = {<<"dropdown">>, <<"dropdown", "style">>, <<"dropdown", "layout">>}
<1>1. SliderEntries = Build("int_slider", <<"slider">>, SliderOverrides)
  BY DEF SliderEntries, IntSlider, SliderOverrides
<1>2. DropdownEntries = Build("dropdown", <<"dropdown">>, DropdownOverrides)
  BY DEF DropdownEntries, Dropdown, DropdownOverrides
<1>3. /\ \A k \in DOMAIN SliderOverrides : ~Is("bin", SliderOverrides[k]) /\ Bounded(SliderOverrides[k], {})
      /\ DOMAIN SliderOverrides \cap Named = {}
  <2>1. \A k \in DOMAIN SliderOverrides : ~Is("bin", SliderOverrides[k]) /\ Bounded(SliderOverrides[k], {})
    BY SliderPlain DEF SliderOverrides
  <2> QED BY <2>1 DEF SliderOverrides, Named
<1>4. /\ \A k \in DOMAIN DropdownOverrides : ~Is("bin", DropdownOverrides[k]) /\ Bounded(DropdownOverrides[k], {})
      /\ DOMAIN DropdownOverrides \cap Named = {}
  <2>1. Initial.index = None \/ \E x : Initial.index = Num(x)
    BY InitialAssumption, IndexPlain DEF Models
  <2>2. \A k \in DOMAIN DropdownOverrides : ~Is("bin", DropdownOverrides[k]) /\ Bounded(DropdownOverrides[k], {})
    BY <2>1, DropdownPlain DEF DropdownOverrides
  <2> QED BY <2>2 DEF DropdownOverrides, Named
<1>5. /\ Made(SliderEntries) /\ Distinct(SliderEntries) /\ SliderEntries # << >>
      /\ Id(SliderEntries[1]) = <<"slider">>
      /\ IdsOf(SliderEntries) = {<<"slider">>, <<"slider", "style">>, <<"slider", "layout">>}
  BY <1>1, <1>3, ControlMade
<1>6. /\ Made(DropdownEntries) /\ Distinct(DropdownEntries) /\ DropdownEntries # << >>
      /\ Id(DropdownEntries[1]) = <<"dropdown">>
      /\ IdsOf(DropdownEntries) = {<<"dropdown">>, <<"dropdown", "style">>, <<"dropdown", "layout">>}
  BY <1>2, <1>4, ControlMade
<1> QED BY <1>5, <1>6, IdsApart

\* The box of build_entries and what it holds can be dumped.
LEMMA BuildMade ==
  ASSUME NEW m \in Models
  PROVE  LET entries == BuildEntries[m] IN
         Made(entries) /\ Distinct(entries) /\ entries # << >> /\ <<"vbox">> \in IdsOf(entries)
<1> DEFINE a == Entry(SummaryId, GetSummaryState[m])
           b == Entry(DownloadId, GetDownloadState[m])
           justA == <<a>>
           justB == <<b>>
           controls == SliderEntries \o DropdownEntries
           three == controls \o justA
           rest == three \o justB
           children == <<SliderEntries, DropdownEntries, justA, justB>>
           kind == "vbox"
           r == "vbox"
           refs == [i \in DOMAIN children |-> Ref(Id(children[i][1]))]
           o == [children |-> List(refs)]
           entries == Build(kind, <<r>>, o) \o rest
<1>1. BuildEntries[m] = entries
  <2>1. BuildEntries[m] = Box("vbox", <<"vbox">>, children)
    BY DEF BuildEntries
  <2>2. FlattenSeq(children) = rest
    <3>1. FourJoined(SliderEntries, DropdownEntries, justA, justB)
      BY FlattenFour
    <3> QED BY <3>1, Zenon DEF FourJoined
  <2> HIDE DEF children, rest
  <2> QED BY <2>1, <2>2 DEF Box
<1>2. /\ Id(a) = SummaryId /\ Id(b) = DownloadId
      /\ a.state = GetSummaryState[m] /\ b.state = GetDownloadState[m]
  BY DEF Entry, Id
<1>3. Formed(a) /\ References(a.state) = {}
  BY <1>2, StatesHarmless, SummaryRefers, EntryFormed DEF Harmless
<1>4. Formed(b) /\ References(b.state) = {}
  BY <1>2, ButtonHarmless, EntryFormed DEF Harmless
<1>5. DOMAIN children = {1, 2, 3, 4} /\ \A i \in DOMAIN children :
        Id(children[i][1]) \in {SliderId, DropdownId, SummaryId, DownloadId}
  <2> HIDE DEF a, b
  <2>1. justA[1] = a /\ justB[1] = b
    OBVIOUS
  <2> HIDE DEF justA, justB
  <2>2. /\ DOMAIN children = {1, 2, 3, 4}
        /\ children[1] = SliderEntries /\ children[2] = DropdownEntries
        /\ children[3] = justA /\ children[4] = justB
    OBVIOUS
  <2> HIDE DEF children
  <2> QED BY <1>2, <2>1, <2>2, ControlsMade
<1> HIDE DEF a, b, children
<1>6. /\ Made(controls) /\ Distinct(controls)
      /\ IdsOf(controls) = {<<"slider">>, <<"slider", "style">>, <<"slider", "layout">>,
                            <<"dropdown">>, <<"dropdown", "style">>, <<"dropdown", "layout">>}
  <2>1. Made(controls)
    BY ControlsMade, MadeConcat
  <2>2. IdsOf(controls) = IdsOf(SliderEntries) \cup IdsOf(DropdownEntries)
    BY ControlsMade, Concatenated DEF Made
  <2>3. IdsOf(SliderEntries) \cap IdsOf(DropdownEntries) = {}
    BY ControlsMade
  <2>4. Distinct(controls)
    BY <2>3, ControlsMade, DistinctConcat DEF Made
  <2> QED BY <2>1, <2>2, <2>4, ControlsMade
<1> HIDE DEF controls
<1>7. /\ Id(a) = <<"slider", "summary">> /\ Id(b) = <<"slider", "download">>
      /\ Id(a) # << >> /\ Id(b) # << >> /\ <<Id(a)[1]>> = <<"slider">> /\ <<Id(b)[1]>> = <<"slider">>
  BY <1>2, IdsApart
<1>8. /\ Made(three) /\ IdsOf(three) = IdsOf(controls) \cup {Id(a)}
      /\ Distinct(three) <=> (Distinct(controls) /\ Id(a) \notin IdsOf(controls))
  BY <1>3, <1>6, <1>7, MadeAppend
<1> HIDE DEF three
<1>9. /\ Made(rest) /\ IdsOf(rest) = IdsOf(three) \cup {Id(b)}
      /\ Distinct(rest) <=> (Distinct(three) /\ Id(b) \notin IdsOf(three))
  BY <1>4, <1>6, <1>7, <1>8, MadeAppend
<1> HIDE DEF rest
<1>10. Distinct(rest)
  BY <1>6, <1>7, <1>8, <1>9
<1>11. <<r>> \notin IdsOf(rest)
  BY <1>6, <1>7, <1>8, <1>9
<1>12. {SliderId, DropdownId, SummaryId, DownloadId} \subseteq IdsOf(rest)
  BY <1>2, <1>6, <1>8, <1>9, IdsApart
<1>13. \A x \in ToSet(refs) : ~Is("list", x) /\ (Is("ref", x) => x.ref \in IdsOf(rest))
  BY <1>5, <1>12, Plains DEF ToSet
<1> HIDE DEF refs
<1>14. ~Is("bin", List(refs)) /\ Bounded(List(refs), IdsOf(rest))
  BY <1>13, Plains DEF Bounded
<1>15. (\A k \in DOMAIN o : ~Is("bin", o[k]) /\ Bounded(o[k], IdsOf(rest))) /\ DOMAIN o \cap Named = {}
  BY <1>14 DEF Named
<1>16. Made(rest) /\ kind \in {"vbox", "hbox"}
  BY <1>9
<1> HIDE DEF o, r, kind
<1>17. /\ Made(entries) /\ (Distinct(entries) <=> Distinct(rest)) /\ entries # << >>
       /\ IdsOf(entries) = {<<r>>, <<r, "layout">>} \cup IdsOf(rest)
  BY <1>11, <1>15, <1>16, BoxMade
<1> HIDE DEF entries
<1> QED BY <1>1, <1>10, <1>17 DEF r

\* The page of build_html shows the box.
LEMMA BuildRenders ==
  ASSUME NEW m \in Models
  PROVE  Renders(BuildHtml[m])
<1> DEFINE entries == BuildEntries[m]
           records == Dumped(entries)
           doc == Document(records)
           views == <<<<"vbox">>>>
<1>1. Made(entries) /\ Distinct(entries) /\ entries # << >> /\ <<"vbox">> \in IdsOf(entries)
  BY BuildMade
<1>2. BuildHtml[m] = Embed(DumpDocument(entries), views)
  BY DEF BuildHtml
<1>3. ToSet(views) = {<<"vbox">>}
  BY DEF ToSet
<1> HIDE DEF entries, views
<1>4. /\ DumpDocument(entries) = doc /\ Filed(records) /\ doc.records = records
  BY <1>1, DumpFiled
<1>5. IdsOf(records) = IdsOf(entries)
  <2>1. \A e : DumpModel(e).id = e.id
    BY DEF DumpModel
  <2> QED BY <2>1 DEF IdsOf, Id, Dumped
<1>6. doc = [major |-> doc.major, shape |-> doc.shape, records |-> doc.records]
  BY DEF Document
<1>9. doc.shape # "other" /\ Records(doc) = records
  BY DEF Document, Records
<1> HIDE DEF doc, records
<1>7. Showable(Records(doc))
  BY <1>4, <1>9, FiledShowable
<1>8. ToSet(views) \subseteq IdsOf(Records(doc))
  BY <1>1, <1>3, <1>5, <1>9
<1> QED BY <1>2, <1>4, <1>6, <1>7, <1>8, <1>9, ShowableRenders

\* A page is made of the dashboard as it was built, of every two trees of the fresh session,
\* whatever they share, and of every document it has whose state is a mapping: its views are
\* there, it lacks nothing it refers to, and every model has its view class.  Of a document
\* without a state the page is empty, of one with anything else there is none.
THEOREM DashPagesRender == Spec => []PagesRender
<1>1. DashInv /\ TypeOK => PagesRender
  <2> SUFFICES ASSUME DashInv, TypeOK PROVE PagesRender
    OBVIOUS
  <2> DEFINE html == EmbedAll(fresh.doc)
  <2>1. Alive => Renders(BuildHtml[model])
    BY BuildRenders DEF TypeOK
  <2>2. ASSUME ~Alive
        PROVE  /\ html = Raised <=> fresh.doc.shape = "other"
               /\ html # Raised => Renders(html) /\ (html.views = << >> <=> fresh.doc.shape = "missing")
               /\ \A s, t \in ToSet(fresh.trees) : Renders(HarvestHtml(<<s.entries, t.entries>>))
    <3>1. SessionOf(fresh)
      BY <2>2 DEF DashInv, FileInv
    <3>2. /\ html = Raised <=> fresh.doc.shape = "other"
          /\ html # Raised => Renders(html) /\ (html.views = << >> <=> fresh.doc.shape = "missing")
      BY <3>1, DocumentRenders DEF SessionOf
    <3>3. DOMAIN fresh.trees = 1 .. Len(fresh.trees)
      BY <3>1 DEF SessionOf, IsList
    <3>4. \A t \in ToSet(fresh.trees) : TreeInv(t, Len(fresh.trees))
      BY <3>1, <3>3 DEF SessionOf, ToSet
    <3>5. \A t \in ToSet(fresh.trees) : Made(t.entries) /\ t.entries # << >>
      BY <3>4 DEF TreeInv
    <3> HIDE DEF html
    <3> QED BY <3>2, <3>5, HarvestRenders
  <2> QED BY <2>1, <2>2 DEF PagesRender
<1> QED BY <1>1, DashInvariant, DashTypeOK, PTL
=============================================================================
