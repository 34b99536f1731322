-------------------------- MODULE BufferSplit_proofs --------------------------
(***************************************************************************)
(* Proofs about BufferSplit: splitting and merging are right for any       *)
(* state, of any number of containers that are shared in any way, any      *)
(* number of values in each, and any depth limit.                          *)
(*                                                                         *)
(* The invariant is put in terms of operators that take the containers and *)
(* the frames as parameters: o is the host's state, h the containers with  *)
(* the clones, s the stack.                                                *)
(***************************************************************************)
EXTENDS BufferSplit, TLAPS

\* The paths of any length.
AllPaths == Seq(Slots)

Kinds == {"dict", "list", "tuple"}
HostValues == {Plain} \cup {Bin(n, k) : n \in 1 .. N, k \in Slots} \cup {Ref(n) : n \in 1 .. N}
Values == {Plain, Nil} \cup {Bin(n, k) : n \in Nat, k \in Nat} \cup {Ref(n) : n \in Nat}
Containers == [kind : Kinds, slots : UNION {[D -> Values] : D \in SUBSET Slots}]
Hosts == [1 .. N -> [kind : Kinds, slots : [Slots -> HostValues]]]
Heaps(o) == {h \in Seq(Containers) : N <= Len(h) /\ \A n \in 1 .. N : h[n] = o[n]}
Frames == [node : 1 .. N, clone : Nat, key : Nat, path : AllPaths, next : 1 .. Width + 1]
Clones(h) == N + 1 .. Len(h)

Types ==
  /\ original \in Hosts
  /\ limit \in Nat
  /\ heap \in Heaps(original)
  /\ stack \in Seq(Frames) /\ Len(stack) <= limit + 1
  /\ paths \in Seq(AllPaths) /\ buffers \in Seq(HostValues) /\ Len(paths) = Len(buffers)
  /\ missing \in {0, 1} /\ merged \in 0 .. Len(buffers) - missing
  /\ result \in 0 .. Len(heap)
  /\ status \in {"walking", "merging", "too deep", "cyclic", "merged", "mismatch"}

\* The walk is under way, or was given up.
Begins == {"walking", "too deep", "cyclic"}
Begun == status \in Begins

\* A reference leads to a container; to a clone there is at most one, and none to the
\* result or to a clone that a frame still works on.
Links(h, held) ==
  /\ \A n \in DOMAIN h : \A k \in Slots :
       LET w == Slot(h, Ref(n), k) IN
       IsRef(w) => w.node \in DOMAIN h /\ (w.node \in Clones(h) => w.node \notin held)
  /\ \A n, m \in Clones(h) : \A k, l \in Slots :
       LET v == Slot(h, Ref(n), k)
           w == Slot(h, Ref(m), l) IN
       IsRef(v) /\ IsRef(w) /\ v.node = w.node /\ v.node \in Clones(h) => n = m /\ k = l

Held(s) == {s[i].clone : i \in DOMAIN s}
Linked == Links(heap, Held(stack) \cup {result})

\* The slot at which a frame is: those before it are done.
Reached(s, i) == IF i < Len(s) THEN s[i].next - 1 ELSE s[i].next

\* The frames are a chain of containers from the root down.
Chain(o, h, s) ==
  \A i \in DOMAIN s :
    /\ Len(s[i].path) = i - 1 /\ \A x \in 1 .. i - 1 : s[i].path[x] = s[x + 1].key
    /\ i = 1 => s[i].node = 1
    /\ i < Len(s) =>
         /\ s[i + 1].key = s[i].next - 1 /\ s[i].next - 1 \in Slots
         /\ s[i + 1].path = Append(s[i].path, s[i + 1].key)
         /\ o[s[i].node].slots[s[i + 1].key] = Ref(s[i + 1].node)
    /\ s[i].clone = 0 \/ s[i].clone \in Clones(h)
    /\ \A j \in DOMAIN s : s[j].clone = s[i].clone /\ i # j => s[i].clone = 0

Chained ==
  /\ IF Begun THEN stack # << >> /\ result = 0 /\ merged = 0 /\ missing = 0
     ELSE stack = << >> /\ result # 0
  /\ Chain(original, heap, stack)

\* Nothing at v or below it is binary.
Clean(o, v) == \A q \in AllPaths : ~IsBin(At(o, v, q))

\* What is left of a binary value of a container of this kind, and of that at a path.
Left(kind) == IF kind = "dict" THEN Absent ELSE Nil
Gap(o, v, q) == Left(o[At(o, v, Front(q)).node].kind)

\* What becomes of a value that is not binary: what has nothing binary below it is as it
\* was, the other containers are clones.
Becomes(o, h, v, w) ==
  IF IsRef(v) /\ ~Clean(o, v)
    THEN IsRef(w) /\ w.node \in Clones(h) /\ h[w.node].kind = CloneKind(o[v.node].kind)
    ELSE w = v

\* The same for all that is below it.
Strips(o, h, v, w) ==
  \A q \in AllPaths :
    IF IsBin(At(o, v, q)) THEN At(h, w, q) = Gap(o, v, q)
    ELSE Becomes(o, h, At(o, v, q), At(h, w, q))

\* What is done of a container (the slots before r) is clean or was stripped, the rest of
\* a clone is as it was.
Done1(o, h, n, v, w, done) ==
  IF ~done THEN w = v
  ELSE IF IsBin(v) THEN w = Left(o[n].kind) ELSE Strips(o, h, v, w)

Works(o, h, f, r) ==
  /\ f.clone = 0 => \A k \in Slots : k < r => Clean(o, o[f.node].slots[k])
  /\ f.clone # 0 =>
       /\ ~Clean(o, Ref(f.node)) /\ h[f.clone].kind = CloneKind(o[f.node].kind)
       /\ \A k \in Slots :
            Done1(o, h, f.node, o[f.node].slots[k], Slot(h, Ref(f.clone), k), k < r)

AllWorks(o, h, s) == \A i \in DOMAIN s : Works(o, h, s[i], Reached(s, i))
Worked == AllWorks(original, heap, stack)

\* Has the walk come by this path: is it that of a slot before r of a frame's container, or
\* one below it?
Covers(path, r, p) == \E k \in Slots : \E q \in AllPaths : k < r /\ p = Append(path, k) \o q
Passed(s, p) == \E i \in DOMAIN s : Covers(s[i].path, Reached(s, i), p)

Walked(st, s, p) == st \in Begins => Passed(s, p)

Records(o, st, s, ps, bs) ==
  /\ \A i \in DOMAIN ps :
       LET v == At(o, Ref(1), ps[i]) IN IsBin(v) /\ bs[i] = v /\ Walked(st, s, ps[i])
  /\ \A p \in AllPaths :
       IsBin(At(o, Ref(1), p)) /\ Walked(st, s, p) => \E i \in DOMAIN ps : ps[i] = p
  /\ \A i, j \in DOMAIN ps : i < j => Before(ps[i], ps[j])

Recorded == Records(original, status, stack, paths, buffers)

\* There are d levels of containers below v.
Deep(o, v, d) == \E q \in AllPaths : Len(q) = d /\ IsRef(At(o, v, q))

\* What is done of a frame's container is within the limit d.
Shallows(o, s, d) ==
  \A i \in DOMAIN s : \A k \in Slots :
    k < Reached(s, i) => ~Deep(o, o[s[i].node].slots[k], d + 1 - i)

Shallow ==
  /\ Shallows(original, stack, limit)
  /\ ~Begun => ~Deep(original, Ref(1), limit + 1)
  /\ status \in {"too deep", "cyclic"} => Deep(original, Ref(1), limit + 1)
  /\ status = "cyclic" => Deep(original, Ref(1), N)

\* The result, with the first m buffers back in it.
Holds(o, h, root, recorded, m) ==
  \A q \in AllPaths :
    LET v == At(o, Ref(1), q)
        w == At(h, Ref(root), q) IN
    IF IsBin(v)
      THEN w = IF \E i \in 1 .. m : recorded[i] = q THEN v ELSE Gap(o, Ref(1), q)
      ELSE Becomes(o, h, v, w)

Merging ==
  ~Begun =>
    /\ Holds(original, heap, result, paths, merged)
    /\ status = "merged" => missing = 0 /\ merged = Len(buffers)
    /\ status = "mismatch" => missing = 1

SplitInv ==
  /\ Types /\ Linked /\ Chained /\ Worked /\ Recorded /\ Shallow /\ Merging
-----------------------------------------------------------------------------
(***************************************************************************)
(* Induction, on naturals and on paths.                                    *)
(***************************************************************************)
WF == INSTANCE WellFoundedInduction
SQ == INSTANCE SequenceTheorems

\* A set of naturals that lacks one lacks a first one.
LEMMA FirstMissing ==
  ASSUME NEW T \in SUBSET Nat, T # Nat
  PROVE  \E n \in Nat \ T : \A m \in Nat : m < n => m \in T
<1> DEFINE R == WF!OpToRel(<, Nat)
           U == Nat \ T
<1>1. \E x \in U : \A y \in U : ~(<<y, x>> \in R)
  <2>1. WF!IsWellFoundedOn(R, Nat)
    BY WF!NatLessThanWellFounded
  <2>2. U # {} /\ U \subseteq Nat
    OBVIOUS
  <2> HIDE DEF R, U
  <2> QED BY <2>1, <2>2, WF!WFMin
<1>2. \A x, y \in Nat : y < x => <<y, x>> \in R
  BY DEF WF!OpToRel
<1> HIDE DEF R
<1> QED BY <1>1, <1>2

LEMMA NatSets ==
  ASSUME NEW T \in SUBSET Nat, 0 \in T, \A n \in T : n + 1 \in T
  PROVE  T = Nat
<1> SUFFICES ASSUME T # Nat PROVE FALSE
  OBVIOUS
<1>1. PICK n \in Nat \ T : \A m \in Nat : m < n => m \in T
  BY FirstMissing
<1>2. n # 0 /\ n - 1 \in Nat /\ n - 1 < n
  BY <1>1
<1>3. (n - 1) + 1 \in T
  BY <1>1, <1>2
<1> QED BY <1>1, <1>3

\* What a path is with a key after it, and with a key before it.
LEMMA PathAppend ==
  ASSUME NEW S, NEW p \in Seq(S), NEW k \in S
  PROVE  LET q == Append(p, k) IN
         /\ q \in Seq(S) /\ q # << >> /\ Len(q) = Len(p) + 1 /\ Len(p) \in Nat
         /\ q[Len(p) + 1] = k /\ (\A i \in 1 .. Len(p) : q[i] = p[i])
         /\ Front(q) = p /\ Last(q) = k
<1> DEFINE q == Append(p, k)
<1>1. /\ q \in Seq(S) /\ q # << >> /\ Len(q) = Len(p) + 1 /\ Len(p) \in Nat
      /\ q[Len(p) + 1] = k /\ (\A i \in 1 .. Len(p) : q[i] = p[i])
  OBVIOUS
<1>2. Last(q) = k
  BY <1>1 DEF Last
<1>3. Front(q) = SubSeq(q, 1, Len(p))
  <2>1. Len(q) - 1 = Len(p)
    BY <1>1
  <2> QED BY <2>1 DEF Front
<1>4. SubSeq(q, 1, Len(p)) = p
  OBVIOUS
<1> QED BY <1>1, <1>2, <1>3, <1>4

LEMMA PathCons ==
  ASSUME NEW S, NEW p \in Seq(S), NEW k \in S
  PROVE  LET q == <<k>> \o p IN
         /\ q \in Seq(S) /\ q # << >> /\ Len(q) = Len(p) + 1
         /\ q[1] = k /\ (\A i \in 1 .. Len(p) : q[i + 1] = p[i])
         /\ \A l \in S : Append(q, l) = <<k>> \o Append(p, l)
  OBVIOUS

\* A slot goes to the end of one path or to the head of the next: the whole
\* is the same path.
LEMMA PathRegroups ==
  ASSUME NEW a \in AllPaths, NEW k \in Slots, NEW x \in AllPaths
  PROVE  Append(a, k) \o x = a \o (<<k>> \o x) /\ <<k>> \o x \in AllPaths
<1> USE DEF AllPaths
<1> DEFINE l == Append(a, k) \o x
           r == a \o (<<k>> \o x)
<1>1. <<k>> \o x \in Seq(Slots) /\ l \in Seq(Slots) /\ r \in Seq(Slots)
  OBVIOUS
<1>2. Len(l) = Len(a) + 1 + Len(x) /\ Len(r) = Len(a) + 1 + Len(x)
  OBVIOUS
<1>3. ASSUME NEW i \in 1 .. Len(l)
      PROVE  l[i] = r[i]
  BY <1>2
<1>4. l = r
  <2> HIDE DEF l, r
  <2> QED BY <1>1, <1>2, <1>3, SQ!SeqEqual
<1> QED BY <1>1, <1>4

LEMMA PathLast ==
  ASSUME NEW S, NEW p \in Seq(S), p # << >>
  PROVE  /\ Front(p) \in Seq(S) /\ Last(p) \in S /\ p = Append(Front(p), Last(p))
         /\ Len(Front(p)) = Len(p) - 1 /\ Len(p) \in Nat \ {0}
         /\ \A i \in 1 .. Len(p) - 1 : Front(p)[i] = p[i]
<1>1. PICK q \in Seq(S), k \in S : p = Append(q, k)
  BY SQ!SequenceEmptyOrAppend
<1>2. /\ Len(p) = Len(q) + 1 /\ Len(q) \in Nat /\ (\A i \in 1 .. Len(q) : p[i] = q[i])
      /\ Front(p) = q /\ Last(p) = k
  BY <1>1, PathAppend
<1> QED BY <1>1, <1>2

LEMMA PathFirst ==
  ASSUME NEW S, NEW p \in Seq(S), p # << >>
  PROVE  /\ Tail(p) \in Seq(S) /\ p[1] \in S /\ p = <<p[1]>> \o Tail(p)
         /\ Len(Tail(p)) = Len(p) - 1 /\ Len(p) \in Nat \ {0}
  OBVIOUS

LEMMA PathInduction ==
  ASSUME NEW S, NEW T \in SUBSET Seq(S), << >> \in T,
         \A p \in T : \A k \in S : Append(p, k) \in T
  PROVE  T = Seq(S)
<1> DEFINE D == {n \in Nat : \A p \in Seq(S) : Len(p) = n => p \in T}
<1>1. 0 \in D
  OBVIOUS
<1>2. ASSUME NEW n \in D PROVE n + 1 \in D
  <2> SUFFICES ASSUME NEW p \in Seq(S), Len(p) = n + 1 PROVE p \in T
    OBVIOUS
  <2>1. p # << >> /\ (n + 1) - 1 = n
    OBVIOUS
  <2>2. Front(p) \in Seq(S) /\ Last(p) \in S /\ p = Append(Front(p), Last(p)) /\ Len(Front(p)) = n
    BY <2>1, PathLast
  <2>3. Front(p) \in T
    BY <2>2
  <2> QED BY <2>2, <2>3
<1> HIDE DEF D
<1>3. D = Nat
  <2>1. D \in SUBSET Nat
    BY DEF D
  <2> QED BY <1>1, <1>2, <2>1, NatSets
<1>4. ASSUME NEW p \in Seq(S) PROVE p \in T
  <2>1. Len(p) \in D
    BY <1>3
  <2> QED BY <2>1 DEF D
<1> QED BY <1>4
-----------------------------------------------------------------------------
(***************************************************************************)
(* Where paths lead.                                                       *)
(***************************************************************************)

\* One turn of At's recursion, and what it defines.
Turn(h, v, p, f, i) == IF i = 0 THEN v ELSE Slot(h, f[i - 1], p[i])
Turns(h, v, p, m, f) == f = [i \in 0 .. m |-> Turn(h, v, p, f, i)]

LEMMA TurnsExist ==
  ASSUME NEW h, NEW v, NEW p
  PROVE  \A m \in Nat : \E f : Turns(h, v, p, m, f)
<1> DEFINE T == {m \in Nat : \E f : Turns(h, v, p, m, f)}
<1>1. 0 \in T
  <2> DEFINE f == [i \in 0 .. 0 |-> v]
  <2>1. \A i \in 0 .. 0 : Turn(h, v, p, f, i) = v
    BY DEF Turn
  <2> HIDE DEF f
  <2>2. f = [i \in 0 .. 0 |-> Turn(h, v, p, f, i)]
    BY <2>1 DEF f
  <2> QED BY <2>2 DEF Turns
<1>2. ASSUME NEW m \in T PROVE m + 1 \in T
  <2>1. PICK f : f = [i \in 0 .. m |-> Turn(h, v, p, f, i)]
    BY DEF Turns
  <2> DEFINE g == [i \in 0 .. m + 1 |-> IF i <= m THEN f[i] ELSE Turn(h, v, p, f, m + 1)]
  <2>2. \A i \in 0 .. m + 1 : Turn(h, v, p, g, i) = Turn(h, v, p, f, i)
    BY DEF Turn
  <2>3. \A i \in 0 .. m + 1 : g[i] = Turn(h, v, p, f, i)
    <3>1. \A i \in 0 .. m : f[i] = Turn(h, v, p, f, i)
      BY <2>1
    <3>2. \A i \in 0 .. m + 1 : i \in 0 .. m \/ i = m + 1
      OBVIOUS
    <3> QED BY <3>1, <3>2
  <2>4. g = [i \in 0 .. m + 1 |-> Turn(h, v, p, g, i)]
    <3>1. \A i \in 0 .. m + 1 : g[i] = Turn(h, v, p, g, i)
      BY <2>2, <2>3
    <3> QED BY <3>1, Zenon
  <2> HIDE DEF g
  <2>5. Turns(h, v, p, m + 1, g)
    BY <2>4 DEF Turns
  <2> QED BY <2>5
<1> HIDE DEF T
<1>3. T = Nat
  <2>1. T \in SUBSET Nat
    BY DEF T
  <2> QED BY <1>1, <1>2, <2>1, NatSets
<1> QED BY <1>3 DEF T

LEMMA AtChooses ==
  ASSUME NEW h, NEW v, NEW p
  PROVE  At(h, v, p) = (CHOOSE f : Turns(h, v, p, Len(p), f))[Len(p)]
  BY DEF At, Turns, Turn

LEMMA AtIs ==
  ASSUME NEW h, NEW v, NEW p, Len(p) \in Nat
  PROVE  \E f : Turns(h, v, p, Len(p), f) /\ At(h, v, p) = f[Len(p)]
<1>1. \E f : Turns(h, v, p, Len(p), f)
  BY TurnsExist
<1>2. Turns(h, v, p, Len(p), CHOOSE f : Turns(h, v, p, Len(p), f))
  BY <1>1, Zenon
<1> QED BY <1>2, AtChooses, Zenon

LEMMA AtEmpty ==
  ASSUME NEW h, NEW v
  PROVE  At(h, v, << >>) = v
<1>1. Len(<< >>) = 0 /\ Len(<< >>) \in Nat
  OBVIOUS
<1>2. PICK f : Turns(h, v, << >>, Len(<< >>), f) /\ At(h, v, << >>) = f[Len(<< >>)]
  BY <1>1, AtIs, Zenon
<1>3. Turns(h, v, << >>, 0, f) /\ At(h, v, << >>) = f[0]
  BY <1>1, <1>2
<1>4. f[0] = Turn(h, v, << >>, f, 0)
  BY <1>3 DEF Turns
<1> QED BY <1>3, <1>4 DEF Turn

\* After one key more a path leads to that slot of where it led before.
LEMMA AtAppend ==
  ASSUME NEW h, NEW v, NEW S, NEW p \in Seq(S), NEW k \in S
  PROVE  At(h, v, Append(p, k)) = Slot(h, At(h, v, p), k)
<1> DEFINE q == Append(p, k)
           n == Len(p)
<1>1. n \in Nat /\ q \in Seq(S) /\ Len(q) = n + 1 /\ q[n + 1] = k /\ \A i \in 1 .. n : q[i] = p[i]
  OBVIOUS
<1> HIDE DEF q
<1>2. PICK f : Turns(h, v, p, n, f) /\ At(h, v, p) = f[n]
  BY <1>1, AtIs, Zenon
<1>3. PICK g : Turns(h, v, q, n + 1, g) /\ At(h, v, q) = g[n + 1]
  <2>1. Len(q) \in Nat
    BY <1>1
  <2>2. \E g : Turns(h, v, q, Len(q), g) /\ At(h, v, q) = g[Len(q)]
    BY <2>1, AtIs, Zenon
  <2> QED BY <1>1, <2>2
<1> HIDE DEF n
<1>4. (\A i \in 0 .. n : f[i] = Turn(h, v, p, f, i)) /\ \A i \in 0 .. n + 1 : g[i] = Turn(h, v, q, g, i)
  BY <1>2, <1>3 DEF Turns
<1> DEFINE T == {i \in Nat : i <= n => g[i] = f[i]}
<1>5. 0 \in T
  BY <1>1, <1>4 DEF Turn
<1>6. ASSUME NEW i \in T PROVE i + 1 \in T
  <2> SUFFICES ASSUME i + 1 <= n PROVE g[i + 1] = f[i + 1]
    OBVIOUS
  <2>1. i + 1 # 0 /\ (i + 1) - 1 = i /\ i + 1 \in 0 .. n /\ i + 1 \in 0 .. n + 1 /\ i + 1 \in 1 .. n /\ g[i] = f[i]
    BY <1>1
  <2>2. g[i + 1] = Slot(h, g[i], q[i + 1]) /\ f[i + 1] = Slot(h, f[i], p[i + 1])
    BY <1>4, <2>1 DEF Turn
  <2> QED BY <1>1, <2>1, <2>2
<1> HIDE DEF T
<1>7. T = Nat
  <2>1. T \in SUBSET Nat
    BY DEF T
  <2> QED BY <1>5, <1>6, <2>1, NatSets
<1>8. g[n] = f[n]
  BY <1>1, <1>7 DEF T
<1>9. g[n + 1] = Slot(h, g[n], q[n + 1])
  BY <1>1, <1>4 DEF Turn
<1> QED BY <1>1, <1>2, <1>3, <1>8, <1>9 DEF q

\* So it does from the slot of its first key on.
LEMMA AtCons ==
  ASSUME NEW h, NEW v, NEW S, NEW k \in S
  PROVE  \A p \in Seq(S) : At(h, v, <<k>> \o p) = At(h, Slot(h, v, k), p)
<1> DEFINE T == {p \in Seq(S) : At(h, v, <<k>> \o p) = At(h, Slot(h, v, k), p)}
<1>0. ASSUME NEW w, NEW p \in Seq(S), NEW l \in S
      PROVE  At(h, w, Append(p, l)) = Slot(h, At(h, w, p), l)
  BY AtAppend
<1>1. << >> \in T
  <2>1. <<k>> \o << >> = Append(<< >>, k) /\ << >> \in Seq(S)
    OBVIOUS
  <2>2. At(h, v, Append(<< >>, k)) = Slot(h, At(h, v, << >>), k)
    BY <1>0, <2>1
  <2> QED BY <2>1, <2>2, AtEmpty
<1>2. ASSUME NEW p \in T, NEW l \in S PROVE Append(p, l) \in T
  <2>1. <<k>> \o p \in Seq(S) /\ Append(<<k>> \o p, l) = <<k>> \o Append(p, l) /\ Append(p, l) \in Seq(S)
    BY PathCons, PathAppend
  <2>2. At(h, v, <<k>> \o Append(p, l)) = Slot(h, At(h, v, <<k>> \o p), l)
    BY <1>0, <2>1
  <2>3. At(h, Slot(h, v, k), Append(p, l)) = Slot(h, At(h, Slot(h, v, k), p), l)
    BY <1>0
  <2> QED BY <2>1, <2>2, <2>3
<1> HIDE DEF T
<1>3. T = Seq(S)
  <2>1. T \in SUBSET Seq(S)
    BY DEF T
  <2> QED BY <1>1, <1>2, <2>1, PathInduction
<1> QED BY <1>3 DEF T
-----------------------------------------------------------------------------
(***************************************************************************)
(* Values and containers.                                                  *)
(***************************************************************************)
LEMMA Shapes ==
  /\ \A n : IsRef(Ref(n)) /\ ~IsBin(Ref(n)) /\ Ref(n).node = n
  /\ \A n, k : IsBin(Bin(n, k)) /\ ~IsRef(Bin(n, k))
  /\ ~IsRef(Plain) /\ ~IsRef(Nil) /\ ~IsRef(Absent)
  /\ ~IsBin(Plain) /\ ~IsBin(Nil) /\ ~IsBin(Absent)
  /\ \A v : IsRef(v) => ~IsBin(v)
  BY DEF IsRef, IsBin, Ref, Bin, Plain, Nil, Absent

LEMMA HostValue ==
  ASSUME NEW v \in HostValues \cup {Absent}
  PROVE  /\ IsRef(v) => v.node \in 1 .. N /\ v = Ref(v.node)
         /\ ~IsRef(v) /\ ~IsBin(v) => v = Plain \/ v = Absent
  BY Shapes DEF HostValues

LEMMA ValueTypes ==
  /\ HostValues \subseteq Values /\ Nil \in Values
  /\ \A n \in Nat : Ref(n) \in Values
  BY SplitAssumption DEF HostValues, Values, Slots

\* What a value has at a key depends on the container that it refers to.
LEMMA SlotOf ==
  /\ \A h, v, k : ~IsRef(v) => Slot(h, v, k) = Absent
  /\ \A h, v, k : IsRef(v) => Slot(h, v, k) = Slot(h, Ref(v.node), k)
  /\ \A h, n, k : Slot(h, Ref(n), k) =
       IF k \in DOMAIN h[n].slots THEN h[n].slots[k] ELSE Absent
  BY Shapes DEF Slot

LEMMA HostSlot ==
  ASSUME NEW o \in Hosts, NEW n \in 1 .. N, NEW k \in Slots
  PROVE  Slot(o, Ref(n), k) = o[n].slots[k] /\ o[n].slots[k] \in HostValues
<1>1. o[n].slots \in [Slots -> HostValues]
  BY DEF Hosts
<1> QED BY <1>1, SlotOf

LEMMA ContainerSlots ==
  ASSUME NEW c \in Containers
  PROVE  c.slots \in [DOMAIN c.slots -> Values] /\ DOMAIN c.slots \subseteq Slots
<1>1. PICK D \in SUBSET Slots : c.slots \in [D -> Values]
  BY DEF Containers
<1> QED BY <1>1

\* The containers that a change makes.
LEMMA WithSlotDoes ==
  ASSUME NEW c \in Containers, NEW k \in DOMAIN c.slots, NEW v \in Values
  PROVE  LET d == WithSlot(c, k, v) IN
         /\ d \in Containers /\ d.kind = c.kind /\ DOMAIN d.slots = DOMAIN c.slots
         /\ d.slots[k] = v /\ \A x \in DOMAIN c.slots : x # k => d.slots[x] = c.slots[x]
  BY DEF WithSlot, Containers

LEMMA ExtractDoes ==
  ASSUME NEW c \in Containers, c.kind # "tuple", NEW k \in DOMAIN c.slots
  PROVE  LET d == Extract(c, k) IN
         /\ d \in Containers /\ d.kind = c.kind
         /\ \A x \in Slots : (IF x \in DOMAIN d.slots THEN d.slots[x] ELSE Absent) =
              IF x = k THEN Left(c.kind)
              ELSE IF x \in DOMAIN c.slots THEN c.slots[x] ELSE Absent
<1>1. CASE c.kind = "list"
  <2>1. Extract(c, k) = WithSlot(c, k, Nil)
    BY <1>1 DEF Extract
  <2> QED BY <1>1, <2>1, WithSlotDoes, ValueTypes DEF Left
<1>2. CASE c.kind # "list"
  <2>0. c.kind = "dict"
    BY <1>2 DEF Containers, Kinds
  <2> DEFINE d == Extract(c, k)
             slots == [x \in DOMAIN c.slots \ {k} |-> c.slots[x]]
  <2>1. d = [c EXCEPT !.slots = slots]
    BY <1>2 DEF Extract
  <2>2. slots \in [DOMAIN c.slots \ {k} -> Values] /\ DOMAIN c.slots \ {k} \in SUBSET Slots
    BY ContainerSlots
  <2>3. d \in Containers /\ d.kind = c.kind /\ d.slots = slots
    BY <2>1, <2>2 DEF Containers
  <2> QED BY <2>0, <2>3 DEF Left
<1> QED BY <1>1, <1>2

\* A new clone differs from its container only in that a tuple has become a list.
LEMMA CloneDoes ==
  ASSUME NEW c \in Containers
  PROVE  /\ Clone(c) \in Containers /\ Clone(c).slots = c.slots
         /\ Clone(c).kind = CloneKind(c.kind) /\ Clone(c).kind # "tuple"
         /\ Left(Clone(c).kind) = Left(c.kind)
<1>1. CloneKind(c.kind) \in Kinds /\ CloneKind(c.kind) # "tuple" /\ Left(CloneKind(c.kind)) = Left(c.kind)
  BY DEF CloneKind, Containers, Kinds, Left
<1> QED BY <1>1 DEF Clone, Containers

LEMMA PutDoes ==
  ASSUME NEW c \in Containers, NEW k \in Slots, NEW v \in Values
  PROVE  LET d == Put(c, k, v) IN
         /\ d \in Containers /\ d.kind = c.kind
         /\ \A x \in Slots : (IF x \in DOMAIN d.slots THEN d.slots[x] ELSE Absent) =
              IF x = k THEN v ELSE IF x \in DOMAIN c.slots THEN c.slots[x] ELSE Absent
<1> DEFINE d == Put(c, k, v)
           slots == [x \in DOMAIN c.slots \cup {k} |-> IF x = k THEN v ELSE c.slots[x]]
<1>1. d = [c EXCEPT !.slots = slots]
  BY DEF Put
<1>2. slots \in [DOMAIN c.slots \cup {k} -> Values] /\ DOMAIN c.slots \cup {k} \in SUBSET Slots
  BY ContainerSlots
<1>3. d \in Containers /\ d.kind = c.kind /\ d.slots = slots
  BY <1>1, <1>2 DEF Containers
<1> QED BY <1>3
-----------------------------------------------------------------------------
(***************************************************************************)
(* Paths through containers.                                               *)
(***************************************************************************)
LEMMA AtConcat ==
  ASSUME NEW h, NEW v, NEW p \in AllPaths
  PROVE  \A q \in AllPaths : At(h, v, p \o q) = At(h, At(h, v, p), q)
<1> DEFINE T == {q \in AllPaths : At(h, v, p \o q) = At(h, At(h, v, p), q)}
<1>0. ASSUME NEW w, NEW q \in AllPaths, NEW l \in Slots
      PROVE  At(h, w, Append(q, l)) = Slot(h, At(h, w, q), l)
  BY AtAppend DEF AllPaths
<1>1. << >> \in T
  <2>1. p \o << >> = p /\ << >> \in AllPaths
    BY DEF AllPaths
  <2> QED BY <2>1, AtEmpty
<1>2. ASSUME NEW q \in T, NEW l \in Slots PROVE Append(q, l) \in T
  <2>1. p \o q \in AllPaths /\ Append(p \o q, l) = p \o Append(q, l) /\ Append(q, l) \in AllPaths
    BY DEF AllPaths
  <2>2. At(h, v, p \o Append(q, l)) = Slot(h, At(h, v, p \o q), l)
    BY <1>0, <2>1
  <2>3. At(h, At(h, v, p), Append(q, l)) = Slot(h, At(h, At(h, v, p), q), l)
    BY <1>0
  <2> QED BY <2>1, <2>2, <2>3
<1> HIDE DEF T
<1>3. T = AllPaths
  <2>1. T \in SUBSET AllPaths
    BY DEF T
  <2> QED BY <1>1, <1>2, <2>1, PathInduction DEF AllPaths
<1> QED BY <1>3 DEF T

\* One key more, at either end.
LEMMA AtNext ==
  ASSUME NEW h, NEW v, NEW p \in AllPaths, NEW k \in Slots
  PROVE  At(h, v, Append(p, k)) = Slot(h, At(h, v, p), k)
  BY AtAppend DEF AllPaths

LEMMA AtStep ==
  ASSUME NEW h, NEW v, NEW k \in Slots, NEW p \in AllPaths
  PROVE  At(h, v, <<k>> \o p) = At(h, Slot(h, v, k), p)
  BY AtCons DEF AllPaths

\* From what is no container a path leads nowhere.
LEMMA AtNoRef ==
  ASSUME NEW h, NEW v, ~IsRef(v)
  PROVE  \A q \in AllPaths : At(h, v, q) = IF q = << >> THEN v ELSE Absent
<1> DEFINE T == {q \in AllPaths : At(h, v, q) = IF q = << >> THEN v ELSE Absent}
<1>1. << >> \in T
  BY AtEmpty DEF AllPaths
<1>2. ASSUME NEW q \in T, NEW k \in Slots PROVE Append(q, k) \in T
  <2>0. q \in AllPaths
    OBVIOUS
  <2>1. Append(q, k) \in AllPaths /\ Append(q, k) # << >>
    BY DEF AllPaths
  <2>2. At(h, v, Append(q, k)) = Slot(h, At(h, v, q), k)
    BY <2>0, AtNext
  <2>3. ~IsRef(At(h, v, q))
    BY Shapes
  <2> QED BY <2>1, <2>2, <2>3, SlotOf
<1> HIDE DEF T
<1>3. T = AllPaths
  <2>1. T \in SUBSET AllPaths
    BY DEF T
  <2> QED BY <1>1, <1>2, <2>1, PathInduction DEF AllPaths
<1> QED BY <1>3 DEF T

\* In the host's containers a path leads to a value of the host or nowhere, and so it does
\* when clones are added.
LEMMA HostAt ==
  ASSUME NEW o \in Hosts, NEW h, \A n \in 1 .. N : h[n] = o[n], NEW v \in HostValues \cup {Absent}
  PROVE  \A q \in AllPaths : At(o, v, q) \in HostValues \cup {Absent} /\ At(h, v, q) = At(o, v, q)
<1> DEFINE T == {q \in AllPaths : At(o, v, q) \in HostValues \cup {Absent} /\ At(h, v, q) = At(o, v, q)}
<1>1. << >> \in T
  BY AtEmpty DEF AllPaths
<1>2. ASSUME NEW q \in T, NEW k \in Slots PROVE Append(q, k) \in T
  <2> DEFINE w == At(o, v, q)
  <2>0. q \in AllPaths
    OBVIOUS
  <2>1. Append(q, k) \in AllPaths
    BY DEF AllPaths
  <2>2. At(o, v, Append(q, k)) = Slot(o, w, k) /\ At(h, v, Append(q, k)) = Slot(h, w, k)
    BY <2>0, AtNext
  <2>3. w \in HostValues \cup {Absent}
    OBVIOUS
  <2> HIDE DEF w
  <2>4. Slot(h, w, k) = Slot(o, w, k) /\ Slot(o, w, k) \in HostValues \cup {Absent}
    <3>1. CASE ~IsRef(w)
      BY <3>1, SlotOf
    <3>2. CASE IsRef(w)
      <4>1. w.node \in 1 .. N
        BY <2>3, <3>2, HostValue
      <4>2. h[w.node] = o[w.node]
        BY <4>1
      <4>3. Slot(h, w, k) = Slot(o, w, k)
        BY <3>2, <4>2, SlotOf
      <4>4. Slot(o, w, k) = Slot(o, Ref(w.node), k)
        BY <3>2, SlotOf
      <4> QED BY <4>1, <4>3, <4>4, HostSlot
    <3> QED BY <3>1, <3>2
  <2> QED BY <2>1, <2>2, <2>4
<1> HIDE DEF T
<1>3. T = AllPaths
  <2>1. T \in SUBSET AllPaths
    BY DEF T
  <2> QED BY <1>1, <1>2, <2>1, PathInduction DEF AllPaths
<1> QED BY <1>3 DEF T
-----------------------------------------------------------------------------
(***************************************************************************)
(* A change of one container is not seen where no reference to it leads.   *)
(***************************************************************************)

\* No reference leads to c, and each leads to a container.
Unseen(h, c) ==
  \A n \in DOMAIN h : \A k \in Slots :
    IsRef(Slot(h, Ref(n), k)) => Slot(h, Ref(n), k).node \in DOMAIN h \ {c}

\* h2 is h with another container c, which may be new.
OtherThan(h, h2, c) ==
  /\ DOMAIN h \subseteq DOMAIN h2 /\ Clones(h) \subseteq Clones(h2)
  /\ \A n \in DOMAIN h \ {c} : h2[n] = h[n]

Away(h, c, w) == IsRef(w) => w.node \in DOMAIN h \ {c}

LEMMA SlotAway ==
  ASSUME NEW h, NEW h2, NEW c, Unseen(h, c), OtherThan(h, h2, c), NEW w, Away(h, c, w),
         NEW k \in Slots
  PROVE  Slot(h2, w, k) = Slot(h, w, k) /\ Away(h, c, Slot(h, w, k))
<1>1. CASE ~IsRef(w)
  BY <1>1, SlotOf, Shapes DEF Away
<1>2. CASE IsRef(w)
  <2>1. w.node \in DOMAIN h \ {c}
    BY <1>2 DEF Away
  <2>2. h2[w.node] = h[w.node]
    BY <2>1 DEF OtherThan
  <2>3. Slot(h2, w, k) = Slot(h, w, k)
    BY <1>2, <2>2, SlotOf
  <2>4. Slot(h, w, k) = Slot(h, Ref(w.node), k)
    BY <1>2, SlotOf
  <2> QED BY <2>1, <2>3, <2>4 DEF Away, Unseen
<1> QED BY <1>1, <1>2

LEMMA AtAway ==
  ASSUME NEW h, NEW h2, NEW c, Unseen(h, c), OtherThan(h, h2, c), NEW w, Away(h, c, w)
  PROVE  \A q \in AllPaths : At(h2, w, q) = At(h, w, q) /\ Away(h, c, At(h, w, q))
<1> DEFINE T == {q \in AllPaths : At(h2, w, q) = At(h, w, q) /\ Away(h, c, At(h, w, q))}
<1>1. << >> \in T
  BY AtEmpty DEF AllPaths
<1>2. ASSUME NEW q \in T, NEW k \in Slots PROVE Append(q, k) \in T
  <2> DEFINE v == At(h, w, q)
  <2>0. q \in AllPaths /\ At(h2, w, q) = v /\ Away(h, c, v)
    OBVIOUS
  <2>1. Append(q, k) \in AllPaths
    BY <2>0 DEF AllPaths
  <2>2. At(h, w, Append(q, k)) = Slot(h, v, k) /\ At(h2, w, Append(q, k)) = Slot(h2, v, k)
    BY <2>0, AtNext
  <2> HIDE DEF v
  <2>3. Slot(h2, v, k) = Slot(h, v, k) /\ Away(h, c, Slot(h, v, k))
    BY <2>0, SlotAway
  <2> QED BY <2>1, <2>2, <2>3
<1> HIDE DEF T
<1>3. T = AllPaths
  <2>1. T \in SUBSET AllPaths
    BY DEF T
  <2> QED BY <1>1, <1>2, <2>1, PathInduction DEF AllPaths
<1> QED BY <1>3 DEF T

LEMMA BecomesAway ==
  ASSUME NEW o, NEW h, NEW h2, NEW c, OtherThan(h, h2, c), NEW v, NEW w, Away(h, c, w),
         Becomes(o, h, v, w)
  PROVE  Becomes(o, h2, v, w)
  BY DEF Becomes, Away, OtherThan

LEMMA StripsAway ==
  ASSUME NEW o, NEW h, NEW h2, NEW c, Unseen(h, c), OtherThan(h, h2, c), NEW v, NEW w,
         Away(h, c, w), Strips(o, h, v, w)
  PROVE  Strips(o, h2, v, w)
<1> SUFFICES ASSUME NEW q \in AllPaths
             PROVE  IF IsBin(At(o, v, q)) THEN At(h2, w, q) = Gap(o, v, q)
                    ELSE Becomes(o, h2, At(o, v, q), At(h2, w, q))
  BY DEF Strips
<1>1. At(h2, w, q) = At(h, w, q) /\ Away(h, c, At(h, w, q))
  BY AtAway
<1>2. IF IsBin(At(o, v, q)) THEN At(h, w, q) = Gap(o, v, q)
      ELSE Becomes(o, h, At(o, v, q), At(h, w, q))
  BY DEF Strips
<1>3. CASE IsBin(At(o, v, q))
  BY <1>1, <1>2, <1>3
<1>4. CASE ~IsBin(At(o, v, q))
  <2>1. Becomes(o, h2, At(o, v, q), At(h, w, q))
    BY <1>1, <1>2, <1>4, BecomesAway
  <2> QED BY <1>1, <1>4, <2>1
<1> QED BY <1>3, <1>4

\* So the work of another frame stays done.
LEMMA WorksAway ==
  ASSUME NEW o, NEW h, NEW h2, NEW c, Unseen(h, c), OtherThan(h, h2, c), NEW f, NEW r,
         f.clone = 0 \/ f.clone \in DOMAIN h, f.clone # c, Works(o, h, f, r)
  PROVE  Works(o, h2, f, r)
<1>1. CASE f.clone = 0
  BY <1>1 DEF Works
<1>2. CASE f.clone # 0
  <2> DEFINE v(k) == o[f.node].slots[k]
             w(k) == Slot(h, Ref(f.clone), k)
  <2>1. f.clone \in DOMAIN h \ {c} /\ h2[f.clone] = h[f.clone]
    BY <1>2 DEF OtherThan
  <2>2. Away(h, c, Ref(f.clone))
    BY <2>1, Shapes DEF Away
  <2>3. ASSUME NEW k \in Slots
        PROVE  Done1(o, h2, f.node, v(k), Slot(h2, Ref(f.clone), k), k < r)
    <3>1. Slot(h2, Ref(f.clone), k) = w(k) /\ Away(h, c, w(k))
      BY <2>2, SlotAway
    <3>2. Done1(o, h, f.node, v(k), w(k), k < r)
      BY <1>2 DEF Works
    <3>3. CASE k < r /\ ~IsBin(v(k))
      <4>1. Strips(o, h, v(k), w(k))
        BY <3>2, <3>3 DEF Done1
      <4> HIDE DEF v, w
      <4>2. Strips(o, h2, v(k), w(k))
        BY <3>1, <4>1, StripsAway
      <4> QED BY <3>1, <3>3, <4>2 DEF Done1
    <3>4. CASE ~(k < r) \/ IsBin(v(k))
      <4> HIDE DEF v, w
      <4> QED BY <3>1, <3>2, <3>4 DEF Done1
    <3> QED BY <3>3, <3>4
  <2>4. ~Clean(o, Ref(f.node)) /\ h2[f.clone].kind = CloneKind(o[f.node].kind)
    BY <1>2, <2>1 DEF Works
  <2> QED BY <1>2, <2>3, <2>4 DEF Works
<1> QED BY <1>1, <1>2
-----------------------------------------------------------------------------
(***************************************************************************)
(* What is clean, and what is stripped.                                    *)
(***************************************************************************)
LEMMA PlainIsClean ==
  ASSUME NEW o, NEW v, ~IsRef(v), ~IsBin(v)
  PROVE  Clean(o, v) /\ \A d : ~Deep(o, v, d)
<1>1. \A q \in AllPaths : At(o, v, q) = v \/ At(o, v, q) = Absent
  BY AtNoRef
<1> QED BY <1>1, Shapes DEF Clean, Deep

LEMMA BinIsFlat ==
  ASSUME NEW o, NEW v, IsBin(v)
  PROVE  \A d : ~Deep(o, v, d)
<1>0. ~IsRef(v)
  BY Shapes
<1>1. \A q \in AllPaths : At(o, v, q) = v \/ At(o, v, q) = Absent
  BY <1>0, AtNoRef
<1> QED BY <1>0, <1>1, Shapes DEF Deep

\* A path is empty or has a first key.
LEMMA PathCases ==
  ASSUME NEW q \in AllPaths
  PROVE  \/ q = << >>
         \/ \E k \in Slots : \E r \in AllPaths : q = <<k>> \o r /\ Len(q) = Len(r) + 1
<1> SUFFICES ASSUME q # << >>
             PROVE  \E k \in Slots : \E r \in AllPaths : q = <<k>> \o r /\ Len(q) = Len(r) + 1
  OBVIOUS
<1>1. /\ Tail(q) \in AllPaths /\ q[1] \in Slots /\ q = <<q[1]>> \o Tail(q)
      /\ Len(q) = Len(Tail(q)) + 1
  BY PathFirst DEF AllPaths
<1> QED BY <1>1, Zenon

LEMMA CleanRef ==
  ASSUME NEW o \in Hosts, NEW n \in 1 .. N
  PROVE  Clean(o, Ref(n)) <=> \A k \in Slots : Clean(o, o[n].slots[k])
<1>1. ASSUME NEW k \in Slots, NEW q \in AllPaths
      PROVE  At(o, Ref(n), <<k>> \o q) = At(o, o[n].slots[k], q) /\ <<k>> \o q \in AllPaths
  <2>1. At(o, Ref(n), <<k>> \o q) = At(o, Slot(o, Ref(n), k), q)
    BY AtStep
  <2>2. <<k>> \o q \in AllPaths
    BY DEF AllPaths
  <2> QED BY <2>1, <2>2, HostSlot
<1>2. ASSUME Clean(o, Ref(n)), NEW k \in Slots PROVE Clean(o, o[n].slots[k])
  BY <1>1, <1>2 DEF Clean
<1>3. ASSUME \A k \in Slots : Clean(o, o[n].slots[k]) PROVE Clean(o, Ref(n))
  <2> SUFFICES ASSUME NEW q \in AllPaths PROVE ~IsBin(At(o, Ref(n), q))
    BY DEF Clean
  <2>1. CASE q = << >>
    BY <2>1, AtEmpty, Shapes
  <2>2. CASE \E k \in Slots : \E r \in AllPaths : q = <<k>> \o r
    <3>1. PICK k \in Slots : \E r \in AllPaths : q = <<k>> \o r
      BY <2>2
    <3>2. PICK r \in AllPaths : q = <<k>> \o r
      BY <3>1
    <3>3. At(o, Ref(n), q) = At(o, o[n].slots[k], r)
      BY <1>1, <3>2
    <3> QED BY <1>3, <3>3 DEF Clean
  <2> QED BY <2>1, <2>2, PathCases
<1> QED BY <1>2, <1>3

\* What is clean is clean all the way down, and stripped as it is.
LEMMA CleanBelow ==
  ASSUME NEW o, NEW v, Clean(o, v), NEW p \in AllPaths
  PROVE  Clean(o, At(o, v, p))
<1> SUFFICES ASSUME NEW q \in AllPaths PROVE ~IsBin(At(o, At(o, v, p), q))
  BY DEF Clean
<1>1. At(o, v, p \o q) = At(o, At(o, v, p), q)
  BY AtConcat
<1>2. p \o q \in AllPaths
  BY DEF AllPaths
<1> QED BY <1>1, <1>2 DEF Clean

LEMMA CleanStrips ==
  ASSUME NEW o \in Hosts, NEW h \in Heaps(o), NEW v \in HostValues, Clean(o, v)
  PROVE  Strips(o, h, v, v)
<1> SUFFICES ASSUME NEW q \in AllPaths
             PROVE  ~IsBin(At(o, v, q)) /\ Becomes(o, h, At(o, v, q), At(h, v, q))
  BY DEF Strips
<1>0. \A n \in 1 .. N : h[n] = o[n]
  BY DEF Heaps
<1>1. At(h, v, q) = At(o, v, q)
  BY <1>0, HostAt
<1>2. Clean(o, At(o, v, q)) /\ ~IsBin(At(o, v, q))
  BY CleanBelow DEF Clean
<1> QED BY <1>1, <1>2 DEF Becomes

LEMMA FrontCons ==
  ASSUME NEW k \in Slots, NEW r \in AllPaths, r # << >>
  PROVE  Front(<<k>> \o r) = <<k>> \o Front(r) /\ Front(r) \in AllPaths
<1>1. Front(r) \in AllPaths /\ Last(r) \in Slots /\ r = Append(Front(r), Last(r))
  BY PathLast DEF AllPaths
<1>2. <<k>> \o Front(r) \in Seq(Slots) /\ Append(<<k>> \o Front(r), Last(r)) = <<k>> \o r
  <2>1. Front(r) \in Seq(Slots) /\ <<k>> \o Front(r) \in Seq(Slots)
    BY <1>1 DEF AllPaths
  <2>2. Append(<<k>> \o Front(r), Last(r)) = <<k>> \o Append(Front(r), Last(r))
    <3>1. ASSUME NEW f \in Seq(Slots), NEW l \in Slots
          PROVE  Append(<<k>> \o f, l) = <<k>> \o Append(f, l)
      OBVIOUS
    <3> QED BY <1>1, <2>1, <3>1
  <2> QED BY <1>1, <2>1, <2>2
<1>3. Front(Append(<<k>> \o Front(r), Last(r))) = <<k>> \o Front(r)
  BY <1>1, <1>2, PathAppend
<1> QED BY <1>1, <1>2, <1>3

\* A clone of which all is done is what should become of its container.
LEMMA StripsRef ==
  ASSUME NEW o \in Hosts, NEW h, NEW n \in 1 .. N, NEW c \in Clones(h),
         ~Clean(o, Ref(n)), h[c].kind = CloneKind(o[n].kind),
         \A k \in Slots : Done1(o, h, n, o[n].slots[k], Slot(h, Ref(c), k), TRUE)
  PROVE  Strips(o, h, Ref(n), Ref(c))
<1> SUFFICES ASSUME NEW q \in AllPaths
             PROVE  IF IsBin(At(o, Ref(n), q)) THEN At(h, Ref(c), q) = Gap(o, Ref(n), q)
                    ELSE Becomes(o, h, At(o, Ref(n), q), At(h, Ref(c), q))
  BY DEF Strips
<1>1. CASE q = << >>
  <2>1. At(o, Ref(n), q) = Ref(n) /\ At(h, Ref(c), q) = Ref(c)
    BY <1>1, AtEmpty
  <2> QED BY <2>1, Shapes DEF Becomes
<1>2. CASE \E k \in Slots : \E r \in AllPaths : q = <<k>> \o r
  <2>1. PICK k \in Slots : \E r \in AllPaths : q = <<k>> \o r
    BY <1>2
  <2>2. PICK r \in AllPaths : q = <<k>> \o r
    BY <2>1
  <2> DEFINE v == o[n].slots[k]
             w == Slot(h, Ref(c), k)
  <2>3. Done1(o, h, n, v, w, TRUE)
    OBVIOUS
  <2>4. At(o, Ref(n), q) = At(o, v, r)
    BY <2>2, AtStep, HostSlot
  <2>5. At(h, Ref(c), q) = At(h, w, r)
    BY <2>2, AtStep
  <2>6. r # << >> => Gap(o, Ref(n), q) = Gap(o, v, r)
    <3> SUFFICES ASSUME r # << >> PROVE Gap(o, Ref(n), q) = Gap(o, v, r)
      OBVIOUS
    <3>1. Front(q) = <<k>> \o Front(r) /\ Front(r) \in AllPaths
      BY <2>2, FrontCons
    <3>2. At(o, Ref(n), <<k>> \o Front(r)) = At(o, v, Front(r))
      BY <3>1, AtStep, HostSlot
    <3> QED BY <3>1, <3>2 DEF Gap
  <2>7. r = << >> => Gap(o, Ref(n), q) = Left(o[n].kind)
    <3> SUFFICES ASSUME r = << >> PROVE Gap(o, Ref(n), q) = Left(o[n].kind)
      OBVIOUS
    <3>1. q = Append(<< >>, k) /\ << >> \in Seq(Slots)
      BY <2>2
    <3>2. Front(q) = << >>
      BY <3>1, PathAppend
    <3>3. At(o, Ref(n), Front(q)).node = n
      BY <3>2, AtEmpty, Shapes
    <3> QED BY <3>3 DEF Gap
  <2> HIDE DEF v, w
  <2>8. CASE IsBin(v)
    <3>1. w = Left(o[n].kind) /\ ~IsRef(w) /\ ~IsRef(v)
      BY <2>3, <2>8, Shapes DEF Done1, Left
    <3>2. CASE r = << >>
      BY <2>4, <2>5, <2>7, <2>8, <3>1, <3>2, AtEmpty
    <3>3. CASE r # << >>
      <4>1. At(o, v, r) = Absent /\ At(h, w, r) = Absent
        BY <3>1, <3>3, AtNoRef
      <4> QED BY <2>4, <2>5, <4>1, Shapes DEF Becomes
    <3> QED BY <3>2, <3>3
  <2>9. CASE ~IsBin(v)
    <3>1. Strips(o, h, v, w)
      BY <2>3, <2>9 DEF Done1
    <3>2. CASE IsBin(At(o, v, r))
      <4>1. r # << >>
        BY <2>9, <3>2, AtEmpty
      <4>2. At(h, w, r) = Gap(o, v, r)
        BY <3>1, <3>2 DEF Strips
      <4> QED BY <2>4, <2>5, <2>6, <3>2, <4>1, <4>2
    <3>3. CASE ~IsBin(At(o, v, r))
      <4>1. Becomes(o, h, At(o, v, r), At(h, w, r))
        BY <3>1, <3>3 DEF Strips
      <4> QED BY <2>4, <2>5, <3>3, <4>1
    <3> QED BY <3>2, <3>3
  <2> QED BY <2>8, <2>9
<1> QED BY <1>1, <1>2, PathCases
-----------------------------------------------------------------------------
(***************************************************************************)
(* Depth.                                                                  *)
(***************************************************************************)
LEMMA DeepRef ==
  ASSUME NEW o \in Hosts, NEW n \in 1 .. N, NEW d \in Nat
  PROVE  /\ Deep(o, Ref(n), 0)
         /\ Deep(o, Ref(n), d + 1) <=> \E k \in Slots : Deep(o, o[n].slots[k], d)
<1>0. Deep(o, Ref(n), 0)
  <2>1. << >> \in AllPaths /\ Len(<< >>) = 0
    BY DEF AllPaths
  <2> QED BY <2>1, AtEmpty, Shapes DEF Deep
<1>1. ASSUME NEW k \in Slots, NEW q \in AllPaths
      PROVE  At(o, Ref(n), <<k>> \o q) = At(o, o[n].slots[k], q)
  <2>1. At(o, Ref(n), <<k>> \o q) = At(o, Slot(o, Ref(n), k), q)
    BY AtStep
  <2> QED BY <2>1, HostSlot
<1>2. ASSUME NEW k \in Slots, Deep(o, o[n].slots[k], d) PROVE Deep(o, Ref(n), d + 1)
  <2>1. PICK q \in AllPaths : Len(q) = d /\ IsRef(At(o, o[n].slots[k], q))
    BY <1>2 DEF Deep
  <2>2. <<k>> \o q \in AllPaths /\ Len(<<k>> \o q) = d + 1
    BY <2>1 DEF AllPaths
  <2> QED BY <1>1, <2>1, <2>2 DEF Deep
<1>3. ASSUME Deep(o, Ref(n), d + 1) PROVE \E k \in Slots : Deep(o, o[n].slots[k], d)
  <2>1. PICK q \in AllPaths : Len(q) = d + 1 /\ IsRef(At(o, Ref(n), q))
    BY <1>3 DEF Deep
  <2>2. q # << >>
    BY <2>1
  <2>3. PICK k \in Slots : \E r \in AllPaths : q = <<k>> \o r /\ Len(q) = Len(r) + 1
    BY <2>2, PathCases
  <2>4. PICK r \in AllPaths : q = <<k>> \o r /\ Len(q) = Len(r) + 1
    BY <2>3
  <2>5. Len(r) = d
    BY <2>1, <2>4 DEF AllPaths
  <2> QED BY <1>1, <2>1, <2>4, <2>5 DEF Deep
<1> QED BY <1>0, <1>2, <1>3

\* A path that leads anywhere comes by containers only.
LEMMA DeepBefore ==
  ASSUME NEW o, NEW v
  PROVE  \A p \in AllPaths : At(o, v, p) # Absent => \A d \in Nat : d < Len(p) => Deep(o, v, d)
<1> DEFINE T == {p \in AllPaths : At(o, v, p) # Absent => \A d \in Nat : d < Len(p) => Deep(o, v, d)}
<1>1. << >> \in T
  BY DEF AllPaths
<1>2. ASSUME NEW p \in T, NEW k \in Slots PROVE Append(p, k) \in T
  <2>0. p \in AllPaths
    OBVIOUS
  <2>1. Append(p, k) \in AllPaths /\ Len(Append(p, k)) = Len(p) + 1 /\ Len(p) \in Nat
    BY <2>0 DEF AllPaths
  <2> SUFFICES ASSUME At(o, v, Append(p, k)) # Absent, NEW d \in Nat, d < Len(p) + 1
               PROVE  Deep(o, v, d)
    BY <2>1
  <2>2. Slot(o, At(o, v, p), k) # Absent
    BY <2>0, AtNext
  <2>3. IsRef(At(o, v, p))
    BY <2>2, SlotOf
  <2>4. CASE d = Len(p)
    BY <2>0, <2>3, <2>4 DEF Deep
  <2>5. CASE d < Len(p)
    BY <2>3, <2>5, Shapes
  <2> QED BY <2>1, <2>4, <2>5
<1> HIDE DEF T
<1>3. T = AllPaths
  <2>1. T \in SUBSET AllPaths
    BY DEF T
  <2> QED BY <1>1, <1>2, <2>1, PathInduction DEF AllPaths
<1> QED BY <1>3 DEF T

\* A state with a cycle is as deep as you like.
LEMMA CycleDeep ==
  ASSUME NEW o \in Hosts, NEW A \in SUBSET (1 .. N),
         \A n \in A : \E k \in Slots : \E m \in A : o[n].slots[k] = Ref(m)
  PROVE  \A d \in Nat : \A n \in A : Deep(o, Ref(n), d)
<1> DEFINE T == {d \in Nat : \A n \in A : Deep(o, Ref(n), d)}
<1>1. 0 \in T
  BY DeepRef
<1>2. ASSUME NEW d \in T PROVE d + 1 \in T
  <2> SUFFICES ASSUME NEW n \in A PROVE Deep(o, Ref(n), d + 1)
    OBVIOUS
  <2>1. PICK k \in Slots : \E m \in A : o[n].slots[k] = Ref(m)
    OBVIOUS
  <2>2. Deep(o, o[n].slots[k], d)
    BY <2>1
  <2> QED BY <2>2, DeepRef
<1> HIDE DEF T
<1>3. T = Nat
  <2>1. T \in SUBSET Nat
    BY DEF T
  <2> QED BY <1>1, <1>2, <2>1, NatSets
<1> QED BY <1>3 DEF T
-----------------------------------------------------------------------------
(***************************************************************************)
(* The frames.                                                             *)
(***************************************************************************)
LEMMA FrameTypes ==
  ASSUME NEW s \in Seq(Frames), NEW i \in DOMAIN s
  PROVE  /\ s[i] \in Frames /\ i \in Nat \ {0} /\ i <= Len(s) /\ Len(s) \in Nat
         /\ s[i].node \in 1 .. N /\ s[i].clone \in Nat /\ s[i].key \in Nat
         /\ s[i].path \in AllPaths /\ s[i].next \in Nat /\ 1 <= s[i].next /\ s[i].next <= Width + 1
         /\ Reached(s, i) \in Nat
<1>1. s[i] \in Frames /\ i \in Nat \ {0} /\ i <= Len(s) /\ Len(s) \in Nat
  OBVIOUS
<1>2. /\ s[i].node \in 1 .. N /\ s[i].clone \in Nat /\ s[i].key \in Nat
      /\ s[i].path \in AllPaths /\ s[i].next \in 1 .. Width + 1
  BY <1>1 DEF Frames
<1>3. s[i].next \in Nat /\ 1 <= s[i].next /\ s[i].next <= Width + 1
  BY <1>2, SplitAssumption
<1>4. Reached(s, i) \in Nat
  BY <1>3 DEF Reached
<1> QED BY <1>1, <1>2, <1>3, <1>4

\* The path of a frame leads to its container.
LEMMA ChainHost ==
  ASSUME NEW o \in Hosts, NEW h, NEW s \in Seq(Frames), Chain(o, h, s)
  PROVE  \A i \in DOMAIN s : At(o, Ref(1), s[i].path) = Ref(s[i].node)
<1> DEFINE T == {i \in Nat : i + 1 \in DOMAIN s =>
                   At(o, Ref(1), s[i + 1].path) = Ref(s[i + 1].node)}
<1>1. 0 \in T
  <2> SUFFICES ASSUME 1 \in DOMAIN s PROVE At(o, Ref(1), s[1].path) = Ref(s[1].node)
    OBVIOUS
  <2>1. s[1].path \in AllPaths /\ Len(s[1].path) = 0 /\ s[1].node = 1
    BY FrameTypes DEF Chain
  <2>2. s[1].path = << >>
    BY <2>1 DEF AllPaths
  <2> QED BY <2>1, <2>2, AtEmpty
<1>2. ASSUME NEW i \in T PROVE i + 1 \in T
  <2> SUFFICES ASSUME (i + 1) + 1 \in DOMAIN s
               PROVE  At(o, Ref(1), s[(i + 1) + 1].path) = Ref(s[(i + 1) + 1].node)
    OBVIOUS
  <2> DEFINE j == i + 1
  <2>1. i \in Nat /\ j \in DOMAIN s /\ j < Len(s) /\ j + 1 \in DOMAIN s
    OBVIOUS
  <2>2. At(o, Ref(1), s[j].path) = Ref(s[j].node)
    BY <2>1
  <2> HIDE DEF j
  <2>3. /\ s[j + 1].key \in Slots /\ s[j + 1].path = Append(s[j].path, s[j + 1].key)
        /\ o[s[j].node].slots[s[j + 1].key] = Ref(s[j + 1].node)
    BY <2>1 DEF Chain
  <2>4. s[j].path \in AllPaths /\ s[j].node \in 1 .. N
    BY <2>1, FrameTypes
  <2>5. At(o, Ref(1), s[j + 1].path) = Slot(o, Ref(s[j].node), s[j + 1].key)
    BY <2>2, <2>3, <2>4, AtNext
  <2>6. At(o, Ref(1), s[j + 1].path) = Ref(s[j + 1].node)
    BY <2>3, <2>4, <2>5, HostSlot
  <2> QED BY <2>6 DEF j
<1> HIDE DEF T
<1>3. T = Nat
  <2>1. T \in SUBSET Nat
    BY DEF T
  <2> QED BY <1>1, <1>2, <2>1, NatSets
<1> SUFFICES ASSUME NEW i \in DOMAIN s PROVE At(o, Ref(1), s[i].path) = Ref(s[i].node)
  OBVIOUS
<1>4. i - 1 \in T /\ (i - 1) + 1 = i
  BY <1>3
<1> QED BY <1>4 DEF T
-----------------------------------------------------------------------------
(***************************************************************************)
(* The change of one slot.                                                 *)
(***************************************************************************)

\* h2 is h with a container c that has w in slot k and is otherwise as b was: c itself,
\* or the container of the host that c is a new clone of.
Edited(h, h2, c, b, k, w) ==
  /\ OtherThan(h, h2, c)
  /\ DOMAIN h2 = DOMAIN h \cup {c} /\ Clones(h2) = Clones(h) \cup {c}
  /\ IF c \in DOMAIN h THEN b = c ELSE b \in 1 .. N
  /\ h2[c].kind = IF c \in DOMAIN h THEN h[b].kind ELSE CloneKind(h[b].kind)
  /\ \A x \in Slots : Slot(h2, Ref(c), x) = IF x = k THEN w ELSE Slot(h, Ref(b), x)

\* The container that a frame's next change is based on.
Base(f) == IF f.clone = 0 THEN f.node ELSE f.clone

LEMMA HeapTypes ==
  ASSUME NEW o, NEW h \in Heaps(o)
  PROVE  /\ h \in Seq(Containers) /\ Len(h) \in Nat /\ N \in Nat /\ 1 <= N /\ N <= Len(h)
         /\ DOMAIN h = 1 .. Len(h) /\ 1 .. N \subseteq DOMAIN h /\ Clones(h) \subseteq DOMAIN h
         /\ \A n \in DOMAIN h : h[n] \in Containers /\ (n \notin Clones(h) => n \in 1 .. N)
         /\ \A n \in 1 .. N : h[n] = o[n] /\ n \notin Clones(h)
  BY SplitAssumption DEF Heaps, Clones

\* The slots of the container d are those of b with w in slot k.
Fits(h, b, k, w, d) ==
  \A x \in Slots : (IF x \in DOMAIN d.slots THEN d.slots[x] ELSE Absent) =
    IF x = k THEN w ELSE Slot(h, Ref(b), x)

\* The container d in the place of c, or of a new one e.
LEMMA Edit ==
  ASSUME NEW o, NEW h \in Heaps(o), NEW b \in DOMAIN h, NEW d \in Containers, NEW k, NEW w,
         Fits(h, b, k, w, d), NEW e \in Containers
  PROVE  /\ \A c \in Clones(h) : b = c /\ d.kind = h[b].kind =>
              LET h2 == [h EXCEPT ![c] = d] IN h2 \in Heaps(o) /\ Edited(h, h2, c, b, k, w)
         /\ b \in 1 .. N /\ d.kind = CloneKind(h[b].kind) =>
              LET h2 == [Append(h, e) EXCEPT ![Len(h) + 1] = d] IN
              h2 \in Heaps(o) /\ Edited(h, h2, Len(h) + 1, b, k, w) /\ Len(h) + 1 \in Clones(h2)
<1>0. /\ h \in Seq(Containers) /\ Len(h) \in Nat /\ N \in Nat /\ 1 <= N /\ N <= Len(h)
      /\ \A n \in 1 .. N : h[n] = o[n]
  BY HeapTypes
<1>1. ASSUME NEW h2, NEW c, h2[c] = d
      PROVE  \A x \in Slots : Slot(h2, Ref(c), x) = IF x = k THEN w ELSE Slot(h, Ref(b), x)
  BY <1>1, SlotOf DEF Fits
<1>2. ASSUME NEW c \in Clones(h), b = c, d.kind = h[b].kind
      PROVE  LET h2 == [h EXCEPT ![c] = d] IN h2 \in Heaps(o) /\ Edited(h, h2, c, b, k, w)
  <2> DEFINE h2 == [h EXCEPT ![c] = d]
  <2>0. c \in 1 .. Len(h) /\ c \notin 1 .. N
    BY <1>0 DEF Clones
  <2>1. /\ h2 \in Seq(Containers) /\ Len(h2) = Len(h) /\ h2[c] = d
        /\ \A n \in 1 .. Len(h) : n # c => h2[n] = h[n]
    BY <1>0, <2>0
  <2> HIDE DEF h2
  <2>2. h2 \in Heaps(o)
    <3>1. \A n \in 1 .. N : n \in 1 .. Len(h) /\ n # c
      BY <1>0, <2>0
    <3>2. \A n \in 1 .. N : h2[n] = o[n]
      BY <1>0, <2>1, <3>1
    <3> QED BY <1>0, <2>1, <3>2 DEF Heaps
  <2>3. DOMAIN h2 = DOMAIN h \cup {c} /\ Clones(h2) = Clones(h) \cup {c} /\ c \in DOMAIN h
    <3>1. DOMAIN h = 1 .. Len(h) /\ DOMAIN h2 = 1 .. Len(h)
      BY <1>0, <2>1
    <3> QED BY <1>2, <2>0, <2>1, <3>1 DEF Clones
  <2>4. OtherThan(h, h2, c)
    BY <1>0, <2>1, <2>3 DEF OtherThan
  <2>5. /\ h2[c].kind = h[b].kind
        /\ \A x \in Slots : Slot(h2, Ref(c), x) = IF x = k THEN w ELSE Slot(h, Ref(b), x)
    BY <1>1, <1>2, <2>1
  <2>6. Edited(h, h2, c, b, k, w)
    BY <1>2, <2>3, <2>4, <2>5 DEF Edited
  <2> QED BY <2>2, <2>6 DEF h2
<1>3. ASSUME b \in 1 .. N, d.kind = CloneKind(h[b].kind)
      PROVE  LET h2 == [Append(h, e) EXCEPT ![Len(h) + 1] = d] IN
             h2 \in Heaps(o) /\ Edited(h, h2, Len(h) + 1, b, k, w) /\ Len(h) + 1 \in Clones(h2)
  <2> DEFINE g == Append(h, e)
             c == Len(h) + 1
             h2 == [g EXCEPT ![c] = d]
  <2>1. g \in Seq(Containers) /\ Len(g) = c /\ \A n \in 1 .. Len(h) : g[n] = h[n]
    BY <1>0
  <2>2. c \in 1 .. Len(g) /\ c \notin 1 .. Len(h) /\ c \in Nat
    BY <1>0, <2>1
  <2> HIDE DEF g, c
  <2>3. /\ h2 \in Seq(Containers) /\ Len(h2) = c /\ h2[c] = d
        /\ \A n \in 1 .. Len(h) : h2[n] = h[n]
    BY <1>0, <2>1, <2>2
  <2> HIDE DEF h2
  <2>4. h2 \in Heaps(o)
    BY <1>0, <2>2, <2>3 DEF Heaps, c
  <2>5. DOMAIN h2 = DOMAIN h \cup {c} /\ Clones(h2) = Clones(h) \cup {c} /\ c \notin DOMAIN h
    BY <1>0, <2>2, <2>3 DEF Clones, c
  <2>6. OtherThan(h, h2, c)
    BY <1>0, <2>3, <2>5 DEF OtherThan
  <2>7. /\ h2[c].kind = CloneKind(h[b].kind)
        /\ \A x \in Slots : Slot(h2, Ref(c), x) = IF x = k THEN w ELSE Slot(h, Ref(b), x)
    BY <1>1, <1>3, <2>3
  <2>8. Edited(h, h2, c, b, k, w)
    BY <1>3, <2>5, <2>6, <2>7 DEF Edited
  <2> QED BY <2>4, <2>5, <2>8 DEF h2, g, c
<1> QED BY <1>2, <1>3

\* What a change of a frame's clone leaves in its slot.
Leaves(h, f, v) == IF IsBin(v) THEN Left(h[Base(f)].kind) ELSE v

LEMMA ChangeDoes ==
  ASSUME NEW o, NEW h \in Heaps(o), NEW f \in Frames, f.clone = 0 \/ f.clone \in Clones(h),
         f.clone # 0 => h[f.clone].kind # "tuple",
         NEW k \in Slots, NEW v \in Values, Slot(h, Ref(Base(f)), k) # Absent
  PROVE  /\ Change(h, f, k, v) \in Heaps(o)
         /\ CloneOf(h, f) \in Clones(Change(h, f, k, v))
         /\ Edited(h, Change(h, f, k, v), CloneOf(h, f), Base(f), k, Leaves(h, f, v))
<1> DEFINE b == Base(f)
           e == IF f.clone = 0 THEN Clone(h[b]) ELSE h[b]
           d == IF IsBin(v) THEN Extract(e, k) ELSE WithSlot(e, k, v)
<1>0. f.node \in 1 .. N
  BY DEF Frames
<1>1. b \in DOMAIN h /\ h[b] \in Containers
  BY <1>0, HeapTypes DEF Base
<1>2. /\ e \in Containers /\ e.kind # "tuple" /\ e.slots = h[b].slots
      /\ Left(e.kind) = Left(h[b].kind)
      /\ e.kind = IF f.clone = 0 THEN CloneKind(h[b].kind) ELSE h[b].kind
  BY <1>1, CloneDoes DEF Base
<1> HIDE DEF e
<1>3. d \in Containers /\ d.kind = e.kind /\ Fits(h, b, k, Leaves(h, f, v), d)
  <2>1. k \in DOMAIN e.slots /\ \A x \in Slots :
          Slot(h, Ref(b), x) = IF x \in DOMAIN e.slots THEN e.slots[x] ELSE Absent
    BY <1>2, SlotOf
  <2>2. CASE IsBin(v)
    BY <1>2, <2>1, <2>2, ExtractDoes DEF Leaves, Fits
  <2>3. CASE ~IsBin(v)
    BY <1>2, <2>1, <2>3, WithSlotDoes DEF Leaves, Fits
  <2> QED BY <2>2, <2>3
<1>4. CASE f.clone = 0
  <2>1. b = f.node /\ CloneOf(h, f) = Len(h) + 1 /\ Cloned(h, f) = Append(h, e)
    BY <1>4 DEF Base, CloneOf, Cloned, e
  <2>2. Append(h, e)[Len(h) + 1] = e
    BY <1>2, HeapTypes
  <2>3. Change(h, f, k, v) = [Append(h, e) EXCEPT ![Len(h) + 1] = d]
    BY <2>1, <2>2 DEF Change
  <2>4. b \in 1 .. N /\ d.kind = CloneKind(h[b].kind)
    BY <1>0, <1>2, <1>3, <1>4, <2>1
  <2> HIDE DEF b, d
  <2>5. /\ Change(h, f, k, v) \in Heaps(o) /\ Len(h) + 1 \in Clones(Change(h, f, k, v))
        /\ Edited(h, Change(h, f, k, v), Len(h) + 1, b, k, Leaves(h, f, v))
    BY <1>1, <1>2, <1>3, <2>3, <2>4, Edit
  <2> QED BY <2>1, <2>5 DEF b
<1>5. CASE f.clone # 0
  <2>1. b = f.clone /\ CloneOf(h, f) = b /\ Cloned(h, f) = h /\ b \in Clones(h) /\ e = h[b]
    BY <1>5 DEF Base, CloneOf, Cloned, e
  <2>2. d.kind = h[b].kind
    BY <1>3, <2>1
  <2>3. Change(h, f, k, v) = [h EXCEPT ![b] = d]
    BY <2>1 DEF Change
  <2> HIDE DEF b, d
  <2>4. Change(h, f, k, v) \in Heaps(o) /\ Edited(h, Change(h, f, k, v), b, b, k, Leaves(h, f, v))
    <3>1. \A c \in Clones(h) : b = c =>
            /\ [h EXCEPT ![c] = d] \in Heaps(o)
            /\ Edited(h, [h EXCEPT ![c] = d], c, b, k, Leaves(h, f, v))
      BY <1>1, <1>2, <1>3, <2>2, Edit
    <3> QED BY <2>1, <2>3, <3>1
  <2> QED BY <2>1, <2>4 DEF b, Edited
<1> QED BY <1>4, <1>5
-----------------------------------------------------------------------------
(***************************************************************************)
(* References to clones.                                                   *)
(***************************************************************************)

\* The host's containers have none.
LEMMA HostLinks ==
  ASSUME NEW o \in Hosts, NEW h \in Heaps(o), NEW n \in 1 .. N, NEW k \in Slots,
         IsRef(Slot(h, Ref(n), k))
  PROVE  Slot(h, Ref(n), k).node \in 1 .. N
<1>1. h[n] = o[n]
  BY HeapTypes
<1>2. Slot(h, Ref(n), k) = Slot(o, Ref(n), k)
  BY <1>1, SlotOf
<1> QED BY <1>2, HostSlot, HostValue

LEMMA LinksUnseen ==
  ASSUME NEW o, NEW h \in Heaps(o), NEW held, Links(h, held), NEW c, c \in DOMAIN h => c \in Clones(h) \cap held
  PROVE  Unseen(h, c)
  BY DEF Links, Unseen

LEMMA LinksEdited ==
  ASSUME NEW o \in Hosts, NEW h \in Heaps(o), NEW held, Links(h, held),
         NEW h2 \in Heaps(o), NEW c, NEW b, NEW k, NEW w, Edited(h, h2, c, b, k, w),
         NEW held2, held2 \subseteq held \cup {c}, c \in held2 => Unseen(h, c),
         IsRef(w) => w.node \in Clones(h) /\ w.node \in held /\ w.node \notin held2
  PROVE  Links(h2, held2)
<1>1. DOMAIN h2 = DOMAIN h \cup {c} /\ Clones(h2) = Clones(h) \cup {c}
  BY DEF Edited
\* A slot has what it had, there or in the container that was cloned, or it is the new one.
<1>2. ASSUME NEW n \in DOMAIN h2, NEW x \in Slots
      PROVE  \/ n = c /\ x = k /\ Slot(h2, Ref(n), x) = w
             \/ /\ n # c \/ x # k
                /\ \E m \in DOMAIN h : /\ Slot(h2, Ref(n), x) = Slot(h, Ref(m), x)
                                       /\ m = n \/ (n = c /\ m \in 1 .. N)
  <2>1. CASE n # c
    <3>1. n \in DOMAIN h /\ h2[n] = h[n]
      BY <1>1, <2>1 DEF Edited, OtherThan
    <3> QED BY <2>1, <3>1, SlotOf
  <2>2. CASE n = c
    <3>1. b \in DOMAIN h /\ (b = n \/ b \in 1 .. N)
      BY <2>2, HeapTypes DEF Edited
    <3>2. Slot(h2, Ref(c), x) = IF x = k THEN w ELSE Slot(h, Ref(b), x)
      BY DEF Edited
    <3> QED BY <2>2, <3>1, <3>2
  <2> QED BY <2>1, <2>2
<1>3. ASSUME NEW n \in DOMAIN h2, NEW x \in Slots, IsRef(Slot(h2, Ref(n), x))
      PROVE  LET w2 == Slot(h2, Ref(n), x) IN
             w2.node \in DOMAIN h2 /\ (w2.node \in Clones(h2) => w2.node \notin held2)
  <2>1. CASE n = c /\ x = k /\ Slot(h2, Ref(n), x) = w
    BY <1>1, <1>3, <2>1, HeapTypes
  <2>2. CASE \E m \in DOMAIN h : Slot(h2, Ref(n), x) = Slot(h, Ref(m), x)
    <3>1. PICK m \in DOMAIN h : Slot(h2, Ref(n), x) = Slot(h, Ref(m), x)
      BY <2>2
    <3> DEFINE y == Slot(h, Ref(m), x)
    <3>2. IsRef(y) /\ y.node \in DOMAIN h /\ (y.node \in Clones(h) => y.node \notin held)
      BY <1>3, <3>1 DEF Links
    <3>3. y.node = c => c \notin held2
      BY <3>2 DEF Unseen
    <3>4. y.node \in Clones(h2) /\ y.node # c => y.node \notin held2
      BY <1>1, <3>2
    <3> QED BY <1>1, <3>1, <3>2, <3>3, <3>4
  <2> QED BY <1>2, <2>1, <2>2
\* The slot of a reference to a clone is the new one, or it is that of the same container.
<1>4. ASSUME NEW n \in Clones(h2), NEW x \in Slots, IsRef(Slot(h2, Ref(n), x)),
             Slot(h2, Ref(n), x).node \in Clones(h2)
      PROVE  \/ n = c /\ x = k /\ Slot(h2, Ref(n), x) = w
             \/ /\ n # c \/ x # k
                /\ n \in Clones(h) /\ Slot(h2, Ref(n), x) = Slot(h, Ref(n), x)
                /\ Slot(h, Ref(n), x).node \in Clones(h)
  <2>0. n \in DOMAIN h2
    BY HeapTypes
  <2>1. CASE n = c /\ x = k /\ Slot(h2, Ref(n), x) = w
    BY <2>1
  <2>2. CASE \/ n # c \/ x # k
             /\ \E m \in DOMAIN h : /\ Slot(h2, Ref(n), x) = Slot(h, Ref(m), x)
                                    /\ m = n \/ (n = c /\ m \in 1 .. N)
    <3>1. PICK m \in DOMAIN h : /\ Slot(h2, Ref(n), x) = Slot(h, Ref(m), x)
                                /\ m = n \/ (n = c /\ m \in 1 .. N)
      BY <2>2
    <3>2. Slot(h, Ref(m), x).node \notin 1 .. N
      BY <1>4, <3>1, HeapTypes
    <3>3. m \notin 1 .. N
      BY <1>4, <3>1, <3>2, HostLinks
    <3>4. m = n /\ n \in Clones(h)
      BY <3>1, <3>3, HeapTypes
    <3>5. Slot(h, Ref(m), x).node \in DOMAIN h
      BY <1>4, <3>1 DEF Links
    <3>6. Slot(h, Ref(m), x).node \in Clones(h)
      BY <3>2, <3>5, HeapTypes
    <3> QED BY <2>2, <3>1, <3>4, <3>6
  <2> QED BY <1>2, <2>0, <2>1, <2>2
<1>5. ASSUME NEW n \in Clones(h2), NEW m \in Clones(h2), NEW x \in Slots, NEW y \in Slots,
             IsRef(Slot(h2, Ref(n), x)), IsRef(Slot(h2, Ref(m), y)),
             Slot(h2, Ref(n), x).node = Slot(h2, Ref(m), y).node, Slot(h2, Ref(n), x).node \in Clones(h2)
      PROVE  n = m /\ x = y
  <2> DEFINE Old(i, z) == /\ i \in Clones(h) /\ Slot(h2, Ref(i), z) = Slot(h, Ref(i), z)
                          /\ Slot(h, Ref(i), z).node \in Clones(h)
             New(i, z) == i = c /\ z = k /\ Slot(h2, Ref(i), z) = w
  <2>1. (New(n, x) \/ Old(n, x)) /\ (New(m, y) \/ Old(m, y))
    BY <1>4, <1>5
  <2>2. \A i \in Clones(h), z \in Slots : Old(i, z) /\ IsRef(Slot(h, Ref(i), z)) => Slot(h, Ref(i), z).node \notin held
    BY HeapTypes DEF Links
  <2>3. CASE Old(n, x) /\ Old(m, y)
    BY <1>5, <2>3 DEF Links
  <2>4. CASE New(n, x) /\ New(m, y)
    BY <2>4
  <2>5. CASE New(n, x) /\ Old(m, y)
    BY <1>5, <2>2, <2>5
  <2>6. CASE Old(n, x) /\ New(m, y)
    BY <1>5, <2>2, <2>6
  <2> QED BY <2>1, <2>3, <2>4, <2>5, <2>6
<1> QED BY <1>3, <1>5 DEF Links

\* A path is empty or has a last key.
LEMMA PathEnds ==
  ASSUME NEW q \in AllPaths
  PROVE  q = << >> \/ \E r \in AllPaths : \E k \in Slots : q = Append(r, k)
<1> SUFFICES ASSUME q # << >> PROVE \E r \in AllPaths : \E k \in Slots : q = Append(r, k)
  OBVIOUS
<1>1. Front(q) \in AllPaths /\ Last(q) \in Slots /\ q = Append(Front(q), Last(q))
  BY PathLast DEF AllPaths
<1> QED BY <1>1, Zenon

LEMMA AtInside ==
  ASSUME NEW o, NEW h \in Heaps(o), NEW held, Links(h, held), NEW root \in DOMAIN h, NEW p \in AllPaths,
         IsRef(At(h, Ref(root), p))
  PROVE  At(h, Ref(root), p).node \in DOMAIN h
<1>1. 0 \notin DOMAIN h
  BY HeapTypes
<1>2. Unseen(h, 0)
  BY <1>1, LinksUnseen
<1>3. OtherThan(h, h, 0)
  BY DEF OtherThan
<1>4. Away(h, 0, Ref(root))
  BY <1>1, Shapes DEF Away
<1>5. Away(h, 0, At(h, Ref(root), p))
  BY <1>2, <1>3, <1>4, AtAway
<1> QED BY <1>5 DEF Away

\* To a clone there is one path from the root.
Leads(h, root, p, t) == IsRef(At(h, Ref(root), p)) /\ At(h, Ref(root), p).node = t

LEMMA NoPathToRoot ==
  ASSUME NEW o, NEW h \in Heaps(o), NEW held, Links(h, held), NEW root \in DOMAIN h, root \in held,
         root \in Clones(h), NEW p \in AllPaths, NEW k \in Slots
  PROVE  ~Leads(h, root, Append(p, k), root)
<1> SUFFICES ASSUME Leads(h, root, Append(p, k), root) PROVE FALSE
  OBVIOUS
<1> DEFINE x == At(h, Ref(root), p)
<1>1. At(h, Ref(root), Append(p, k)) = Slot(h, x, k)
  BY AtNext
<1>2. IsRef(Slot(h, x, k)) /\ Slot(h, x, k).node = root
  BY <1>1 DEF Leads
<1>3. IsRef(x)
  BY <1>2, SlotOf, Shapes
<1>4. x.node \in DOMAIN h
  BY <1>3, AtInside
<1>5. Slot(h, x, k) = Slot(h, Ref(x.node), k)
  BY <1>3, SlotOf
<1> HIDE DEF x
<1> QED BY <1>2, <1>4, <1>5 DEF Links

LEMMA OnePath ==
  ASSUME NEW o \in Hosts, NEW h \in Heaps(o), NEW held, Links(h, held), NEW root \in DOMAIN h, root \in held
  PROVE  \A p \in AllPaths : \A q \in AllPaths : \A t \in Clones(h) :
           Leads(h, root, p, t) /\ Leads(h, root, q, t) => p = q
<1> DEFINE T == {p \in AllPaths : \A q \in AllPaths : \A t \in Clones(h) :
                   Leads(h, root, p, t) /\ Leads(h, root, q, t) => p = q}
<1>0. \A t : Leads(h, root, << >>, t) => t = root
  BY AtEmpty, Shapes DEF Leads
<1>1. << >> \in T
  <2> SUFFICES ASSUME NEW q \in AllPaths, NEW t \in Clones(h), Leads(h, root, << >>, t), Leads(h, root, q, t)
               PROVE  << >> = q
    BY DEF AllPaths
  <2>1. t = root
    BY <1>0
  <2>2. ~\E r \in AllPaths : \E k \in Slots : q = Append(r, k)
    BY <2>1, NoPathToRoot
  <2> QED BY <2>2, PathEnds
<1>2. ASSUME NEW p \in T, NEW k \in Slots PROVE Append(p, k) \in T
  <2>0. p \in AllPaths
    OBVIOUS
  <2>1. Append(p, k) \in AllPaths
    BY <2>0 DEF AllPaths
  <2>2. ASSUME NEW q \in AllPaths, NEW t \in Clones(h), Leads(h, root, Append(p, k), t), Leads(h, root, q, t)
        PROVE  Append(p, k) = q
    <3>1. q # << >>
      <4> SUFFICES ASSUME q = << >> PROVE FALSE
        OBVIOUS
      <4>1. t = root
        BY <1>0, <2>2
      <4> QED BY <2>0, <2>2, <4>1, NoPathToRoot
    <3>2. PICK r \in AllPaths : \E l \in Slots : q = Append(r, l)
      BY <3>1, PathEnds
    <3>3. PICK l \in Slots : q = Append(r, l)
      BY <3>2
    <3> DEFINE x == At(h, Ref(root), p)
               y == At(h, Ref(root), r)
    <3>4. At(h, Ref(root), Append(p, k)) = Slot(h, x, k) /\ At(h, Ref(root), q) = Slot(h, y, l)
      BY <2>0, <3>3, AtNext
    <3>5. /\ IsRef(Slot(h, x, k)) /\ Slot(h, x, k).node = t
          /\ IsRef(Slot(h, y, l)) /\ Slot(h, y, l).node = t
      BY <2>2, <3>4 DEF Leads
    <3>6. IsRef(x) /\ IsRef(y)
      BY <3>5, SlotOf, Shapes
    <3>7. x.node \in DOMAIN h /\ y.node \in DOMAIN h
      BY <2>0, <3>6, AtInside
    <3>8. Slot(h, x, k) = Slot(h, Ref(x.node), k) /\ Slot(h, y, l) = Slot(h, Ref(y.node), l)
      BY <3>6, SlotOf
    <3>9. Leads(h, root, p, x.node) /\ Leads(h, root, r, y.node)
      BY <3>6 DEF Leads
    <3> HIDE DEF x, y
    <3>10. t \notin 1 .. N
      BY HeapTypes
    <3>11. x.node \notin 1 .. N /\ y.node \notin 1 .. N
      BY <3>5, <3>8, <3>10, HostLinks
    <3>12. x.node \in Clones(h) /\ y.node \in Clones(h)
      BY <3>7, <3>11, HeapTypes
    <3>13. x.node = y.node /\ k = l
      BY <3>5, <3>8, <3>12 DEF Links
    <3>14. p = r
      BY <3>9, <3>12, <3>13
    <3> QED BY <3>3, <3>13, <3>14
  <2> QED BY <2>1, <2>2
<1> HIDE DEF T
<1>3. T = AllPaths
  <2>1. T \in SUBSET AllPaths
    BY DEF T
  <2> QED BY <1>1, <1>2, <2>1, PathInduction DEF AllPaths
<1> QED BY <1>3 DEF T

\* A value that is put in a clone, where there was no container, is seen at one path.
LEMMA PutAt ==
  ASSUME NEW o \in Hosts, NEW h \in Heaps(o), NEW held, Links(h, held), NEW root \in DOMAIN h, root \in held,
         NEW p \in AllPaths, NEW k \in Slots, NEW t \in Clones(h), Leads(h, root, p, t),
         ~IsRef(At(h, Ref(root), Append(p, k))),
         NEW h2, NEW b, ~IsRef(b), Edited(h, h2, t, t, k, b)
  PROVE  \A q \in AllPaths :
           At(h2, Ref(root), q) = IF q = Append(p, k) THEN b ELSE At(h, Ref(root), q)
<1> DEFINE pk == Append(p, k)
           T == {q \in AllPaths : At(h2, Ref(root), q) = IF q = pk THEN b ELSE At(h, Ref(root), q)}
<1>0. pk \in AllPaths /\ pk # << >> /\ Front(pk) = p /\ Last(pk) = k
  BY PathAppend DEF AllPaths
<1>1. << >> \in T
  <2>1. << >> \in AllPaths /\ << >> # pk
    BY <1>0 DEF AllPaths
  <2> HIDE DEF pk
  <2> QED BY <2>1, AtEmpty
<1>2. ASSUME NEW q \in T, NEW l \in Slots PROVE Append(q, l) \in T
  <2> DEFINE x == At(h, Ref(root), q)
  <2>0. q \in AllPaths /\ At(h2, Ref(root), q) = IF q = pk THEN b ELSE x
    OBVIOUS
  <2>1. Append(q, l) \in AllPaths /\ Append(q, l) # q /\ Front(Append(q, l)) = q /\ Last(Append(q, l)) = l
    BY <2>0, PathAppend DEF AllPaths
  <2>2. /\ At(h2, Ref(root), Append(q, l)) = Slot(h2, At(h2, Ref(root), q), l)
        /\ At(h, Ref(root), Append(q, l)) = Slot(h, x, l)
    BY <2>0, AtNext
  <2>3. CASE q = pk
    <3>1. Append(q, l) # pk
      BY <2>1, <2>3
    <3>2. ~IsRef(x) /\ ~IsRef(b)
      BY <2>3
    <3> HIDE DEF x, pk
    <3> QED BY <2>0, <2>1, <2>2, <2>3, <3>1, <3>2, SlotOf
  <2>4. CASE q # pk
    <3>0. At(h2, Ref(root), Append(q, l)) = Slot(h2, x, l)
      BY <2>0, <2>2, <2>4
    <3>1. CASE ~IsRef(x)
      <4>1. Append(q, l) # pk
        <5> SUFFICES ASSUME Append(q, l) = pk PROVE FALSE
          OBVIOUS
        <5>1. q = p
          BY <1>0, <2>1
        <5> QED BY <3>1, <5>1 DEF Leads
      <4> HIDE DEF x, pk
      <4> QED BY <2>1, <2>2, <3>0, <3>1, <4>1, SlotOf
    <3>2. CASE IsRef(x) /\ x.node # t
      <4>1. Append(q, l) # pk
        <5> SUFFICES ASSUME Append(q, l) = pk PROVE FALSE
          OBVIOUS
        <5>1. q = p
          BY <1>0, <2>1
        <5> QED BY <3>2, <5>1 DEF Leads
      <4>2. x.node \in DOMAIN h
        BY <2>0, <3>2, AtInside
      <4>3. h2[x.node] = h[x.node]
        BY <3>2, <4>2 DEF Edited, OtherThan
      <4> HIDE DEF x, pk
      <4>4. Slot(h2, x, l) = Slot(h, x, l)
        BY <3>2, <4>3, SlotOf
      <4> QED BY <2>1, <2>2, <3>0, <4>1, <4>4
    <3>3. CASE IsRef(x) /\ x.node = t
      <4>1. Leads(h, root, q, t)
        BY <3>3 DEF Leads
      <4>2. q = p
        BY <2>0, <4>1, OnePath
      <4>3. Append(q, l) = pk <=> l = k
        BY <1>0, <2>1, <4>2
      <4> HIDE DEF x, pk
      <4>4. Slot(h2, x, l) = Slot(h2, Ref(t), l) /\ Slot(h, x, l) = Slot(h, Ref(t), l)
        BY <3>3, SlotOf
      <4>5. Slot(h2, Ref(t), l) = IF l = k THEN b ELSE Slot(h, Ref(t), l)
        BY DEF Edited
      <4> QED BY <2>1, <2>2, <3>0, <4>3, <4>4, <4>5
    <3> QED BY <3>1, <3>2, <3>3
  <2> QED BY <2>3, <2>4
<1> HIDE DEF T
<1>3. T = AllPaths
  <2>1. T \in SUBSET AllPaths
    BY DEF T
  <2> QED BY <1>1, <1>2, <2>1, PathInduction DEF AllPaths
<1> QED BY <1>3 DEF T
-----------------------------------------------------------------------------
(***************************************************************************)
(* The innermost frame goes on.                                            *)
(***************************************************************************)

\* s2 is s with g as the innermost frame, which is at the same container.
Retop(s, s2, g) ==
  /\ s # << >> /\ s2 \in Seq(Frames) /\ Len(s2) = Len(s) /\ s2[Len(s)] = g
  /\ \A i \in 1 .. Len(s) - 1 : s2[i] = s[i]
  /\ g.node = s[Len(s)].node /\ g.key = s[Len(s)].key /\ g.path = s[Len(s)].path

LEMMA LastIndex ==
  ASSUME NEW s \in Seq(Frames), s # << >>
  PROVE  Len(s) \in DOMAIN s /\ Len(s) \in Nat \ {0} /\ Reached(s, Len(s)) = s[Len(s)].next
  BY DEF Reached

LEMMA RetopIs ==
  ASSUME NEW s \in Seq(Frames), s # << >>, NEW g \in Frames,
         g.node = s[Len(s)].node, g.key = s[Len(s)].key, g.path = s[Len(s)].path
  PROVE  Retop(s, [s EXCEPT ![Len(s)] = g], g)
  BY DEF Retop

\* Its reach is that of the new frame, and the others are as before.
LEMMA RetopReached ==
  ASSUME NEW s \in Seq(Frames), NEW s2, NEW g, Retop(s, s2, g), NEW i \in DOMAIN s2
  PROVE  /\ i \in DOMAIN s /\ i \in 1 .. Len(s) /\ Len(s) \in Nat /\ s2 \in Seq(Frames) /\ Len(s2) = Len(s)
         /\ s2[i].path = s[i].path /\ s2[i].node = s[i].node /\ s2[i].key = s[i].key
         /\ IF i = Len(s) THEN s2[i] = g /\ Reached(s2, i) = g.next /\ Reached(s, i) = s[i].next
            ELSE s2[i] = s[i] /\ Reached(s2, i) = Reached(s, i)
<1>1. s2 \in Seq(Frames) /\ Len(s2) = Len(s) /\ Len(s) \in Nat
  BY DEF Retop
<1>2. i \in 1 .. Len(s) /\ i \in DOMAIN s
  BY <1>1
<1>3. CASE i = Len(s)
  BY <1>1, <1>2, <1>3 DEF Retop, Reached
<1>4. CASE i # Len(s)
  <2>1. i \in 1 .. Len(s) - 1 /\ i < Len(s)
    BY <1>1, <1>2, <1>4
  <2>2. s2[i] = s[i]
    BY <2>1 DEF Retop
  <2> QED BY <1>1, <1>2, <1>4, <2>1, <2>2 DEF Reached
<1> QED BY <1>3, <1>4

LEMMA RetopChain ==
  ASSUME NEW o, NEW h, NEW h2, Clones(h) \subseteq Clones(h2), NEW s \in Seq(Frames), NEW s2, NEW g,
         Retop(s, s2, g), Chain(o, h, s), g.clone = 0 \/ g.clone \in Clones(h2),
         g.clone = s[Len(s)].clone \/ \A i \in DOMAIN s : i # Len(s) => s[i].clone # g.clone
  PROVE  Chain(o, h2, s2)
<1> SUFFICES ASSUME NEW i \in DOMAIN s2
             PROVE /\ Len(s2[i].path) = i - 1 /\ \A x \in 1 .. i - 1 : s2[i].path[x] = s2[x + 1].key
                   /\ i = 1 => s2[i].node = 1
                   /\ i < Len(s2) =>
                        /\ s2[i + 1].key = s2[i].next - 1 /\ s2[i].next - 1 \in Slots
                        /\ s2[i + 1].path = Append(s2[i].path, s2[i + 1].key)
                        /\ o[s2[i].node].slots[s2[i + 1].key] = Ref(s2[i + 1].node)
                   /\ s2[i].clone = 0 \/ s2[i].clone \in Clones(h2)
                   /\ \A j \in DOMAIN s2 : s2[j].clone = s2[i].clone /\ i # j => s2[i].clone = 0
  BY DEF Chain
<1> DEFINE n == Len(s)
<1>1. /\ DOMAIN s2 = DOMAIN s /\ DOMAIN s = 1 .. n /\ n \in Nat /\ Len(s2) = n /\ i \in 1 .. n
      /\ s2 \in Seq(Frames) /\ s2[n] = g
  BY DEF Retop
<1>2. \A j \in 1 .. n : s2[j].path = s[j].path /\ s2[j].node = s[j].node /\ s2[j].key = s[j].key
  BY <1>1, RetopReached
<1>3. \A j \in 1 .. n : j # n => s2[j] = s[j]
  BY <1>1, RetopReached
<1> HIDE DEF n
<1>4. Len(s2[i].path) = i - 1 /\ \A x \in 1 .. i - 1 : s2[i].path[x] = s2[x + 1].key
  <2>1. Len(s[i].path) = i - 1 /\ \A x \in 1 .. i - 1 : s[i].path[x] = s[x + 1].key
    BY <1>1 DEF Chain
  <2>2. \A x \in 1 .. i - 1 : x + 1 \in 1 .. n
    BY <1>1
  <2> QED BY <1>1, <1>2, <2>1, <2>2
<1>5. i = 1 => s2[i].node = 1
  BY <1>1, <1>2 DEF Chain
<1>6. ASSUME i < Len(s2)
      PROVE  /\ s2[i + 1].key = s2[i].next - 1 /\ s2[i].next - 1 \in Slots
             /\ s2[i + 1].path = Append(s2[i].path, s2[i + 1].key)
             /\ o[s2[i].node].slots[s2[i + 1].key] = Ref(s2[i + 1].node)
  <2>1. i < n /\ i # n /\ i + 1 \in 1 .. n /\ n = Len(s)
    BY <1>1, <1>6 DEF n
  <2>2. /\ s[i + 1].key = s[i].next - 1 /\ s[i].next - 1 \in Slots
        /\ s[i + 1].path = Append(s[i].path, s[i + 1].key)
        /\ o[s[i].node].slots[s[i + 1].key] = Ref(s[i + 1].node)
    BY <1>1, <2>1 DEF Chain
  <2> QED BY <1>1, <1>2, <1>3, <2>1, <2>2
<1>7. s2[i].clone = 0 \/ s2[i].clone \in Clones(h2)
  BY <1>1, <1>3 DEF Chain
<1>8. ASSUME NEW j \in DOMAIN s2, s2[j].clone = s2[i].clone, i # j PROVE s2[i].clone = 0
  <2>0. n \in DOMAIN s /\ n = Len(s)
    BY <1>1 DEF n
  <2>1. \A x, y \in 1 .. n : s[y].clone = s[x].clone /\ x # y => s[x].clone = 0
    BY <1>1 DEF Chain
  <2>2. CASE g.clone = s[n].clone
    BY <1>1, <1>3, <1>8, <2>0, <2>1, <2>2
  <2>3. CASE \A x \in DOMAIN s : x # n => s[x].clone # g.clone
    BY <1>1, <1>3, <1>8, <2>0, <2>1, <2>3
  <2> QED BY <2>0, <2>2, <2>3
<1> QED BY <1>4, <1>5, <1>6, <1>7, <1>8

\* The clones that are worked on.
LEMMA RetopHeld ==
  ASSUME NEW s \in Seq(Frames), NEW s2, NEW g, Retop(s, s2, g)
  PROVE  Held(s2) \subseteq {s[i].clone : i \in 1 .. Len(s) - 1} \cup {g.clone}
<1> SUFFICES ASSUME NEW i \in DOMAIN s2
             PROVE  s2[i].clone \in {s[x].clone : x \in 1 .. Len(s) - 1} \cup {g.clone}
  BY DEF Held
<1>1. i \in 1 .. Len(s) /\ Len(s) \in Nat /\ IF i = Len(s) THEN s2[i] = g ELSE s2[i] = s[i]
  BY RetopReached
<1> QED BY <1>1

LEMMA LinksMono ==
  ASSUME NEW h, NEW held, NEW held2, Links(h, held), held2 \cap Clones(h) \subseteq held
  PROVE  Links(h, held2)
  BY DEF Links

\* The paths that the walk comes by with one slot more.
Extends(p, path) == \E q \in AllPaths : p = path \o q

LEMMA RetopPassed ==
  ASSUME NEW s \in Seq(Frames), NEW s2, NEW g, Retop(s, s2, g), NEW r \in Slots, s[Len(s)].next = r,
         g.next = r + 1, NEW p
  PROVE  Passed(s2, p) <=> Passed(s, p) \/ Extends(p, Append(s[Len(s)].path, r))
<1> DEFINE n == Len(s)
           path == s[n].path
<1>1. n \in DOMAIN s /\ n \in DOMAIN s2 /\ DOMAIN s2 = DOMAIN s /\ n \in Nat
  BY LastIndex DEF Retop
<1>2. \A i \in DOMAIN s : i # n => s2[i].path = s[i].path /\ Reached(s2, i) = Reached(s, i)
  BY <1>1, RetopReached
<1>3. s2[n].path = path /\ s[n].path = path /\ Reached(s2, n) = r + 1 /\ Reached(s, n) = r
  BY <1>1, RetopReached
<1>4. Covers(path, r + 1, p) <=> Covers(path, r, p) \/ Extends(p, Append(path, r))
  <2>1. \A k \in Slots : k < r + 1 <=> k < r \/ k = r
    BY SplitAssumption DEF Slots
  <2> HIDE DEF path
  <2> QED BY <2>1 DEF Covers, Extends
<1> HIDE DEF n, path
<1>5. ASSUME Passed(s2, p) PROVE Passed(s, p) \/ Extends(p, Append(path, r))
  <2>1. PICK i \in DOMAIN s2 : Covers(s2[i].path, Reached(s2, i), p)
    BY <1>5 DEF Passed
  <2>2. CASE i = n
    BY <1>1, <1>3, <1>4, <2>1, <2>2 DEF Passed
  <2>3. CASE i # n
    BY <1>1, <1>2, <2>1, <2>3 DEF Passed
  <2> QED BY <2>2, <2>3
<1>6. ASSUME Passed(s, p) \/ Extends(p, Append(path, r)) PROVE Passed(s2, p)
  <2>1. CASE Passed(s, p)
    <3>1. PICK i \in DOMAIN s : Covers(s[i].path, Reached(s, i), p)
      BY <2>1 DEF Passed
    <3>2. CASE i = n
      BY <1>1, <1>3, <1>4, <3>1, <3>2 DEF Passed
    <3>3. CASE i # n
      BY <1>1, <1>2, <3>1, <3>3 DEF Passed
    <3> QED BY <3>2, <3>3
  <2>2. CASE Extends(p, Append(path, r))
    BY <1>1, <1>3, <1>4, <2>2 DEF Passed
  <2> QED BY <1>6, <2>1, <2>2
<1> QED BY <1>5, <1>6 DEF n, path

\* They come before the one at which it is.
LEMMA PassedBefore ==
  ASSUME NEW o, NEW h, NEW s \in Seq(Frames), s # << >>, Chain(o, h, s), NEW r \in Slots, s[Len(s)].next = r,
         NEW p, Passed(s, p)
  PROVE  Before(p, Append(s[Len(s)].path, r))
<1> DEFINE n == Len(s)
           pr == Append(s[n].path, r)
<1>1. PICK i \in DOMAIN s : \E k \in Slots : \E q \in AllPaths : k < Reached(s, i) /\ p = Append(s[i].path, k) \o q
  BY DEF Passed, Covers
<1>2. PICK k \in Slots : \E q \in AllPaths : k < Reached(s, i) /\ p = Append(s[i].path, k) \o q
  BY <1>1
<1>3. PICK q \in AllPaths : k < Reached(s, i) /\ p = Append(s[i].path, k) \o q
  BY <1>2
<1>4. n \in DOMAIN s /\ n \in Nat \ {0} /\ i \in 1 .. n /\ Reached(s, n) = r
  BY LastIndex
<1>5. s[i].path \in Seq(Slots) /\ s[n].path \in Seq(Slots) /\ Len(s[i].path) = i - 1 /\ Len(s[n].path) = n - 1
  BY <1>4, FrameTypes DEF Chain, AllPaths
<1>6. (\A x \in 1 .. i - 1 : s[i].path[x] = s[x + 1].key) /\ \A x \in 1 .. n - 1 : s[n].path[x] = s[x + 1].key
  BY <1>4 DEF Chain
<1>7. i # n => n - 1 >= i /\ Reached(s, i) = s[i + 1].key
  BY <1>4 DEF Chain, Reached
<1>8. i \in DOMAIN p /\ p[i] = k /\ \A x \in 1 .. i - 1 : p[x] = s[x + 1].key
  <2> DEFINE a == s[i].path
  <2> HIDE DEF a
  <2>1. a \in Seq(Slots) /\ Len(a) = i - 1 /\ q \in Seq(Slots) /\ i \in Nat /\ i >= 1
    BY <1>4, <1>5 DEF a, AllPaths
  <2>2. /\ i \in DOMAIN (Append(a, k) \o q) /\ (Append(a, k) \o q)[i] = k
        /\ \A x \in 1 .. i - 1 : (Append(a, k) \o q)[x] = a[x]
    BY <2>1
  <2> QED BY <1>3, <1>6, <2>2 DEF a
<1>9. DOMAIN pr = 1 .. n /\ pr[n] = r /\ \A x \in 1 .. n - 1 : pr[x] = s[x + 1].key
  <2> DEFINE a == s[n].path
  <2> HIDE DEF a
  <2>1. a \in Seq(Slots) /\ Len(a) = n - 1
    BY <1>5 DEF a
  <2>2. DOMAIN Append(a, r) = 1 .. n /\ Append(a, r)[n] = r /\ \A x \in 1 .. n - 1 : Append(a, r)[x] = a[x]
    BY <1>4, <2>1
  <2> QED BY <1>6, <2>2 DEF a
<1> HIDE DEF pr, n
<1>10. i \in DOMAIN pr /\ p[i] < pr[i]
  <2>1. CASE i = n
    BY <1>3, <1>4, <1>8, <1>9, <2>1
  <2>2. CASE i # n
    <3>1. i \in 1 .. n - 1
      BY <1>4, <1>7, <2>2
    <3> QED BY <1>3, <1>4, <1>7, <1>8, <1>9, <2>2, <3>1
  <2> QED BY <2>1, <2>2
<1>11. \A x \in 1 .. i - 1 : p[x] = pr[x]
  <2>1. \A x \in 1 .. i - 1 : x \in 1 .. n - 1
    BY <1>4
  <2> QED BY <1>8, <1>9, <2>1
<1>12. Before(p, pr)
  BY <1>8, <1>10, <1>11 DEF Before
<1> QED BY <1>12 DEF pr, n
-----------------------------------------------------------------------------
(***************************************************************************)
(* What a slot more does to each part of the invariant.                    *)
(***************************************************************************)

\* The slots that are left are as they were, in the clone or in the container itself.
LEMMA BaseSlot ==
  ASSUME NEW o \in Hosts, NEW h \in Heaps(o), NEW f \in Frames, NEW r \in Nat, Works(o, h, f, r),
         NEW k \in Slots, r <= k
  PROVE  /\ Slot(h, Ref(Base(f)), k) = o[f.node].slots[k]
         /\ Slot(h, Ref(Base(f)), k) # Absent
<1>0. f.node \in 1 .. N /\ k \in Nat /\ ~(k < r)
  BY SplitAssumption DEF Frames, Slots
<1>1. o[f.node].slots[k] \in HostValues
  BY <1>0, HostSlot
<1>2. o[f.node].slots[k] # Absent
  <2>1. Absent.type = "absent"
    BY DEF Absent
  <2>2. ASSUME NEW v \in HostValues PROVE v.type # "absent"
    BY DEF HostValues, Plain, Bin, Ref
  <2> QED BY <1>1, <2>1, <2>2
<1>3. Slot(h, Ref(Base(f)), k) = o[f.node].slots[k]
  <2>1. CASE f.clone = 0
    <3>1. h[f.node] = o[f.node] /\ Base(f) = f.node
      BY <1>0, <2>1, HeapTypes DEF Base
    <3>2. Slot(h, Ref(f.node), k) = Slot(o, Ref(f.node), k)
      BY <3>1, SlotOf
    <3> QED BY <1>0, <3>1, <3>2, HostSlot
  <2>2. CASE f.clone # 0
    BY <1>0, <2>2 DEF Works, Done1, Base
  <2> QED BY <2>1, <2>2
<1> QED BY <1>2, <1>3

LEMMA BaseKind ==
  ASSUME NEW o \in Hosts, NEW h \in Heaps(o), NEW f \in Frames, NEW r, Works(o, h, f, r)
  PROVE  /\ h[Base(f)].kind = IF f.clone = 0 THEN o[f.node].kind ELSE CloneKind(o[f.node].kind)
         /\ f.clone # 0 => h[f.clone].kind # "tuple"
         /\ Left(h[Base(f)].kind) = Left(o[f.node].kind)
<1>0. f.node \in 1 .. N
  BY DEF Frames
<1>1. h[Base(f)].kind = IF f.clone = 0 THEN o[f.node].kind ELSE CloneKind(o[f.node].kind)
  BY <1>0, HeapTypes DEF Base, Works
<1>2. \A kind : CloneKind(kind) # "tuple" /\ Left(CloneKind(kind)) = Left(kind)
  BY DEF CloneKind, Left
<1> QED BY <1>1, <1>2 DEF Base

\* Nothing has to be changed for a slot that is clean.
LEMMA WorksClean ==
  ASSUME NEW o \in Hosts, NEW h \in Heaps(o), NEW f \in Frames, NEW r \in Slots, Works(o, h, f, r),
         Clean(o, o[f.node].slots[r]), NEW g, g.node = f.node, g.clone = f.clone
  PROVE  Works(o, h, g, r + 1)
<1>0. f.node \in 1 .. N /\ r \in Nat /\ Slots \subseteq Nat
  BY SplitAssumption DEF Frames, Slots
<1>1. \A k \in Slots : k < r + 1 <=> k < r \/ k = r
  BY <1>0
<1>2. CASE f.clone = 0
  BY <1>1, <1>2 DEF Works
<1>3. CASE f.clone # 0
  <2> DEFINE v(k) == o[f.node].slots[k]
             w(k) == Slot(h, Ref(f.clone), k)
  <2>1. ASSUME NEW k \in Slots PROVE Done1(o, h, f.node, v(k), w(k), k < r + 1)
    <3>1. Done1(o, h, f.node, v(k), w(k), k < r)
      BY <1>3 DEF Works
    <3>2. CASE k = r
      <4>1. w(k) = v(k)
        BY <1>0, <3>1, <3>2 DEF Done1
      <4>2. v(k) \in HostValues
        BY <1>0, HostSlot
      <4>3. Strips(o, h, v(k), v(k))
        BY <3>2, <4>2, CleanStrips
      <4>4. ~IsBin(v(k))
        <5>1. << >> \in AllPaths
          BY DEF AllPaths
        <5>2. ~IsBin(At(o, v(k), << >>))
          BY <3>2, <5>1 DEF Clean
        <5> QED BY <5>2, AtEmpty
      <4> HIDE DEF v, w
      <4> QED BY <1>0, <1>1, <3>2, <4>1, <4>3, <4>4 DEF Done1
    <3>3. CASE k # r
      <4> HIDE DEF v, w
      <4> QED BY <1>1, <3>1, <3>3 DEF Done1
    <3> QED BY <3>2, <3>3
  <2> QED BY <1>3, <2>1 DEF Works
<1> QED BY <1>2, <1>3

\* Otherwise the clone gets what should become of it.
LEMMA WorksEdited ==
  ASSUME NEW o \in Hosts, NEW h \in Heaps(o), NEW f \in Frames, NEW r \in Slots, Works(o, h, f, r),
         f.clone = 0 \/ f.clone \in Clones(h), ~Clean(o, o[f.node].slots[r]),
         NEW h2 \in Heaps(o), NEW c \in Clones(h2), NEW w, Edited(h, h2, c, Base(f), r, w), Unseen(h, c),
         IF IsBin(o[f.node].slots[r]) THEN w = Left(o[f.node].kind) ELSE Strips(o, h2, o[f.node].slots[r], w),
         NEW g, g.node = f.node, g.clone = c
  PROVE  Works(o, h2, g, r + 1)
<1>0. f.node \in 1 .. N /\ r \in Nat /\ Slots \subseteq Nat
  BY SplitAssumption DEF Frames, Slots
<1>1. \A k \in Slots : k < r + 1 <=> k < r \/ k = r
  BY <1>0
<1>2. c # 0
  BY HeapTypes
<1>3. ~Clean(o, Ref(f.node))
  BY <1>0, CleanRef
<1>4. h2[c].kind = CloneKind(o[f.node].kind)
  <2>1. h[Base(f)].kind = IF f.clone = 0 THEN o[f.node].kind ELSE CloneKind(o[f.node].kind)
    BY BaseKind
  <2>2. CASE f.clone = 0
    <3>1. Base(f) = f.node /\ c \notin 1 .. N
      BY <2>2, HeapTypes DEF Base
    <3> QED BY <1>0, <2>1, <2>2, <3>1 DEF Edited
  <2>3. CASE f.clone # 0
    <3>1. Base(f) = f.clone /\ f.clone \notin 1 .. N
      BY <2>3, HeapTypes DEF Base
    <3> QED BY <2>1, <2>3, <3>1 DEF Edited
  <2> QED BY <2>2, <2>3
<1>5. OtherThan(h, h2, c)
  BY DEF Edited
<1> DEFINE v(k) == o[f.node].slots[k]
           u(k) == Slot(h, Ref(Base(f)), k)
<1>6. ASSUME NEW k \in Slots PROVE Done1(o, h2, f.node, v(k), Slot(h2, Ref(c), k), k < r + 1)
  <2>1. Slot(h2, Ref(c), k) = IF k = r THEN w ELSE u(k)
    BY DEF Edited
  <2>2. CASE k = r
    <3>1. k < r + 1
      BY <1>0, <2>2
    <3> HIDE DEF u
    <3> QED BY <2>1, <2>2, <3>1 DEF Done1
  <2>3. CASE k # r /\ ~(k < r)
    <3>1. u(k) = v(k)
      BY <1>0, <2>3, BaseSlot
    <3> HIDE DEF u, v
    <3> QED BY <1>1, <2>1, <2>3, <3>1 DEF Done1
  <2>4. CASE k < r
    <3>0. k # r /\ k < r + 1
      BY <1>0, <2>4
    <3>1. CASE f.clone = 0
      <4>1. Clean(o, v(k))
        BY <2>4, <3>1 DEF Works
      <4>2. v(k) \in HostValues /\ Slot(o, Ref(f.node), k) = v(k)
        BY <1>0, HostSlot
      <4>3. u(k) = v(k)
        <5>1. Base(f) = f.node /\ h[f.node] = o[f.node]
          BY <1>0, <3>1, HeapTypes DEF Base
        <5> QED BY <4>2, <5>1, SlotOf
      <4>4. Strips(o, h2, v(k), v(k))
        BY <4>1, <4>2, CleanStrips
      <4>5. ~IsBin(v(k))
        <5>1. << >> \in AllPaths
          BY DEF AllPaths
        <5>2. ~IsBin(At(o, v(k), << >>))
          BY <4>1, <5>1 DEF Clean
        <5> QED BY <5>2, AtEmpty
      <4> HIDE DEF u, v
      <4> QED BY <2>1, <3>0, <4>3, <4>4, <4>5 DEF Done1
    <3>2. CASE f.clone # 0
      <4>1. u(k) = Slot(h, Ref(f.clone), k)
        BY <3>2 DEF Base
      <4>2. Done1(o, h, f.node, v(k), u(k), k < r)
        BY <3>2, <4>1 DEF Works
      <4>3. Away(h, c, u(k))
        <5>1. f.clone \in DOMAIN h
          BY <3>2, HeapTypes
        <5> QED BY <4>1, <5>1 DEF Away, Unseen
      <4> HIDE DEF u, v
      <4>4. CASE IsBin(v(k))
        BY <2>1, <2>4, <3>0, <4>2, <4>4 DEF Done1
      <4>5. CASE ~IsBin(v(k))
        <5>1. Strips(o, h, v(k), u(k))
          BY <2>4, <4>2, <4>5 DEF Done1
        <5>2. Strips(o, h2, v(k), u(k))
          BY <1>5, <4>3, <5>1, StripsAway
        <5> QED BY <2>1, <3>0, <4>5, <5>2 DEF Done1
      <4> QED BY <4>4, <4>5
    <3> QED BY <3>1, <3>2
  <2> QED BY <1>0, <2>2, <2>3, <2>4
<1> QED BY <1>2, <1>3, <1>4, <1>6 DEF Works

LEMMA RetopShallow ==
  ASSUME NEW o, NEW s \in Seq(Frames), NEW s2, NEW g, Retop(s, s2, g), NEW d, Shallows(o, s, d),
         NEW r \in Slots, s[Len(s)].next = r, g.next = r + 1,
         ~Deep(o, o[g.node].slots[r], d + 1 - Len(s))
  PROVE  Shallows(o, s2, d)
<1> SUFFICES ASSUME NEW i \in DOMAIN s2, NEW k \in Slots, k < Reached(s2, i)
             PROVE  ~Deep(o, o[s2[i].node].slots[k], d + 1 - i)
  BY DEF Shallows
<1>1. /\ i \in DOMAIN s /\ s2[i].node = s[i].node
      /\ IF i = Len(s) THEN s2[i] = g /\ Reached(s2, i) = g.next /\ Reached(s, i) = s[i].next
         ELSE s2[i] = s[i] /\ Reached(s2, i) = Reached(s, i)
  BY RetopReached
<1>2. k < r + 1 => k = r \/ k < r
  BY SplitAssumption DEF Slots
<1>3. \A x \in DOMAIN s : \A y \in Slots : y < Reached(s, x) => ~Deep(o, o[s[x].node].slots[y], d + 1 - x)
  BY DEF Shallows
<1>4. CASE i # Len(s)
  BY <1>1, <1>3, <1>4
<1>5. CASE i = Len(s) /\ k = r
  BY <1>1, <1>5
<1>6. CASE i = Len(s) /\ k < r
  BY <1>1, <1>3, <1>6
<1> QED BY <1>1, <1>2, <1>4, <1>5, <1>6

\* The binary values that the walk has come by are the same.
SameWalked(o, st, s, st2, s2) ==
  \A p \in AllPaths : IsBin(At(o, Ref(1), p)) => (Walked(st2, s2, p) <=> Walked(st, s, p))

LEMMA RecordsSame ==
  ASSUME NEW o, NEW st, NEW s, NEW st2, NEW s2, NEW ps \in Seq(AllPaths), NEW bs,
         Records(o, st, s, ps, bs), SameWalked(o, st, s, st2, s2)
  PROVE  Records(o, st2, s2, ps, bs)
<1>1. ASSUME NEW i \in DOMAIN ps
      PROVE  IsBin(At(o, Ref(1), ps[i])) /\ bs[i] = At(o, Ref(1), ps[i]) /\ Walked(st2, s2, ps[i])
  <2>1. ps[i] \in AllPaths
    OBVIOUS
  <2>2. IsBin(At(o, Ref(1), ps[i])) /\ bs[i] = At(o, Ref(1), ps[i]) /\ Walked(st, s, ps[i])
    BY DEF Records
  <2> QED BY <2>1, <2>2 DEF SameWalked
<1>2. ASSUME NEW p \in AllPaths, IsBin(At(o, Ref(1), p)), Walked(st2, s2, p)
      PROVE  \E i \in DOMAIN ps : ps[i] = p
  BY <1>2 DEF Records, SameWalked
<1>3. \A i, j \in DOMAIN ps : i < j => Before(ps[i], ps[j])
  BY DEF Records
<1> QED BY <1>1, <1>2, <1>3 DEF Records

LEMMA RecordsMore ==
  ASSUME NEW o \in Hosts, NEW h, NEW s \in Seq(Frames), s # << >>, Chain(o, h, s), NEW s2, NEW g, Retop(s, s2, g),
         NEW r \in Slots, s[Len(s)].next = r, g.next = r + 1,
         NEW ps \in Seq(AllPaths), NEW bs \in Seq(HostValues), Len(bs) = Len(ps), Records(o, "walking", s, ps, bs),
         NEW v, IsBin(v), o[s[Len(s)].node].slots[r] = v
  PROVE  Records(o, "walking", s2, Append(ps, Append(s[Len(s)].path, r)), Append(bs, v))
<1> DEFINE f == s[Len(s)]
           new == Append(f.path, r)
           ps2 == Append(ps, new)
           bs2 == Append(bs, v)
           m == Len(ps)
<1>0. Len(s) \in DOMAIN s /\ f.path \in AllPaths /\ f.node \in 1 .. N
  BY LastIndex, FrameTypes
<1>1. new \in AllPaths
  BY <1>0 DEF AllPaths
<1>2. At(o, Ref(1), new) = v
  <2>1. At(o, Ref(1), f.path) = Ref(f.node)
    BY <1>0, ChainHost
  <2> QED BY <1>0, <2>1, AtNext, HostSlot
<1>3. "walking" \in Begins
  BY DEF Begins
<1>4. ASSUME NEW p PROVE Passed(s2, p) <=> Passed(s, p) \/ Extends(p, new)
  BY RetopPassed
<1>5. \A p : Passed(s, p) => Before(p, new)
  BY PassedBefore
<1> HIDE DEF f, new
<1>6. m \in Nat /\ DOMAIN ps2 = 1 .. m + 1 /\ ps2[m + 1] = new /\ \A i \in 1 .. m : ps2[i] = ps[i] /\ ps[i] \in AllPaths
  BY <1>1
<1>7. bs2[m + 1] = v /\ \A i \in 1 .. m : bs2[i] = bs[i]
  OBVIOUS
<1>8. DOMAIN ps = 1 .. m
  OBVIOUS
<1>9. Passed(s2, new)
  <2>1. << >> \in AllPaths /\ new = new \o << >>
    BY <1>1 DEF AllPaths
  <2> QED BY <1>4, <2>1 DEF Extends
<1> HIDE DEF m, ps2, bs2
<1>10. ASSUME NEW i \in DOMAIN ps2
       PROVE  IsBin(At(o, Ref(1), ps2[i])) /\ bs2[i] = At(o, Ref(1), ps2[i]) /\ Walked("walking", s2, ps2[i])
  <2>1. CASE i = m + 1
    BY <1>2, <1>6, <1>7, <1>9, <2>1 DEF Walked
  <2>2. CASE i \in 1 .. m
    <3>1. IsBin(At(o, Ref(1), ps[i])) /\ bs[i] = At(o, Ref(1), ps[i]) /\ Walked("walking", s, ps[i])
      BY <1>8, <2>2 DEF Records
    <3>2. Passed(s, ps[i])
      BY <1>3, <3>1 DEF Walked
    <3>3. Passed(s2, ps[i])
      BY <1>4, <3>2
    <3> QED BY <1>6, <1>7, <2>2, <3>1, <3>3 DEF Walked
  <2> QED BY <1>6, <2>1, <2>2
<1>11. ASSUME NEW p \in AllPaths, IsBin(At(o, Ref(1), p)), Walked("walking", s2, p)
       PROVE  \E i \in DOMAIN ps2 : ps2[i] = p
  <2>1. Passed(s, p) \/ Extends(p, new)
    BY <1>3, <1>4, <1>11 DEF Walked
  <2>2. CASE Passed(s, p)
    <3>1. PICK i \in DOMAIN ps : ps[i] = p
      BY <1>11, <2>2 DEF Records, Walked
    <3> QED BY <1>6, <1>8, <3>1
  <2>3. CASE Extends(p, new)
    <3>1. PICK q \in AllPaths : p = new \o q
      BY <2>3 DEF Extends
    <3>2. At(o, Ref(1), p) = At(o, v, q)
      BY <1>1, <1>2, <3>1, AtConcat
    <3>3. ~IsRef(v)
      BY Shapes
    <3>4. q = << >>
      BY <1>11, <3>2, <3>3, AtNoRef, Shapes
    <3>5. p = new
      BY <1>1, <3>1, <3>4 DEF AllPaths
    <3>6. m + 1 \in DOMAIN ps2
      BY <1>6
    <3> QED BY <1>6, <3>5, <3>6
  <2> QED BY <2>1, <2>2, <2>3
<1>12. ASSUME NEW i \in DOMAIN ps2, NEW j \in DOMAIN ps2, i < j PROVE Before(ps2[i], ps2[j])
  <2>0. i \in 1 .. m
    BY <1>6, <1>12
  <2>1. CASE j = m + 1
    <3>1. Walked("walking", s, ps[i])
      BY <1>8, <2>0 DEF Records
    <3>2. Before(ps[i], new)
      BY <1>3, <1>5, <3>1 DEF Walked
    <3> QED BY <1>6, <2>0, <2>1, <3>2
  <2>2. CASE j # m + 1
    <3>1. j \in 1 .. m
      BY <1>6, <2>2
    <3>2. Before(ps[i], ps[j])
      BY <1>8, <1>12, <2>0, <3>1 DEF Records
    <3> QED BY <1>6, <2>0, <3>1, <3>2
  <2> QED BY <2>1, <2>2
<1>13. Records(o, "walking", s2, ps2, bs2)
  BY <1>10, <1>11, <1>12 DEF Records
<1> QED BY <1>13 DEF ps2, bs2, new, f

\* No frame but the innermost works on c.
Others(s, c) == \A i \in 1 .. Len(s) - 1 : s[i].clone # c

\* The work of the others is done.
OuterWorks(o, h, s) == \A i \in 1 .. Len(s) - 1 : Works(o, h, s[i], Reached(s, i))

LEMMA RetopWorks ==
  ASSUME NEW o, NEW h, NEW h2, NEW c, Unseen(h, c), OtherThan(h, h2, c), Clones(h) \subseteq DOMAIN h,
         NEW s \in Seq(Frames), NEW s2, NEW g, Retop(s, s2, g), Chain(o, h, s), OuterWorks(o, h, s), Others(s, c),
         Works(o, h2, g, g.next)
  PROVE  AllWorks(o, h2, s2)
<1> SUFFICES ASSUME NEW i \in DOMAIN s2 PROVE Works(o, h2, s2[i], Reached(s2, i))
  BY DEF AllWorks
<1>1. /\ i \in DOMAIN s /\ i \in 1 .. Len(s) /\ Len(s) \in Nat
      /\ IF i = Len(s) THEN s2[i] = g /\ Reached(s2, i) = g.next
         ELSE s2[i] = s[i] /\ Reached(s2, i) = Reached(s, i)
  BY RetopReached
<1>2. CASE i = Len(s)
  BY <1>1, <1>2
<1>3. CASE i # Len(s)
  <2>1. i \in 1 .. Len(s) - 1
    BY <1>1, <1>3
  <2>2. s[i].clone # c
    BY <2>1 DEF Others
  <2>3. s[i].clone = 0 \/ s[i].clone \in DOMAIN h
    BY <1>1 DEF Chain
  <2>4. Works(o, h, s[i], Reached(s, i))
    BY <2>1 DEF OuterWorks
  <2> DEFINE f == s[i]
             r == Reached(s, i)
  <2>5. f.clone = 0 \/ f.clone \in DOMAIN h
    BY <2>3
  <2>6. f.clone # c /\ Works(o, h, f, r)
    BY <2>2, <2>4
  <2>7. s2[i] = f /\ Reached(s2, i) = r
    BY <1>1, <1>3
  <2> HIDE DEF f, r
  <2>8. Works(o, h2, f, r)
    BY <2>5, <2>6, WorksAway
  <2> QED BY <2>7, <2>8
<1> QED BY <1>2, <1>3

\* The clone that the innermost frame works on, or that it will make.
LEMMA CloneAlone ==
  ASSUME NEW o, NEW h \in Heaps(o), NEW s \in Seq(Frames), s # << >>, Chain(o, h, s),
         NEW held, Held(s) \subseteq held, Links(h, held)
  PROVE  /\ Unseen(h, CloneOf(h, s[Len(s)])) /\ Others(s, CloneOf(h, s[Len(s)]))
         /\ \A i \in DOMAIN s : i # Len(s) => s[i].clone # CloneOf(h, s[Len(s)])
         /\ CloneOf(h, s[Len(s)]) \in Nat \ {0}
<1> DEFINE n == Len(s)
           f == s[n]
           c == CloneOf(h, f)
<1>0. n \in DOMAIN s /\ n \in Nat /\ DOMAIN s = 1 .. n
  BY LastIndex
<1>1. Len(h) + 1 \notin DOMAIN h /\ 0 \notin DOMAIN h /\ Len(h) + 1 \in Nat \ {0}
  BY HeapTypes
<1>2. \A i \in DOMAIN s : s[i].clone = 0 \/ s[i].clone \in Clones(h)
  BY DEF Chain
<1>3. \A i \in DOMAIN s : s[i].clone # Len(h) + 1
  BY <1>1, <1>2, HeapTypes
<1>4. CASE f.clone = 0
  <2>1. c = Len(h) + 1
    BY <1>4 DEF CloneOf
  <2>2. Unseen(h, c)
    BY <1>1, <2>1, LinksUnseen
  <2>3. Others(s, c)
    BY <1>0, <1>3, <2>1 DEF Others
  <2> QED BY <1>1, <1>3, <2>1, <2>2, <2>3
<1>5. CASE f.clone # 0
  <2>1. c = f.clone /\ c \in Clones(h) /\ c \in held
    BY <1>0, <1>2, <1>5 DEF CloneOf, Held
  <2>2. Unseen(h, c)
    BY <2>1, LinksUnseen
  <2>3. \A i \in DOMAIN s : i # n => s[i].clone # c
    BY <1>0, <1>5, <2>1 DEF Chain
  <2>4. Others(s, c)
    BY <1>0, <2>3 DEF Others
  <2>5. c \in Nat \ {0}
    BY <2>1, HeapTypes
  <2> QED BY <2>2, <2>3, <2>4, <2>5
<1> QED BY <1>4, <1>5
-----------------------------------------------------------------------------
(***************************************************************************)
(* The steps of the walk.                                                  *)
(***************************************************************************)
LEMMA Walk ==
  ASSUME SplitInv, Walking
  PROVE  /\ stack \in Seq(Frames) /\ stack # << >> /\ Len(stack) <= limit + 1 /\ limit \in Nat
         /\ Len(stack) \in DOMAIN stack /\ Len(stack) \in Nat \ {0}
         /\ Top = stack[Len(stack)] /\ Top \in Frames /\ Top.node \in 1 .. N
         /\ Top.next \in Nat /\ 1 <= Top.next /\ Top.next <= Width + 1
         /\ Top.clone = 0 \/ Top.clone \in Clones(heap)
         /\ original \in Hosts /\ heap \in Heaps(original)
         /\ result = 0 /\ merged = 0 /\ missing = 0 /\ status = "walking"
         /\ Chain(original, heap, stack) /\ Links(heap, Held(stack) \cup {0})
         /\ AllWorks(original, heap, stack) /\ Works(original, heap, Top, Top.next)
         /\ Records(original, "walking", stack, paths, buffers) /\ Shallows(original, stack, limit)
         /\ paths \in Seq(AllPaths) /\ buffers \in Seq(HostValues) /\ Len(paths) = Len(buffers)
<1>1. /\ stack \in Seq(Frames) /\ Len(stack) <= limit + 1 /\ limit \in Nat
      /\ original \in Hosts /\ heap \in Heaps(original)
      /\ paths \in Seq(AllPaths) /\ buffers \in Seq(HostValues) /\ Len(paths) = Len(buffers)
  BY DEF SplitInv, Types
<1>2. status = "walking" /\ Begun
  BY DEF Walking, Begun, Begins
<1>3. stack # << >> /\ result = 0 /\ merged = 0 /\ missing = 0 /\ Chain(original, heap, stack)
  BY <1>2 DEF SplitInv, Chained
<1>4. Len(stack) \in DOMAIN stack /\ Len(stack) \in Nat \ {0} /\ Reached(stack, Len(stack)) = stack[Len(stack)].next
  BY <1>1, <1>3, LastIndex
<1>5. Top = stack[Len(stack)]
  BY DEF Top
<1>6. /\ Top \in Frames /\ Top.node \in 1 .. N
      /\ Top.next \in Nat /\ 1 <= Top.next /\ Top.next <= Width + 1
  BY <1>1, <1>4, <1>5, FrameTypes
<1>7. Top.clone = 0 \/ Top.clone \in Clones(heap)
  BY <1>3, <1>4, <1>5 DEF Chain
<1>8. AllWorks(original, heap, stack) /\ Works(original, heap, Top, Top.next)
  BY <1>4, <1>5 DEF SplitInv, Worked, AllWorks
<1>9. Links(heap, Held(stack) \cup {0}) /\ Records(original, "walking", stack, paths, buffers) /\ Shallows(original, stack, limit)
  BY <1>2, <1>3 DEF SplitInv, Linked, Recorded, Shallow
<1> QED BY <1>1, <1>2, <1>3, <1>4, <1>5, <1>6, <1>7, <1>8, <1>9

LEMMA WalkYields ==
  ASSUME SplitInv, Walking, Yields
  PROVE  /\ Key \in Slots /\ Key = stack[Len(stack)].next /\ Key \in Nat /\ Key + 1 \in 1 .. Width + 1
         /\ Key = Top.next /\ Value = original[Top.node].slots[Key] /\ Value \in HostValues
<1>1. Key = Top.next /\ Key \in Nat /\ 1 <= Key /\ Key <= Width /\ Value = original[Top.node].slots[Key]
  BY Walk DEF Key, Yields, Value
<1>2. Key \in Slots /\ Key + 1 \in 1 .. Width + 1
  BY <1>1, SplitAssumption DEF Slots
<1> QED BY <1>1, <1>2, Walk, HostSlot

\* What a step of the walk that goes on has to establish.
LEMMA WalkOn ==
  ASSUME SplitInv, Walking, status' = status,
         UNCHANGED <<original, limit, missing, merged, result>>,
         heap' \in Heaps(original), stack' \in Seq(Frames), stack' # << >>, Len(stack') <= limit + 1,
         paths' \in Seq(AllPaths), buffers' \in Seq(HostValues), Len(paths') = Len(buffers'),
         Links(heap', Held(stack') \cup {0}), Chain(original, heap', stack'), AllWorks(original, heap', stack'),
         Records(original, "walking", stack', paths', buffers'), Shallows(original, stack', limit)
  PROVE  SplitInv'
<1>1. /\ original \in Hosts /\ limit \in Nat /\ status = "walking" /\ result = 0 /\ merged = 0 /\ missing = 0
  BY Walk
<1>2. Begun' /\ status' = "walking" /\ result' = 0 /\ merged' = 0 /\ missing' = 0
  BY <1>1 DEF Begun, Begins
<1>3. Types'
  <2>1. result' \in 0 .. Len(heap') /\ merged' \in 0 .. Len(buffers') - missing'
    BY <1>2, HeapTypes
  <2> QED BY <1>1, <1>2, <2>1 DEF Types
<1>4. Linked'
  BY <1>2 DEF Linked
<1>5. Chained'
  BY <1>2 DEF Chained
<1>6. Worked'
  BY DEF Worked
<1>7. Recorded'
  BY <1>2 DEF Recorded
<1>8. Shallow'
  BY <1>2 DEF Shallow
<1>9. Merging'
  BY <1>2 DEF Merging
<1> QED BY <1>3, <1>4, <1>5, <1>6, <1>7, <1>8, <1>9 DEF SplitInv

LEMMA YieldedDoes ==
  ASSUME NEW f \in Frames, f.next + 1 \in 1 .. Width + 1, NEW c \in Nat
  PROVE  /\ LET g == Yielded(f) IN
            /\ g \in Frames /\ g.node = f.node /\ g.key = f.key /\ g.path = f.path
            /\ g.next = f.next + 1 /\ g.clone = f.clone
         /\ LET g == [Yielded(f) EXCEPT !.clone = c] IN
            /\ g \in Frames /\ g.node = f.node /\ g.key = f.key /\ g.path = f.path
            /\ g.next = f.next + 1 /\ g.clone = c
  BY DEF Yielded, Frames

LEMMA WithCloneDoes ==
  ASSUME NEW f \in Frames, NEW c \in Nat
  PROVE  LET g == [f EXCEPT !.clone = c] IN
         /\ g \in Frames /\ g.node = f.node /\ g.key = f.key /\ g.path = f.path
         /\ g.next = f.next /\ g.clone = c
  BY DEF Frames

\* The clones that the frames work on are those they worked on, perhaps with another one.
LEMMA HeldSame ==
  ASSUME NEW s \in Seq(Frames), NEW s2, NEW g, Retop(s, s2, g), NEW c, g.clone = s[Len(s)].clone \/ g.clone = c
  PROVE  Held(s2) \subseteq Held(s) \cup {c}
<1>1. Len(s) \in DOMAIN s /\ \A i \in 1 .. Len(s) - 1 : i \in DOMAIN s
  BY LastIndex DEF Retop
<1>2. Held(s2) \subseteq {s[i].clone : i \in 1 .. Len(s) - 1} \cup {g.clone}
  BY RetopHeld
<1> QED BY <1>1, <1>2 DEF Held

LEMMA AllOuter ==
  ASSUME NEW o, NEW h, NEW s \in Seq(Frames), AllWorks(o, h, s)
  PROVE  OuterWorks(o, h, s)
<1>1. \A i \in 1 .. Len(s) - 1 : i \in DOMAIN s
  OBVIOUS
<1> QED BY <1>1 DEF AllWorks, OuterWorks

\* What the frame's clone can get: nothing for a binary value, or the clone that a frame
\* below it has just completed.
Fitting(o, h, s, held, r, v) ==
  LET u == o[s[Len(s)].node].slots[r] IN
  \/ IsBin(u) /\ v = u
  \/ /\ ~IsBin(u) /\ ~Clean(o, u) /\ IsRef(v) /\ Strips(o, h, u, v)
     /\ v.node \in Clones(h) /\ v.node \in held /\ v.node \notin Held(s) /\ v.node # 0
     /\ v.node # CloneOf(h, s[Len(s)])

LEMMA ChangeOn ==
  ASSUME NEW o \in Hosts, NEW h \in Heaps(o), NEW s \in Seq(Frames), s # << >>, Chain(o, h, s),
         NEW held, Held(s) \subseteq held, Links(h, held), OuterWorks(o, h, s),
         NEW r \in Slots, Works(o, h, s[Len(s)], r), NEW v \in Values, Fitting(o, h, s, held, r, v),
         NEW s2, NEW g, Retop(s, s2, g), g.next = r + 1, g.clone = CloneOf(h, s[Len(s)])
  PROVE  LET h2 == Change(h, s[Len(s)], r, v) IN
         /\ h2 \in Heaps(o) /\ Chain(o, h2, s2) /\ Links(h2, Held(s2) \cup {0})
         /\ AllWorks(o, h2, s2)
<1> DEFINE n == Len(s)
           f == s[n]
           c == CloneOf(h, f)
           h2 == Change(h, f, r, v)
           u == o[f.node].slots[r]
           w == Leaves(h, f, v)
           held2 == Held(s2) \cup {0}
<1>0. n \in DOMAIN s /\ f \in Frames /\ f.node \in 1 .. N /\ r \in Nat
  BY LastIndex, FrameTypes, SplitAssumption DEF Slots
<1>1. f.clone = 0 \/ f.clone \in Clones(h)
  BY <1>0 DEF Chain
<1>2. /\ Unseen(h, c) /\ Others(s, c) /\ c \in Nat \ {0}
      /\ \A i \in DOMAIN s : i # n => s[i].clone # c
  BY CloneAlone
<1>3. Slot(h, Ref(Base(f)), r) # Absent
  BY <1>0, BaseSlot
<1>4. Left(h[Base(f)].kind) = Left(o[f.node].kind) /\ (f.clone # 0 => h[f.clone].kind # "tuple")
  BY <1>0, BaseKind
<1>5. Retop(s, s2, g) /\ g.next = r + 1 /\ g.clone = c
  OBVIOUS
<1>6. \/ IsBin(u) /\ v = u
      \/ /\ ~IsBin(u) /\ ~Clean(o, u) /\ IsRef(v) /\ Strips(o, h, u, v)
         /\ v.node \in Clones(h) /\ v.node \in held /\ v.node \notin Held(s) /\ v.node # 0
         /\ v.node # c
  BY DEF Fitting
<1>7. Works(o, h, f, r)
  OBVIOUS
<1>8. g.node = f.node
  BY DEF Retop
<1>9. h2 \in Heaps(o) /\ c \in Clones(h2) /\ Edited(h, h2, c, Base(f), r, w)
  BY <1>0, <1>1, <1>3, <1>4, ChangeDoes
<1> HIDE DEF n, f, c, h2
<1>10. OtherThan(h, h2, c) /\ Clones(h) \subseteq Clones(h2) /\ Clones(h) \subseteq DOMAIN h
  BY <1>9, HeapTypes DEF Edited
<1>11. Chain(o, h2, s2)
  BY <1>2, <1>5, <1>9, <1>10, RetopChain DEF n
<1>12. held2 \subseteq Held(s) \cup {c, 0}
  BY <1>5, HeldSame
<1>13. Links(h2, held2)
  <2> HIDE DEF held2
  <2>1. Links(h, held \cup {0})
    <3>1. 0 \notin Clones(h)
      BY HeapTypes
    <3> QED BY <3>1, LinksMono
  <2>2. held2 \subseteq (held \cup {0}) \cup {c}
    BY <1>12
  <2>3. c \in held2 => Unseen(h, c)
    BY <1>2
  <2>4. IsRef(w) => w.node \in Clones(h) /\ w.node \in held \cup {0} /\ w.node \notin held2
    <3>1. CASE IsBin(v)
      BY <3>1, Shapes DEF w, Leaves, Left
    <3>2. CASE ~IsBin(v)
      <4>1. w = v
        BY <3>2 DEF Leaves
      <4> HIDE DEF w, u
      <4> QED BY <1>6, <1>12, <3>2, <4>1
    <3> QED BY <3>1, <3>2
  <2> HIDE DEF w
  <2> QED BY <1>9, <2>1, <2>2, <2>3, <2>4, LinksEdited
<1>14. ~Clean(o, u)
  <2>1. CASE IsBin(u)
    <3>1. << >> \in AllPaths /\ At(o, u, << >>) = u
      BY AtEmpty DEF AllPaths
    <3> HIDE DEF u
    <3> QED BY <2>1, <3>1 DEF Clean
  <2> QED BY <1>6, <2>1
<1>15. IF IsBin(u) THEN w = Left(o[f.node].kind) ELSE Strips(o, h2, u, w)
  <2>1. CASE IsBin(u)
    BY <1>4, <1>6, <2>1, Shapes DEF Leaves
  <2>2. CASE ~IsBin(u)
    <3>1. IsRef(v) /\ Strips(o, h, u, v) /\ v.node \in Clones(h) /\ v.node # c
      BY <1>6, <2>2
    <3>2. w = v
      BY <3>1, Shapes DEF Leaves
    <3>3. Away(h, c, v)
      BY <1>10, <3>1 DEF Away
    <3> HIDE DEF u, w
    <3>4. Strips(o, h2, u, v)
      BY <1>2, <1>10, <3>1, <3>3, StripsAway
    <3> QED BY <2>2, <3>2, <3>4
  <2> QED BY <2>1, <2>2
<1>16. Works(o, h2, g, r + 1)
  <2> HIDE DEF w
  <2> QED BY <1>0, <1>1, <1>2, <1>5, <1>7, <1>8, <1>9, <1>14, <1>15, WorksEdited
<1>17. AllWorks(o, h2, s2)
  BY <1>2, <1>5, <1>10, <1>16, RetopWorks
<1> QED BY <1>9, <1>11, <1>13, <1>17 DEF h2, f, n

LEMMA SkipPlainInv ==
  ASSUME SplitInv, SkipPlain
  PROVE  SplitInv'
<1> DEFINE s2 == stack'
           g == Yielded(Top)
           n == Len(stack)
           v == original[Top.node].slots[Key]
<1>0. /\ Walking /\ Yields /\ ~IsBin(Value) /\ ~IsRef(Value) /\ stack' = [stack EXCEPT ![n] = g]
      /\ UNCHANGED <<original, limit, heap, paths, buffers, missing, merged, result, status>>
  BY DEF SkipPlain, SetTop
<1>1. /\ stack \in Seq(Frames) /\ stack # << >> /\ n <= limit + 1
      /\ Top = stack[n] /\ Top \in Frames /\ Top.node \in 1 .. N
      /\ original \in Hosts /\ heap \in Heaps(original)
      /\ Chain(original, heap, stack) /\ Links(heap, Held(stack) \cup {0})
      /\ AllWorks(original, heap, stack) /\ Works(original, heap, Top, Top.next)
      /\ Records(original, "walking", stack, paths, buffers) /\ Shallows(original, stack, limit)
      /\ paths \in Seq(AllPaths) /\ buffers \in Seq(HostValues) /\ Len(paths) = Len(buffers)
  BY <1>0, Walk
<1>2. /\ Key \in Slots /\ Key = stack[n].next /\ Key = Top.next /\ Key + 1 \in 1 .. Width + 1
      /\ Value = v /\ Key \in Nat
  BY <1>0, WalkYields
<1>3. /\ g \in Frames /\ g.node = Top.node /\ g.key = Top.key /\ g.path = Top.path
      /\ g.next = Key + 1 /\ g.clone = Top.clone
  BY <1>1, <1>2, YieldedDoes
<1> HIDE DEF g, n
<1>4. Retop(stack, s2, g)
  BY <1>0, <1>1, <1>3, RetopIs DEF n
<1>5. s2 \in Seq(Frames) /\ Len(s2) = n /\ s2 # << >>
  BY <1>1, <1>4 DEF Retop, n
<1>6. ~IsBin(v) /\ ~IsRef(v) /\ Clean(original, v) /\ \A d : ~Deep(original, v, d)
  BY <1>0, <1>2, PlainIsClean
<1> HIDE DEF v
<1>7. Chain(original, heap, s2)
  <2>1. g.clone = 0 \/ g.clone \in Clones(heap)
    BY <1>0, <1>3, Walk
  <2>2. g.clone = stack[Len(stack)].clone
    BY <1>1, <1>3 DEF n
  <2> QED BY <1>1, <1>4, <2>1, <2>2, RetopChain
<1>8. Held(s2) \subseteq Held(stack) \cup {0}
  BY <1>1, <1>3, <1>4, HeldSame DEF n
<1>9. Links(heap, Held(s2) \cup {0})
  BY <1>1, <1>8, LinksMono
<1>10. AllWorks(original, heap, s2)
  <2> DEFINE c == Len(heap) + 1
  <2>1. c \notin DOMAIN heap /\ c # 0 /\ Clones(heap) \subseteq DOMAIN heap
    BY <1>1, HeapTypes
  <2>2. Unseen(heap, c)
    BY <1>1, <2>1, LinksUnseen
  <2>3. OtherThan(heap, heap, c)
    BY DEF OtherThan
  <2>4. Others(stack, c)
    <3>1. \A i \in DOMAIN stack : stack[i].clone = 0 \/ stack[i].clone \in Clones(heap)
      BY <1>1 DEF Chain
    <3>2. \A i \in 1 .. Len(stack) - 1 : i \in DOMAIN stack
      BY <1>1, LastIndex
    <3> QED BY <2>1, <3>1, <3>2 DEF Others
  <2>5. Works(original, heap, g, Key + 1)
    BY <1>1, <1>2, <1>3, <1>6, WorksClean DEF v
  <2>6. OuterWorks(original, heap, stack)
    BY <1>1, AllOuter
  <2> HIDE DEF c
  <2> QED BY <1>1, <1>3, <1>4, <2>1, <2>2, <2>3, <2>4, <2>5, <2>6, RetopWorks
<1>11. Records(original, "walking", s2, paths, buffers)
  <2>1. ASSUME NEW p \in AllPaths, IsBin(At(original, Ref(1), p))
        PROVE  Passed(s2, p) <=> Passed(stack, p)
    <3>1. Passed(s2, p) <=> Passed(stack, p) \/ Extends(p, Append(stack[n].path, Key))
      BY <1>1, <1>2, <1>3, <1>4, RetopPassed DEF n
    <3>2. ~Extends(p, Append(stack[n].path, Key))
      <4> SUFFICES ASSUME NEW q \in AllPaths, p = Append(stack[n].path, Key) \o q PROVE FALSE
        BY DEF Extends
      <4>0. n \in DOMAIN stack
        BY <1>1, LastIndex DEF n
      <4>1. Top.path \in AllPaths /\ At(original, Ref(1), Top.path) = Ref(Top.node)
        BY <1>1, <4>0, ChainHost, FrameTypes
      <4>2. Append(Top.path, Key) \in AllPaths
        BY <1>2, <4>1 DEF AllPaths
      <4>3. At(original, Ref(1), Append(Top.path, Key)) = v
        BY <1>1, <1>2, <4>1, AtNext, HostSlot DEF v
      <4>4. At(original, Ref(1), p) = At(original, v, q)
        BY <1>1, <4>2, <4>3, AtConcat
      <4> QED BY <1>6, <2>1, <4>4 DEF Clean
    <3> QED BY <3>1, <3>2
  <2>2. SameWalked(original, "walking", stack, "walking", s2)
    BY <2>1 DEF SameWalked, Walked
  <2> QED BY <1>1, <2>2, RecordsSame
<1>12. Shallows(original, s2, limit)
  BY <1>1, <1>2, <1>3, <1>4, <1>6, RetopShallow DEF n, v
<1> HIDE DEF s2
<1>13. heap' = heap /\ paths' = paths /\ buffers' = buffers /\ status' = status
  BY <1>0
<1> QED BY <1>0, <1>1, <1>5, <1>7, <1>9, <1>10, <1>11, <1>12, <1>13, WalkOn DEF n, s2

LEMMA TakeBinaryInv ==
  ASSUME SplitInv, TakeBinary
  PROVE  SplitInv'
<1> DEFINE s2 == stack'
           h2 == heap'
           c == CloneOf(heap, Top)
           g == [Yielded(Top) EXCEPT !.clone = c]
           n == Len(stack)
           new == Append(Top.path, Key)
<1>0. /\ Walking /\ Yields /\ IsBin(Value) /\ stack' = [stack EXCEPT ![n] = g]
      /\ heap' = Change(heap, Top, Key, Value)
      /\ buffers' = Append(buffers, Value) /\ paths' = Append(paths, new)
      /\ UNCHANGED <<original, limit, missing, merged, result, status>>
  BY DEF TakeBinary, SetTop
<1>1. /\ stack \in Seq(Frames) /\ stack # << >> /\ n <= limit + 1
      /\ Top = stack[n] /\ Top \in Frames /\ Top.node \in 1 .. N
      /\ original \in Hosts /\ heap \in Heaps(original)
      /\ Chain(original, heap, stack) /\ Links(heap, Held(stack) \cup {0})
      /\ AllWorks(original, heap, stack) /\ Works(original, heap, Top, Top.next)
      /\ Records(original, "walking", stack, paths, buffers) /\ Shallows(original, stack, limit)
      /\ paths \in Seq(AllPaths) /\ buffers \in Seq(HostValues) /\ Len(paths) = Len(buffers)
  BY <1>0, Walk
<1>2. /\ Key \in Slots /\ Key = stack[n].next /\ Key = Top.next /\ Key + 1 \in 1 .. Width + 1
      /\ Value = original[Top.node].slots[Key] /\ Value \in HostValues /\ Key \in Nat
  BY <1>0, WalkYields
<1>3. c \in Nat
  BY <1>1, CloneAlone
<1>4. /\ g \in Frames /\ g.node = Top.node /\ g.key = Top.key /\ g.path = Top.path
      /\ g.next = Key + 1 /\ g.clone = c
  BY <1>1, <1>2, <1>3, YieldedDoes
<1> HIDE DEF g
<1>5. Retop(stack, s2, g)
  BY <1>0, <1>1, <1>4, RetopIs DEF n
<1>6. s2 \in Seq(Frames) /\ Len(s2) = n /\ s2 # << >>
  BY <1>1, <1>5 DEF Retop, n
<1>7. Value \in Values
  BY <1>2, ValueTypes
<1>8. Fitting(original, heap, stack, Held(stack) \cup {0}, Key, Value)
  BY <1>0, <1>1, <1>2 DEF Fitting
<1>9. /\ h2 \in Heaps(original) /\ Chain(original, h2, s2) /\ Links(h2, Held(s2) \cup {0})
      /\ AllWorks(original, h2, s2)
  <2>1. OuterWorks(original, heap, stack)
    BY <1>1, AllOuter
  <2>2. Held(stack) \subseteq Held(stack) \cup {0}
    OBVIOUS
  <2>3. Works(original, heap, stack[Len(stack)], Key)
    BY <1>1, <1>2
  <2>4. g.clone = CloneOf(heap, stack[Len(stack)]) /\ h2 = Change(heap, stack[Len(stack)], Key, Value)
    BY <1>0, <1>1, <1>4
  <2> HIDE DEF h2, s2
  <2> QED BY <1>1, <1>2, <1>4, <1>5, <1>7, <1>8, <2>1, <2>2, <2>3, <2>4, ChangeOn
<1>10. Records(original, "walking", s2, paths', buffers')
  <2>1. Records(original, "walking", s2, Append(paths, Append(stack[Len(stack)].path, Key)), Append(buffers, Value))
    BY <1>0, <1>1, <1>2, <1>4, <1>5, RecordsMore
  <2> QED BY <1>0, <1>1, <2>1
<1>11. Shallows(original, s2, limit)
  <2>1. ~Deep(original, original[g.node].slots[Key], limit + 1 - Len(stack))
    BY <1>0, <1>2, <1>4, BinIsFlat
  <2> QED BY <1>1, <1>2, <1>4, <1>5, <2>1, RetopShallow
<1>12. paths' \in Seq(AllPaths) /\ buffers' \in Seq(HostValues) /\ Len(paths') = Len(buffers')
  <2>1. Top.path \in Seq(Slots)
    BY <1>1 DEF Frames, AllPaths
  <2>2. new \in AllPaths
    BY <1>2, <2>1 DEF AllPaths
  <2> HIDE DEF new
  <2>3. paths' = Append(paths, new) /\ buffers' = Append(buffers, Value)
    BY <1>0
  <2>4. paths \in Seq(AllPaths) /\ buffers \in Seq(HostValues) /\ Len(paths) = Len(buffers)
    BY <1>1
  <2>5. paths' \in Seq(AllPaths) /\ Len(paths') = Len(paths) + 1
    BY <2>2, <2>3, <2>4
  <2>6. Value \in HostValues
    BY <1>2
  <2>7. buffers' \in Seq(HostValues) /\ Len(buffers') = Len(buffers) + 1
    BY <2>3, <2>4, <2>6
  <2> QED BY <2>4, <2>5, <2>7
<1> QED BY <1>0, <1>1, <1>6, <1>9, <1>10, <1>11, <1>12, WalkOn

\* A state that is given up keeps the rest.
LEMMA GiveUp ==
  ASSUME SplitInv, Walking, status' \in {"too deep", "cyclic"}, Deep(original, Ref(1), limit + 1),
         status' = "cyclic" => Deep(original, Ref(1), N),
         UNCHANGED <<original, limit, heap, stack, paths, buffers, missing, merged, result>>
  PROVE  SplitInv'
<1>1. Begun /\ Begun' /\ status = "walking"
  BY DEF Walking, Begun, Begins
<1>2. Types'
  BY DEF SplitInv, Types
<1>3. Linked'
  BY DEF SplitInv, Linked
<1>4. Chained'
  BY <1>1 DEF SplitInv, Chained
<1>5. Worked'
  BY DEF SplitInv, Worked
<1>6. Recorded'
  <2>1. SameWalked(original, status, stack, status', stack)
    BY <1>1 DEF SameWalked, Walked, Begun
  <2>2. Records(original, status, stack, paths, buffers) /\ paths \in Seq(AllPaths)
    BY DEF SplitInv, Recorded, Types
  <2>3. Records(original, status', stack, paths, buffers)
    BY <2>1, <2>2, RecordsSame
  <2> QED BY <2>3 DEF Recorded
<1>7. Shallow'
  BY <1>1 DEF SplitInv, Shallow
<1>8. Merging'
  BY <1>1 DEF Merging
<1> QED BY <1>2, <1>3, <1>4, <1>5, <1>6, <1>7, <1>8 DEF SplitInv

\* s2 is s after the descent into a child.
Pushes(s, s2, child) ==
  LET n == Len(s) IN
  /\ s2 \in Seq(Frames) /\ Len(s2) = n + 1 /\ \A i \in 1 .. n - 1 : s2[i] = s[i]
  /\ s2[n] = Yielded(s[n]) /\ s2[n + 1] = Frame(child, s[n].next, Append(s[n].path, s[n].next))

LEMMA PushReached ==
  ASSUME NEW s \in Seq(Frames), s # << >>, NEW s2, NEW child, Pushes(s, s2, child), NEW i \in DOMAIN s2
  PROVE  /\ s2 \in Seq(Frames) /\ Len(s) \in Nat /\ Len(s2) = Len(s) + 1 /\ i \in 1 .. Len(s) + 1
         /\ IF i = Len(s) + 1 THEN s2[i] = Frame(child, s[Len(s)].next, Append(s[Len(s)].path, s[Len(s)].next))
            ELSE /\ i \in DOMAIN s /\ i \in 1 .. Len(s)
                 /\ s2[i].path = s[i].path /\ s2[i].node = s[i].node
                 /\ s2[i].key = s[i].key /\ s2[i].clone = s[i].clone
         /\ Reached(s2, i) = IF i = Len(s) + 1 THEN 1 ELSE Reached(s, i)
         /\ i < Len(s) => s2[i].next = s[i].next
         /\ s2[Len(s)].next = s[Len(s)].next + 1
<1>1. s2 \in Seq(Frames) /\ Len(s) \in Nat /\ Len(s) # 0 /\ Len(s2) = Len(s) + 1
  BY DEF Pushes
<1>2. i \in 1 .. Len(s) + 1
  BY <1>1
<1>3. Len(s) \in DOMAIN s /\ s[Len(s)] \in Frames /\ s[Len(s)].next \in Nat
  BY LastIndex, FrameTypes
<1>4. /\ s2[Len(s)].path = s[Len(s)].path /\ s2[Len(s)].node = s[Len(s)].node
      /\ s2[Len(s)].key = s[Len(s)].key /\ s2[Len(s)].clone = s[Len(s)].clone
      /\ s2[Len(s)].next = s[Len(s)].next + 1
  BY <1>3 DEF Pushes, Yielded, Frames
<1>5. CASE i = Len(s) + 1
  <2>1. s2[i] = Frame(child, s[Len(s)].next, Append(s[Len(s)].path, s[Len(s)].next))
    BY <1>5 DEF Pushes
  <2>2. s2[i].next = 1
    BY <2>1 DEF Frame
  <2> QED BY <1>1, <1>2, <1>4, <1>5, <2>1, <2>2 DEF Reached
<1>6. CASE i = Len(s)
  BY <1>1, <1>2, <1>3, <1>4, <1>6 DEF Reached
<1>7. CASE i < Len(s)
  <2>1. i \in 1 .. Len(s) - 1 /\ i \in DOMAIN s
    BY <1>1, <1>2, <1>7
  <2>2. s2[i] = s[i]
    BY <2>1 DEF Pushes
  <2> QED BY <1>1, <1>2, <1>4, <1>7, <2>1, <2>2 DEF Reached
<1> QED BY <1>1, <1>2, <1>5, <1>6, <1>7

LEMMA PushChain ==
  ASSUME NEW o, NEW h \in Heaps(o), NEW s \in Seq(Frames), s # << >>, Chain(o, h, s), NEW child, NEW s2, Pushes(s, s2, child),
         s[Len(s)].next \in Slots, o[s[Len(s)].node].slots[s[Len(s)].next] = Ref(child)
  PROVE  Chain(o, h, s2)
<1> DEFINE n == Len(s)
           f == s2[n + 1]
<1>0. n \in DOMAIN s /\ DOMAIN s = 1 .. n /\ n \in Nat \ {0} /\ DOMAIN s2 = 1 .. n + 1 /\ Len(s2) = n + 1
  BY LastIndex DEF Pushes
<1>1. ASSUME NEW i \in 1 .. n
      PROVE  /\ s2[i].path = s[i].path /\ s2[i].node = s[i].node /\ s2[i].key = s[i].key /\ s2[i].clone = s[i].clone
             /\ i < n => s2[i].next = s[i].next
  <2>1. i \in DOMAIN s2 /\ i # n + 1
    BY <1>0
  <2> QED BY <2>1, PushReached
<1>2. /\ f.node = child /\ f.key = s[n].next /\ f.path = Append(s[n].path, s[n].next) /\ f.clone = 0
  BY DEF Pushes, Frame
<1>3. s2[n].next = s[n].next + 1 /\ s[n].next \in Nat
  <2>1. n \in DOMAIN s2
    BY <1>0
  <2> QED BY <1>0, <2>1, PushReached, FrameTypes
<1>4. s[n].path \in Seq(Slots) /\ Len(s[n].path) = n - 1 /\ \A x \in 1 .. n - 1 : s[n].path[x] = s[x + 1].key
  BY <1>0, FrameTypes DEF Chain, AllPaths
<1>5. s[n].next \in Slots /\ o[s[n].node].slots[s[n].next] = Ref(child)
  OBVIOUS
<1> HIDE DEF n, f
<1>6. Len(f.path) = n /\ \A x \in 1 .. n : f.path[x] = s2[x + 1].key
  <2> DEFINE a == s[n].path
             k == s[n].next
  <2> HIDE DEF a, k
  <2>1. a \in Seq(Slots) /\ Len(a) = n - 1 /\ k \in Slots
    BY <1>4, <1>5 DEF a, k
  <2>2. Len(Append(a, k)) = n /\ Append(a, k)[n] = k /\ \A x \in 1 .. n - 1 : Append(a, k)[x] = a[x]
    BY <1>0, <2>1
  <2>3. f.path = Append(a, k) /\ s2[n + 1].key = k
    BY <1>2 DEF a, k, f
  <2>4. \A x \in 1 .. n - 1 : x + 1 \in 1 .. n
    BY <1>0
  <2>5. \A x \in 1 .. n - 1 : a[x] = s2[x + 1].key
    BY <1>1, <1>4, <2>4 DEF a
  <2>6. \A x \in 1 .. n : x = n \/ x \in 1 .. n - 1
    BY <1>0
  <2> QED BY <2>2, <2>3, <2>5, <2>6
<1> SUFFICES ASSUME NEW i \in DOMAIN s2
             PROVE /\ Len(s2[i].path) = i - 1 /\ \A x \in 1 .. i - 1 : s2[i].path[x] = s2[x + 1].key
                   /\ i = 1 => s2[i].node = 1
                   /\ i < Len(s2) =>
                        /\ s2[i + 1].key = s2[i].next - 1 /\ s2[i].next - 1 \in Slots
                        /\ s2[i + 1].path = Append(s2[i].path, s2[i + 1].key)
                        /\ o[s2[i].node].slots[s2[i + 1].key] = Ref(s2[i + 1].node)
                   /\ s2[i].clone = 0 \/ s2[i].clone \in Clones(h)
                   /\ \A j \in DOMAIN s2 : s2[j].clone = s2[i].clone /\ i # j => s2[i].clone = 0
  BY DEF Chain
<1>7. /\ Len(s2[i].path) = i - 1 /\ \A x \in 1 .. i - 1 : s2[i].path[x] = s2[x + 1].key
      /\ i = 1 => s2[i].node = 1
  <2>1. CASE i = n + 1
    BY <1>0, <1>6, <2>1 DEF f
  <2>2. CASE i # n + 1
    <3>1. i \in 1 .. n
      BY <1>0, <2>2
    <3>2. /\ Len(s[i].path) = i - 1 /\ \A x \in 1 .. i - 1 : s[i].path[x] = s[x + 1].key
          /\ i = 1 => s[i].node = 1
      BY <1>0, <3>1 DEF Chain
    <3>3. \A x \in 1 .. i - 1 : x + 1 \in 1 .. n
      BY <1>0, <3>1
    <3> QED BY <1>1, <3>1, <3>2, <3>3
  <2> QED BY <2>1, <2>2
<1>8. ASSUME i < Len(s2)
      PROVE  /\ s2[i + 1].key = s2[i].next - 1 /\ s2[i].next - 1 \in Slots
             /\ s2[i + 1].path = Append(s2[i].path, s2[i + 1].key)
             /\ o[s2[i].node].slots[s2[i + 1].key] = Ref(s2[i + 1].node)
  <2>0. i \in 1 .. n
    BY <1>0, <1>8
  <2>1. CASE i = n
    <3>1. s2[n].next - 1 = s[n].next
      BY <1>3
    <3> QED BY <1>1, <1>2, <1>5, <2>0, <2>1, <3>1 DEF f
  <2>2. CASE i # n
    <3>1. i < Len(s) /\ i + 1 \in 1 .. n /\ i \in DOMAIN s /\ i < n
      BY <1>0, <2>0, <2>2 DEF n
    <3>2. /\ s[i + 1].key = s[i].next - 1 /\ s[i].next - 1 \in Slots
          /\ s[i + 1].path = Append(s[i].path, s[i + 1].key)
          /\ o[s[i].node].slots[s[i + 1].key] = Ref(s[i + 1].node)
      BY <3>1 DEF Chain
    <3> QED BY <1>1, <2>0, <3>1, <3>2
  <2> QED BY <2>1, <2>2
<1>9. \A j \in 1 .. n : s[j].clone = 0 \/ s[j].clone \in Clones(h)
  BY <1>0 DEF Chain
<1>10. s2[i].clone = 0 \/ s2[i].clone \in Clones(h)
  BY <1>0, <1>1, <1>2, <1>9 DEF f
<1>11. ASSUME NEW j \in DOMAIN s2, s2[j].clone = s2[i].clone, i # j PROVE s2[i].clone = 0
  <2>1. \A x, y \in 1 .. n : s[y].clone = s[x].clone /\ x # y => s[x].clone = 0
    BY <1>0 DEF Chain
  <2> QED BY <1>0, <1>1, <1>2, <1>11, <2>1 DEF f
<1> QED BY <1>7, <1>8, <1>10, <1>11

\* The new frame has done nothing, and the others have done what they had.
LEMMA PushRest ==
  ASSUME NEW o, NEW h, NEW s \in Seq(Frames), s # << >>, NEW child, NEW s2, Pushes(s, s2, child)
  PROVE  /\ AllWorks(o, h, s) => AllWorks(o, h, s2)
         /\ \A d : Shallows(o, s, d) => Shallows(o, s2, d)
         /\ \A p : Passed(s2, p) <=> Passed(s, p)
         /\ Held(s2) \subseteq Held(s) \cup {0}
<1> DEFINE n == Len(s)
<1>0. DOMAIN s2 = 1 .. n + 1 /\ DOMAIN s = 1 .. n /\ n \in Nat /\ \A k \in Slots : ~(k < 1)
  BY SplitAssumption DEF Pushes, Slots
<1>1. ASSUME NEW i \in 1 .. n
      PROVE  /\ s2[i].path = s[i].path /\ s2[i].node = s[i].node /\ s2[i].clone = s[i].clone
             /\ Reached(s2, i) = Reached(s, i)
  <2>1. i \in DOMAIN s2 /\ i # n + 1
    BY <1>0
  <2> QED BY <2>1, PushReached
<1>2. Reached(s2, n + 1) = 1 /\ s2[n + 1].clone = 0
  <2>1. n + 1 \in DOMAIN s2
    BY <1>0
  <2> QED BY <2>1, PushReached DEF Frame
<1> HIDE DEF n
<1>3. \A i \in DOMAIN s2 : i = n + 1 \/ i \in 1 .. n
  BY <1>0
<1>4. ASSUME AllWorks(o, h, s) PROVE AllWorks(o, h, s2)
  <2> SUFFICES ASSUME NEW i \in DOMAIN s2 PROVE Works(o, h, s2[i], Reached(s2, i))
    BY DEF AllWorks
  <2>1. CASE i = n + 1
    BY <1>0, <1>2, <2>1 DEF Works
  <2>2. CASE i \in 1 .. n
    <3>1. Works(o, h, s[i], Reached(s, i))
      BY <1>0, <1>4, <2>2 DEF AllWorks
    <3> QED BY <1>1, <2>2, <3>1 DEF Works
  <2> QED BY <1>3, <2>1, <2>2
<1>5. ASSUME NEW d, Shallows(o, s, d) PROVE Shallows(o, s2, d)
  <2> SUFFICES ASSUME NEW i \in DOMAIN s2, NEW k \in Slots, k < Reached(s2, i)
               PROVE  ~Deep(o, o[s2[i].node].slots[k], d + 1 - i)
    BY DEF Shallows
  <2>1. i # n + 1
    BY <1>0, <1>2
  <2>2. i \in 1 .. n
    BY <1>3, <2>1
  <2>3. i \in DOMAIN s
    BY <1>0, <2>2
  <2>4. k < Reached(s, i) /\ s2[i].node = s[i].node
    BY <1>1, <2>2
  <2> QED BY <1>5, <2>3, <2>4 DEF Shallows
<1>6. ASSUME NEW p PROVE Passed(s2, p) <=> Passed(s, p)
  <2>1. ASSUME NEW i \in DOMAIN s2, Covers(s2[i].path, Reached(s2, i), p) PROVE Passed(s, p)
    <3>1. i # n + 1
      BY <1>0, <1>2, <2>1 DEF Covers
    <3>2. i \in 1 .. n
      BY <1>3, <3>1
    <3> QED BY <1>0, <1>1, <2>1, <3>2 DEF Passed
  <2>2. ASSUME NEW i \in DOMAIN s, Covers(s[i].path, Reached(s, i), p) PROVE Passed(s2, p)
    <3>1. i \in DOMAIN s2 /\ i \in 1 .. n
      BY <1>0
    <3> QED BY <1>1, <2>2, <3>1 DEF Passed
  <2> QED BY <2>1, <2>2 DEF Passed
<1>7. Held(s2) \subseteq Held(s) \cup {0}
  BY <1>0, <1>1, <1>2, <1>3 DEF Held
<1> QED BY <1>4, <1>5, <1>6, <1>7

\* Where the frame is there is a container, as deep down as there are frames.
LEMMA DescendDeep ==
  ASSUME SplitInv, Walking, Yields, IsRef(Value)
  PROVE  /\ Value = Ref(Value.node) /\ Value.node \in 1 .. N
         /\ Deep(original, Ref(1), Len(stack))
<1>1. Value = Ref(Value.node) /\ Value.node \in 1 .. N
  BY WalkYields, HostValue
<1> DEFINE path == stack[Len(stack)].path
<1>2. path \in AllPaths /\ Len(path) = Len(stack) - 1 /\ Len(stack) \in Nat \ {0}
  BY Walk, FrameTypes DEF Chain
<1>3. At(original, Ref(1), path) = Ref(Top.node)
  BY Walk, ChainHost
<1>4. Key \in Slots /\ Top.node \in 1 .. N /\ original \in Hosts /\ Value = original[Top.node].slots[Key]
  BY Walk, WalkYields
<1> HIDE DEF path
<1>5. At(original, Ref(1), Append(path, Key)) = Value
  BY <1>2, <1>3, <1>4, AtNext, HostSlot
<1>6. Append(path, Key) \in AllPaths /\ Len(Append(path, Key)) = Len(stack)
  BY <1>2, <1>4 DEF AllPaths
<1>7. Deep(original, Ref(1), Len(stack))
  BY <1>5, <1>6 DEF Deep
<1> QED BY <1>1, <1>7

\* A container that is its own ancestor closes a cycle.
LEMMA CyclicDeep ==
  ASSUME SplitInv, Walking, Yields, IsRef(Value), Value.node \in Ancestors
  PROVE  Deep(original, Ref(1), limit + 1) /\ Deep(original, Ref(1), N)
<1> DEFINE n == Len(stack)
<1>0. /\ stack \in Seq(Frames) /\ stack # << >> /\ n \in Nat \ {0} /\ DOMAIN stack = 1 .. n
      /\ Chain(original, heap, stack) /\ original \in Hosts /\ limit \in Nat /\ Top = stack[n]
  BY Walk
<1>1. Key \in Slots /\ original[Top.node].slots[Key] = Ref(Value.node)
  BY WalkYields, DescendDeep
<1> HIDE DEF n
<1>2. Ancestors \in SUBSET (1 .. N)
  BY <1>0, FrameTypes DEF Ancestors
<1>3. ASSUME NEW m \in Ancestors
      PROVE  \E k \in Slots : \E l \in Ancestors : original[m].slots[k] = Ref(l)
  <2>1. PICK i \in DOMAIN stack : m = stack[i].node
    BY DEF Ancestors
  <2>2. CASE i = n
    BY <1>0, <1>1, <2>1, <2>2
  <2>3. CASE i # n
    <3>1. i < Len(stack) /\ i + 1 \in DOMAIN stack
      BY <1>0, <2>3 DEF n
    <3>2. stack[i + 1].key \in Slots /\ original[m].slots[stack[i + 1].key] = Ref(stack[i + 1].node)
      BY <1>0, <2>1, <3>1 DEF Chain
    <3>3. stack[i + 1].node \in Ancestors
      BY <3>1 DEF Ancestors
    <3> QED BY <3>2, <3>3
  <2> QED BY <2>2, <2>3
<1>4. 1 \in Ancestors
  <2>1. 1 \in DOMAIN stack /\ stack[1].node = 1
    BY <1>0 DEF Chain
  <2> QED BY <2>1 DEF Ancestors
<1>5. \A d \in Nat : \A m \in Ancestors : Deep(original, Ref(m), d)
  BY <1>0, <1>2, <1>3, CycleDeep
<1> QED BY <1>0, <1>4, <1>5, SplitAssumption

LEMMA DescendInv ==
  ASSUME SplitInv, Descend
  PROVE  SplitInv'
<1> DEFINE n == Len(stack)
           child == Value.node
<1>0. /\ Walking /\ Yields /\ IsRef(Value)
      /\ IF Depth + 1 > limit THEN status' = "too deep" /\ UNCHANGED stack
         ELSE IF child \in Ancestors THEN status' = "cyclic" /\ UNCHANGED stack
         ELSE /\ stack' = Append(SetTop(Yielded(Top)), Frame(child, Key, Append(Top.path, Key)))
              /\ UNCHANGED status
      /\ UNCHANGED <<original, limit, heap, paths, buffers, missing, merged, result>>
  BY DEF Descend
<1>1. /\ stack \in Seq(Frames) /\ stack # << >> /\ n <= limit + 1 /\ n \in Nat \ {0} /\ limit \in Nat
      /\ Top = stack[n] /\ Top \in Frames /\ Top.node \in 1 .. N
      /\ original \in Hosts /\ heap \in Heaps(original)
      /\ Chain(original, heap, stack) /\ Links(heap, Held(stack) \cup {0})
      /\ AllWorks(original, heap, stack)
      /\ Records(original, "walking", stack, paths, buffers) /\ Shallows(original, stack, limit)
      /\ paths \in Seq(AllPaths) /\ buffers \in Seq(HostValues) /\ Len(paths) = Len(buffers)
  BY <1>0, Walk
<1>2. /\ Key \in Slots /\ Key = stack[n].next /\ Key = Top.next /\ Key + 1 \in 1 .. Width + 1
      /\ Value = original[Top.node].slots[Key] /\ Key \in Nat
  BY <1>0, WalkYields
<1>3. Value = Ref(child) /\ child \in 1 .. N /\ Deep(original, Ref(1), n)
  BY <1>0, DescendDeep
<1>4. Depth + 1 = n
  BY <1>1 DEF Depth
<1>5. CASE Depth + 1 > limit
  <2>1. n = limit + 1
    BY <1>1, <1>4, <1>5
  <2>2. status' = "too deep" /\ UNCHANGED stack
    BY <1>0, <1>5
  <2> QED BY <1>0, <1>3, <2>1, <2>2, GiveUp
<1>6. CASE ~(Depth + 1 > limit) /\ child \in Ancestors
  <2>1. Deep(original, Ref(1), limit + 1) /\ Deep(original, Ref(1), N)
    BY <1>0, <1>6, CyclicDeep
  <2>2. status' = "cyclic" /\ UNCHANGED stack
    BY <1>0, <1>6
  <2> QED BY <1>0, <2>1, <2>2, GiveUp
<1>7. CASE ~(Depth + 1 > limit) /\ child \notin Ancestors
  <2> DEFINE s2 == stack'
             g == Yielded(Top)
             f == Frame(child, Key, Append(Top.path, Key))
             s1 == [stack EXCEPT ![n] = g]
  <2>1. s2 = Append(s1, f) /\ status' = status
    BY <1>0, <1>7 DEF SetTop
  <2>2. n <= limit
    BY <1>1, <1>4, <1>7
  <2>3. g \in Frames
    BY <1>1, <1>2, YieldedDoes
  <2>4. f \in Frames
    <3>1. Top.path \in Seq(Slots)
      BY <1>1 DEF Frames, AllPaths
    <3>2. Append(Top.path, Key) \in AllPaths
      BY <1>2, <3>1 DEF AllPaths
    <3> QED BY <1>2, <1>3, <3>2, SplitAssumption DEF Frame, Frames
  <2> HIDE DEF g, f, s2
  <2>5. s1 \in Seq(Frames) /\ Len(s1) = n /\ s1[n] = g /\ \A i \in 1 .. n - 1 : s1[i] = stack[i]
    BY <1>1, <2>3
  <2> HIDE DEF s1
  <2>6. s2 \in Seq(Frames) /\ Len(s2) = n + 1 /\ s2[n + 1] = f /\ s2[n] = g /\ \A i \in 1 .. n - 1 : s2[i] = stack[i]
    BY <1>1, <2>1, <2>4, <2>5
  <2>7. Pushes(stack, s2, child)
    BY <1>1, <1>2, <2>6 DEF Pushes, f, g
  <2>8. Chain(original, heap, s2)
    <3>1. stack[Len(stack)].next \in Slots /\ original[stack[Len(stack)].node].slots[stack[Len(stack)].next] = Ref(child)
      BY <1>1, <1>2, <1>3
    <3> QED BY <1>1, <2>7, <3>1, PushChain
  <2>9. /\ AllWorks(original, heap, s2) /\ Shallows(original, s2, limit)
        /\ Held(s2) \subseteq Held(stack) \cup {0}
    BY <1>1, <2>7, PushRest
  <2>10. ASSUME NEW p PROVE Passed(s2, p) <=> Passed(stack, p)
    BY <1>1, <2>7, PushRest
  <2>11. Links(heap, Held(s2) \cup {0})
    BY <1>1, <2>9, LinksMono
  <2>12. Records(original, "walking", s2, paths, buffers)
    <3>1. SameWalked(original, "walking", stack, "walking", s2)
      BY <2>10 DEF SameWalked, Walked
    <3> QED BY <1>1, <3>1, RecordsSame
  <2>13. s2 # << >> /\ Len(s2) <= limit + 1
    BY <1>1, <2>2, <2>6
  <2>14. heap' = heap /\ paths' = paths /\ buffers' = buffers /\ s2 = stack'
    BY <1>0 DEF s2
  <2> QED BY <1>0, <1>1, <2>1, <2>6, <2>8, <2>9, <2>11, <2>12, <2>13, <2>14, WalkOn
<1> QED BY <1>5, <1>6, <1>7
-----------------------------------------------------------------------------
(***************************************************************************)
(* A frame is complete.                                                    *)
(***************************************************************************)

\* The frames without the innermost, which is that of the slot before the next one.
LEMMA PopIs ==
  ASSUME NEW o, NEW h, NEW s \in Seq(Frames), Len(s) # 0, Len(s) # 1, Chain(o, h, s)
  PROVE  LET t == Front(s)
             m == Len(s) - 1
             r == s[m].next - 1 IN
         /\ t \in Seq(Frames) /\ t # << >> /\ Len(t) = m /\ m \in Nat \ {0} /\ m \in DOMAIN s
         /\ Len(s) \in DOMAIN s /\ m + 1 = Len(s)
         /\ \A i \in 1 .. m : t[i] = s[i] /\ i \in DOMAIN s
         /\ \A i \in 1 .. m - 1 : Reached(t, i) = Reached(s, i)
         /\ r \in Slots /\ Reached(s, m) = r /\ Reached(t, m) = r + 1 /\ s[m].next = r + 1
         /\ s[m + 1].key = r /\ o[s[m].node].slots[r] = Ref(s[m + 1].node)
         /\ s[m + 1].path = Append(s[m].path, r)
         /\ Chain(o, h, t) /\ Held(t) \subseteq Held(s)
<1> DEFINE t == Front(s)
           m == Len(s) - 1
           r == s[m].next - 1
<1>0. m \in Nat \ {0} /\ m \in DOMAIN s /\ m < Len(s) /\ m + 1 = Len(s) /\ Len(s) \in DOMAIN s /\ DOMAIN s = 1 .. m + 1
  OBVIOUS
<1>1. t = SubSeq(s, 1, m)
  BY DEF Front
<1>2. t \in Seq(Frames) /\ Len(t) = m /\ \A i \in 1 .. m : t[i] = s[i] /\ i \in DOMAIN s
  BY <1>0, <1>1
<1>3. s[m].next \in Nat /\ s[m] \in Frames
  BY <1>0, FrameTypes
<1>4. /\ s[m + 1].key = r /\ r \in Slots /\ o[s[m].node].slots[r] = Ref(s[m + 1].node)
      /\ s[m + 1].path = Append(s[m].path, r)
  BY <1>0 DEF Chain
<1> HIDE DEF t
<1>5. Reached(s, m) = r /\ Reached(t, m) = r + 1 /\ s[m].next = r + 1
  BY <1>0, <1>2, <1>3 DEF Reached
<1>6. ASSUME NEW i \in 1 .. m - 1 PROVE Reached(t, i) = Reached(s, i)
  <2>1. i \in 1 .. m /\ i < m /\ i < Len(s)
    BY <1>0
  <2> QED BY <1>2, <2>1 DEF Reached
<1> HIDE DEF m, r
<1>7. Chain(o, h, t)
  <2> SUFFICES ASSUME NEW i \in DOMAIN t
               PROVE /\ Len(t[i].path) = i - 1 /\ \A x \in 1 .. i - 1 : t[i].path[x] = t[x + 1].key
                     /\ i = 1 => t[i].node = 1
                     /\ i < Len(t) =>
                          /\ t[i + 1].key = t[i].next - 1 /\ t[i].next - 1 \in Slots
                          /\ t[i + 1].path = Append(t[i].path, t[i + 1].key)
                          /\ o[t[i].node].slots[t[i + 1].key] = Ref(t[i + 1].node)
                     /\ t[i].clone = 0 \/ t[i].clone \in Clones(h)
                     /\ \A j \in DOMAIN t : t[j].clone = t[i].clone /\ i # j => t[i].clone = 0
    BY DEF Chain
  <2>0. DOMAIN t = 1 .. m /\ i \in 1 .. m /\ t[i] = s[i] /\ i \in DOMAIN s
    BY <1>2
  <2>1. /\ Len(s[i].path) = i - 1 /\ \A x \in 1 .. i - 1 : s[i].path[x] = s[x + 1].key
        /\ i = 1 => s[i].node = 1
        /\ i < Len(s) =>
             /\ s[i + 1].key = s[i].next - 1 /\ s[i].next - 1 \in Slots
             /\ s[i + 1].path = Append(s[i].path, s[i + 1].key)
             /\ o[s[i].node].slots[s[i + 1].key] = Ref(s[i + 1].node)
        /\ s[i].clone = 0 \/ s[i].clone \in Clones(h)
        /\ \A j \in DOMAIN s : s[j].clone = s[i].clone /\ i # j => s[i].clone = 0
    BY <2>0 DEF Chain
  <2>2. /\ Len(t[i].path) = i - 1 /\ \A x \in 1 .. i - 1 : t[i].path[x] = t[x + 1].key
        /\ i = 1 => t[i].node = 1 /\ (t[i].clone = 0 \/ t[i].clone \in Clones(h))
    <3>1. \A x \in 1 .. i - 1 : x + 1 \in 1 .. m
      BY <1>0, <2>0
    <3> QED BY <1>2, <2>0, <2>1, <3>1
  <2>3. i < Len(t) =>
          /\ t[i + 1].key = t[i].next - 1 /\ t[i].next - 1 \in Slots
          /\ t[i + 1].path = Append(t[i].path, t[i + 1].key)
          /\ o[t[i].node].slots[t[i + 1].key] = Ref(t[i + 1].node)
    <3> SUFFICES ASSUME i < m
                 PROVE  /\ t[i + 1].key = t[i].next - 1 /\ t[i].next - 1 \in Slots
                        /\ t[i + 1].path = Append(t[i].path, t[i + 1].key)
                        /\ o[t[i].node].slots[t[i + 1].key] = Ref(t[i + 1].node)
      BY <1>2
    <3>1. i + 1 \in 1 .. m /\ i < Len(s)
      BY <1>0, <2>0
    <3>2. t[i + 1] = s[i + 1]
      BY <1>2, <3>1
    <3> QED BY <2>0, <2>1, <3>1, <3>2
  <2>4. \A j \in DOMAIN t : t[j].clone = t[i].clone /\ i # j => t[i].clone = 0
    BY <1>2, <2>0, <2>1
  <2>5. t[i].clone = 0 \/ t[i].clone \in Clones(h)
    BY <2>0, <2>1
  <2> QED BY <2>0, <2>2, <2>3, <2>4, <2>5
<1>8. Held(t) \subseteq Held(s)
  BY <1>2 DEF Held
<1>9. t # << >>
  BY <1>0, <1>2
<1> QED BY <1>0, <1>2, <1>4, <1>5, <1>6, <1>7, <1>8, <1>9 DEF t, m, r

\* The walk has come by the same binary values: the slot of the complete container holds none,
\* and those in it and below it have been passed.
LEMMA PopPassed ==
  ASSUME NEW o \in Hosts, NEW h, NEW s \in Seq(Frames), Len(s) # 0, Len(s) # 1, Chain(o, h, s),
         s[Len(s)].next = Width + 1, NEW s2, NEW g, Retop(Front(s), s2, g), g.next = s[Len(s) - 1].next,
         NEW p \in AllPaths, IsBin(At(o, Ref(1), p))
  PROVE  Passed(s2, p) <=> Passed(s, p)
<1> DEFINE t == Front(s)
           m == Len(s) - 1
           r == s[m].next - 1
           path == s[m].path
<1>0. /\ t \in Seq(Frames) /\ t # << >> /\ Len(t) = m /\ m \in Nat \ {0} /\ m \in DOMAIN s
      /\ Len(s) \in DOMAIN s /\ m + 1 = Len(s)
      /\ \A i \in 1 .. m : t[i] = s[i] /\ i \in DOMAIN s
      /\ \A i \in 1 .. m - 1 : Reached(t, i) = Reached(s, i)
      /\ r \in Slots /\ Reached(s, m) = r /\ Reached(t, m) = r + 1 /\ s[m].next = r + 1
      /\ s[m + 1].path = Append(path, r)
  BY PopIs
<1>1. Reached(s, m + 1) = Width + 1 /\ Retop(t, s2, g) /\ g.next = r + 1
  BY <1>0 DEF Reached
<1>2. path \in AllPaths /\ s[m + 1].path \in AllPaths /\ DOMAIN s = 1 .. m + 1
  <2>1. \A i \in DOMAIN s : s[i].path \in AllPaths
    BY FrameTypes
  <2>2. DOMAIN s = 1 .. Len(s)
    OBVIOUS
  <2> HIDE DEF m
  <2> QED BY <1>0, <2>1, <2>2
<1>3. At(o, Ref(1), s[m + 1].path) = Ref(s[m + 1].node)
  BY <1>0, ChainHost
<1> HIDE DEF t, m, r, path
<1>4. ASSUME NEW i \in 1 .. m
      PROVE  /\ s2[i].path = s[i].path /\ i \in DOMAIN s2
             /\ Reached(s2, i) = IF i = m THEN r + 1 ELSE Reached(s, i)
  <2>1. i \in DOMAIN s2
    BY <1>0, <1>1 DEF Retop
  <2>2. /\ s2[i].path = t[i].path
        /\ IF i = m THEN Reached(s2, i) = g.next ELSE Reached(s2, i) = Reached(t, i)
    BY <1>0, <1>1, <2>1, RetopReached
  <2>3. i # m => i \in 1 .. m - 1
    BY <1>0
  <2> QED BY <1>0, <1>1, <2>1, <2>2, <2>3
<1>5. DOMAIN s2 = 1 .. m
  BY <1>0, <1>1 DEF Retop
<1>6. \A k \in Slots : (k < r + 1 <=> k < r \/ k = r) /\ k < Width + 1
  BY <1>0, SplitAssumption DEF Slots
<1>7. ASSUME Passed(s2, p) PROVE Passed(s, p)
  <2>1. PICK i \in 1 .. m : Covers(s2[i].path, Reached(s2, i), p)
    BY <1>5, <1>7 DEF Passed
  <2>2. CASE i # m
    BY <1>0, <1>4, <2>1, <2>2 DEF Passed
  <2>3. CASE i = m
    <3>1. Covers(path, r + 1, p)
      BY <1>4, <2>1, <2>3 DEF path
    <3>2. Covers(path, r, p) \/ Extends(p, Append(path, r))
      BY <1>6, <3>1 DEF Covers, Extends
    <3>3. CASE Covers(path, r, p)
      BY <1>0, <3>3 DEF Passed, path
    <3>4. CASE Extends(p, Append(path, r))
      <4>1. PICK q \in AllPaths : p = s[m + 1].path \o q
        BY <1>0, <3>4 DEF Extends
      <4>2. At(o, Ref(1), p) = At(o, Ref(s[m + 1].node), q)
        BY <1>2, <1>3, <4>1, AtConcat
      <4>3. q # << >>
        BY <4>2, AtEmpty, Shapes
      <4>4. PICK k \in Slots : \E x \in AllPaths : q = <<k>> \o x
        BY <4>3, PathCases
      <4>5. PICK x \in AllPaths : q = <<k>> \o x
        BY <4>4
      <4>6. p = Append(s[m + 1].path, k) \o x
        <5> DEFINE a == s[m + 1].path
        <5>1. a \in AllPaths /\ p = a \o (<<k>> \o x)
          BY <1>2, <4>1, <4>5 DEF AllPaths
        <5> HIDE DEF a
        <5>2. a \o (<<k>> \o x) = Append(a, k) \o x
          BY <5>1, PathRegroups
        <5> QED BY <5>1, <5>2 DEF a
      <4>7. Covers(s[m + 1].path, Reached(s, m + 1), p)
        BY <1>1, <1>6, <4>6 DEF Covers
      <4> QED BY <1>0, <4>7 DEF Passed
    <3> QED BY <3>2, <3>3, <3>4
  <2> QED BY <2>2, <2>3
<1>8. ASSUME Passed(s, p) PROVE Passed(s2, p)
  <2>1. PICK i \in 1 .. m + 1 : Covers(s[i].path, Reached(s, i), p)
    BY <1>2, <1>8 DEF Passed
  <2>2. CASE i \in 1 .. m /\ i # m
    BY <1>4, <2>1, <2>2 DEF Passed
  <2>3. CASE i = m
    <3>0. m \in 1 .. m
      BY <1>0
    <3>1. Covers(path, r + 1, p)
      BY <1>0, <1>6, <2>1, <2>3 DEF Covers, path
    <3> QED BY <1>4, <3>0, <3>1 DEF Passed, path
  <2>4. CASE i = m + 1
    <3>0. m \in 1 .. m
      BY <1>0
    <3>1. PICK k \in Slots : \E x \in AllPaths : p = Append(s[m + 1].path, k) \o x
      BY <2>1, <2>4 DEF Covers
    <3>2. PICK x \in AllPaths : p = Append(s[m + 1].path, k) \o x
      BY <3>1
    <3>3. <<k>> \o x \in AllPaths /\ p = Append(path, r) \o (<<k>> \o x)
      <4> DEFINE a == s[m + 1].path
      <4>1. a \in AllPaths /\ p = Append(a, k) \o x /\ a = Append(path, r)
        BY <1>0, <1>2, <3>2 DEF AllPaths
      <4> HIDE DEF a
      <4>2. Append(a, k) \o x = a \o (<<k>> \o x) /\ <<k>> \o x \in AllPaths
        BY <4>1, PathRegroups
      <4> QED BY <4>1, <4>2
    <3>4. r < r + 1
      BY <1>0, SplitAssumption DEF Slots
    <3>5. Covers(path, r + 1, p)
      BY <1>0, <3>3, <3>4 DEF Covers
    <3> QED BY <1>4, <3>0, <3>5 DEF Passed, path
  <2> QED BY <1>0, <2>1, <2>2, <2>3, <2>4
<1> QED BY <1>7, <1>8

LEMMA PopShallow ==
  ASSUME NEW o \in Hosts, NEW h, NEW s \in Seq(Frames), Len(s) # 0, Len(s) # 1, Chain(o, h, s),
         s[Len(s)].next = Width + 1, NEW s2, NEW g, Retop(Front(s), s2, g), g.next = s[Len(s) - 1].next,
         NEW d \in Nat, Len(s) <= d + 1, Shallows(o, s, d)
  PROVE  Shallows(o, s2, d)
<1> DEFINE t == Front(s)
           m == Len(s) - 1
           r == s[m].next - 1
<1>0. /\ t \in Seq(Frames) /\ t # << >> /\ Len(t) = m /\ m \in Nat \ {0} /\ m \in DOMAIN s
      /\ Len(s) \in DOMAIN s /\ m + 1 = Len(s)
      /\ \A i \in 1 .. m : t[i] = s[i] /\ i \in DOMAIN s
      /\ \A i \in 1 .. m - 1 : Reached(t, i) = Reached(s, i)
      /\ r \in Slots /\ Reached(s, m) = r /\ s[m].next = r + 1
      /\ o[s[m].node].slots[r] = Ref(s[m + 1].node)
  BY PopIs
<1>1. Reached(s, m + 1) = Width + 1 /\ Retop(t, s2, g) /\ g.next = r + 1 /\ m <= d
  BY <1>0 DEF Reached
<1>2. s[m + 1].node \in 1 .. N
  BY <1>0, FrameTypes
<1> HIDE DEF t, m, r
<1>3. \A x \in DOMAIN s : \A y \in Slots : y < Reached(s, x) => ~Deep(o, o[s[x].node].slots[y], d + 1 - x)
  BY DEF Shallows
<1>4. ~Deep(o, Ref(s[m + 1].node), d + 1 - m)
  <2>1. \A k \in Slots : k < Width + 1
    BY SplitAssumption DEF Slots
  <2>2. d - m \in Nat /\ d + 1 - (m + 1) = d - m /\ (d - m) + 1 = d + 1 - m
    BY <1>0, <1>1
  <2>3. \A k \in Slots : ~Deep(o, o[s[m + 1].node].slots[k], d - m)
    BY <1>0, <1>1, <1>3, <2>1, <2>2
  <2> QED BY <1>2, <2>2, <2>3, DeepRef
<1> SUFFICES ASSUME NEW i \in DOMAIN s2, NEW k \in Slots, k < Reached(s2, i)
             PROVE  ~Deep(o, o[s2[i].node].slots[k], d + 1 - i)
  BY DEF Shallows
<1>5. /\ i \in 1 .. m /\ s2[i].node = t[i].node
      /\ IF i = m THEN Reached(s2, i) = g.next ELSE Reached(s2, i) = Reached(t, i)
  BY <1>0, <1>1, RetopReached
<1>6. k < r + 1 => k = r \/ k < r
  BY <1>0, SplitAssumption DEF Slots
<1>7. t[i] = s[i] /\ i \in DOMAIN s
  BY <1>0, <1>5
<1>8. CASE i # m
  <2>1. i \in 1 .. m - 1
    BY <1>0, <1>5, <1>8
  <2> QED BY <1>0, <1>3, <1>5, <1>7, <1>8, <2>1
<1>9. CASE i = m /\ k = r
  BY <1>0, <1>4, <1>5, <1>7, <1>9
<1>10. CASE i = m /\ k < r
  BY <1>0, <1>3, <1>5, <1>7, <1>10
<1> QED BY <1>1, <1>5, <1>6, <1>8, <1>9, <1>10

\* A complete frame: its container is clean, or its clone is what should become of it.
LEMMA Completed ==
  ASSUME NEW o \in Hosts, NEW h \in Heaps(o), NEW f \in Frames, Works(o, h, f, Width + 1),
         f.clone = 0 \/ f.clone \in Clones(h)
  PROVE  /\ f.clone = 0 => Clean(o, Ref(f.node)) /\ Strips(o, h, Ref(f.node), Ref(f.node))
         /\ f.clone # 0 => ~Clean(o, Ref(f.node)) /\ Strips(o, h, Ref(f.node), Ref(f.clone))
<1>0. f.node \in 1 .. N /\ \A k \in Slots : k < Width + 1
  BY SplitAssumption DEF Frames, Slots
<1>1. CASE f.clone = 0
  <2>1. \A k \in Slots : Clean(o, o[f.node].slots[k])
    BY <1>0, <1>1 DEF Works
  <2>2. Clean(o, Ref(f.node))
    BY <1>0, <2>1, CleanRef
  <2>3. Ref(f.node) \in HostValues
    BY <1>0 DEF HostValues
  <2>4. Strips(o, h, Ref(f.node), Ref(f.node))
    BY <2>2, <2>3, CleanStrips
  <2> QED BY <1>1, <2>2, <2>4
<1>2. CASE f.clone # 0
  <2>1. ~Clean(o, Ref(f.node)) /\ h[f.clone].kind = CloneKind(o[f.node].kind) /\ f.clone \in Clones(h)
    BY <1>2 DEF Works
  <2>2. \A k \in Slots : Done1(o, h, f.node, o[f.node].slots[k], Slot(h, Ref(f.clone), k), TRUE)
    <3> SUFFICES ASSUME NEW k \in Slots
                 PROVE  Done1(o, h, f.node, o[f.node].slots[k], Slot(h, Ref(f.clone), k), TRUE)
      OBVIOUS
    <3>1. Done1(o, h, f.node, o[f.node].slots[k], Slot(h, Ref(f.clone), k), k < Width + 1)
      BY <1>2 DEF Works
    <3> QED BY <1>0, <3>1 DEF Done1
  <2>3. Strips(o, h, Ref(f.node), Ref(f.clone))
    BY <1>0, <2>1, <2>2, StripsRef
  <2> QED BY <1>2, <2>1, <2>3
<1> QED BY <1>1, <1>2

\* The frame is complete and is not the root's.
LEMMA ReturnInner ==
  ASSUME SplitInv, Return, Len(stack) # 1
  PROVE  SplitInv'
<1> DEFINE n == Len(stack)
           t == Front(stack)
           m == n - 1
           parent == stack[m]
           r == parent.next - 1
           s2 == stack'
           h2 == heap'
           c == CloneOf(heap, parent)
           v == Ref(Top.clone)
<1>0. /\ Walking /\ ~Yields
      /\ IF Top.clone # 0
           THEN /\ heap' = Change(heap, parent, Top.key, Ref(Top.clone))
                /\ stack' = [t EXCEPT ![Len(t)].clone = c]
           ELSE heap' = heap /\ stack' = t
      /\ UNCHANGED <<original, limit, paths, buffers, merged, result, status, missing>>
  BY DEF Return
<1>1. /\ stack \in Seq(Frames) /\ stack # << >> /\ n <= limit + 1 /\ limit \in Nat /\ n \in Nat \ {0} /\ n \in DOMAIN stack
      /\ Top = stack[n] /\ Top \in Frames /\ Top.node \in 1 .. N
      /\ Top.clone = 0 \/ Top.clone \in Clones(heap)
      /\ original \in Hosts /\ heap \in Heaps(original)
      /\ Chain(original, heap, stack) /\ Links(heap, Held(stack) \cup {0})
      /\ AllWorks(original, heap, stack) /\ Works(original, heap, Top, Top.next)
      /\ Records(original, "walking", stack, paths, buffers) /\ Shallows(original, stack, limit)
      /\ paths \in Seq(AllPaths) /\ buffers \in Seq(HostValues) /\ Len(paths) = Len(buffers)
  BY <1>0, Walk
<1>2. Top.next = Width + 1
  BY <1>0, Walk, SplitAssumption DEF Yields
<1>3. /\ t \in Seq(Frames) /\ t # << >> /\ Len(t) = m /\ m \in Nat \ {0} /\ m \in DOMAIN stack /\ m + 1 = n
      /\ \A i \in 1 .. m : t[i] = stack[i] /\ i \in DOMAIN stack
      /\ \A i \in 1 .. m - 1 : Reached(t, i) = Reached(stack, i)
      /\ r \in Slots /\ Reached(stack, m) = r /\ Reached(t, m) = r + 1 /\ parent.next = r + 1
      /\ stack[m + 1].key = r /\ original[parent.node].slots[r] = Ref(stack[m + 1].node)
      /\ Chain(original, heap, t) /\ Held(t) \subseteq Held(stack)
  <2>1. Len(stack) # 0 /\ Len(stack) # 1 /\ stack \in Seq(Frames) /\ Chain(original, heap, stack)
    BY <1>1
  <2> QED BY <2>1, PopIs
<1>4. Top.key = r /\ original[parent.node].slots[r] = Ref(Top.node) /\ t[m] = parent
  <2>1. m + 1 = n /\ m \in 1 .. m
    BY <1>3
  <2> HIDE DEF t, parent, r, m, n
  <2> QED BY <1>1, <1>3, <2>1 DEF parent
<1>5. parent \in Frames /\ parent.node \in 1 .. N
  BY <1>1, <1>3, FrameTypes
<1>6. Works(original, heap, parent, r)
  BY <1>1, <1>3 DEF AllWorks
<1>7. /\ Top.clone = 0 => Clean(original, Ref(Top.node))
      /\ Top.clone # 0 => ~Clean(original, Ref(Top.node)) /\ Strips(original, heap, Ref(Top.node), v)
  BY <1>1, <1>2, Completed
<1>8. OuterWorks(original, heap, t)
  <2>1. \A i \in 1 .. m - 1 : i \in 1 .. m
    BY <1>3
  <2> QED BY <1>1, <1>3, <2>1 DEF OuterWorks, AllWorks
<1> HIDE DEF parent, t, r
\* Whatever becomes of the parent, what remains to be shown is this.
<1>9. ASSUME NEW g, Retop(t, s2, g), g.next = r + 1, h2 \in Heaps(original), Chain(original, h2, s2),
             Links(h2, Held(s2) \cup {0}), AllWorks(original, h2, s2)
      PROVE  SplitInv'
  <2>1. stack[Len(stack)].next = Width + 1 /\ g.next = stack[Len(stack) - 1].next /\ Len(stack) # 0
    BY <1>1, <1>2, <1>3, <1>9 DEF parent
  <2>2. Retop(Front(stack), s2, g)
    BY <1>9 DEF t
  <2>3. ASSUME NEW p \in AllPaths, IsBin(At(original, Ref(1), p))
        PROVE  Passed(s2, p) <=> Passed(stack, p)
    BY <1>1, <2>1, <2>2, <2>3, PopPassed
  <2>4. SameWalked(original, "walking", stack, "walking", s2)
    BY <2>3 DEF SameWalked, Walked
  <2>5. Records(original, "walking", s2, paths, buffers)
    BY <1>1, <2>4, RecordsSame
  <2>6. Shallows(original, s2, limit)
    BY <1>1, <2>1, <2>2, PopShallow
  <2>7. s2 \in Seq(Frames) /\ s2 # << >> /\ Len(s2) <= limit + 1
    <3>1. s2 \in Seq(Frames) /\ Len(s2) = m
      BY <1>3, <1>9 DEF Retop
    <3> QED BY <1>1, <1>3, <3>1
  <2>8. paths' = paths /\ buffers' = buffers /\ status' = status
    BY <1>0
  <2> QED BY <1>0, <1>1, <1>9, <2>5, <2>6, <2>7, <2>8, WalkOn
<1>10. CASE Top.clone = 0
  <2>1. h2 = heap /\ s2 = t
    BY <1>0, <1>10
  <2>2. Retop(t, s2, parent)
    BY <1>3, <1>4, <2>1 DEF Retop
  <2>3. Clean(original, original[parent.node].slots[r])
    BY <1>4, <1>7, <1>10
  <2>4. Works(original, heap, parent, r + 1)
    BY <1>1, <1>3, <1>5, <1>6, <2>3, WorksClean
  <2>5. AllWorks(original, h2, s2)
    <3> SUFFICES ASSUME NEW i \in DOMAIN t PROVE Works(original, heap, t[i], Reached(t, i))
      BY <2>1 DEF AllWorks
    <3>1. CASE i = m
      BY <1>3, <1>4, <2>4, <3>1
    <3>2. CASE i # m
      <4>1. i \in 1 .. m - 1
        BY <1>3, <3>2
      <4> QED BY <1>3, <1>8, <4>1 DEF OuterWorks
    <3> QED BY <3>1, <3>2
  <2>6. Links(h2, Held(s2) \cup {0})
    BY <1>1, <1>3, <2>1, LinksMono
  <2>7. h2 \in Heaps(original) /\ Chain(original, h2, s2) /\ parent.next = r + 1
    BY <1>1, <1>3, <2>1
  <2> HIDE DEF s2, h2
  <2> QED BY <1>9, <2>2, <2>5, <2>6, <2>7
<1>11. CASE Top.clone # 0
  <2> DEFINE g == [parent EXCEPT !.clone = c]
  <2>1. h2 = Change(heap, parent, r, v) /\ s2 = [t EXCEPT ![Len(t)] = [t[Len(t)] EXCEPT !.clone = c]]
    BY <1>0, <1>4, <1>11
  <2>2. s2 = [t EXCEPT ![Len(t)] = g]
    BY <1>3, <1>4, <2>1
  <2>3. Top.clone \in Clones(heap) /\ Top.clone \in Held(stack) /\ Top.clone \in Nat
    BY <1>1, <1>11 DEF Held, Frames
  <2>4. c \in Nat
    BY <1>1, <1>3, <1>4, CloneAlone
  <2>5. /\ g \in Frames /\ g.node = parent.node /\ g.key = parent.key /\ g.path = parent.path
        /\ g.next = parent.next /\ g.clone = c
    BY <1>5, <2>4, WithCloneDoes
  <2> HIDE DEF g, s2, h2
  <2>6. Retop(t, s2, g)
    BY <1>3, <1>4, <2>2, <2>5, RetopIs
  <2>7. Top.clone \notin Held(t)
    <3> SUFFICES ASSUME NEW i \in DOMAIN t PROVE t[i].clone # Top.clone
      BY DEF Held
    <3>1. i \in 1 .. m /\ i \in DOMAIN stack /\ t[i] = stack[i] /\ i # n
      BY <1>3
    <3> HIDE DEF n
    <3> QED BY <1>1, <1>11, <3>1 DEF Chain
  <2>8. Top.clone # c
    <3>1. CASE parent.clone = 0
      <4>1. c = Len(heap) + 1
        BY <3>1 DEF CloneOf
      <4> QED BY <1>1, <2>3, <4>1, HeapTypes
    <3>2. CASE parent.clone # 0
      <4>1. c = parent.clone /\ m # n
        BY <1>3, <3>2 DEF CloneOf
      <4> HIDE DEF n, m, c
      <4> QED BY <1>1, <1>3, <1>11, <3>2, <4>1 DEF Chain, parent
    <3> QED BY <3>1, <3>2
  <2>9. Fitting(original, heap, t, Held(stack) \cup {0}, r, v)
    <3> DEFINE u == original[t[Len(t)].node].slots[r]
    <3>1. u = Ref(Top.node)
      BY <1>3, <1>4
    <3>2. ~IsBin(u) /\ ~Clean(original, u) /\ IsRef(v) /\ Strips(original, heap, u, v)
      BY <1>7, <1>11, <3>1, Shapes
    <3>3. /\ v.node \in Clones(heap) /\ v.node \in Held(stack) \cup {0} /\ v.node \notin Held(t) /\ v.node # 0
          /\ v.node # CloneOf(heap, t[Len(t)])
      BY <1>3, <1>4, <1>11, <2>3, <2>7, <2>8, Shapes
    <3> HIDE DEF v
    <3> QED BY <3>2, <3>3 DEF Fitting
  <2>10. v \in Values
    BY <2>3, ValueTypes
  <2>11. Held(t) \subseteq Held(stack) \cup {0} /\ Works(original, heap, t[Len(t)], r)
    BY <1>3, <1>4, <1>6
  <2>12. g.next = r + 1 /\ g.clone = CloneOf(heap, t[Len(t)]) /\ h2 = Change(heap, t[Len(t)], r, v)
    BY <1>3, <1>4, <2>1, <2>5
  <2> HIDE DEF v
  <2>13. h2 \in Heaps(original) /\ Chain(original, h2, s2) /\ Links(h2, Held(s2) \cup {0}) /\ AllWorks(original, h2, s2)
    BY <1>1, <1>3, <1>8, <2>6, <2>9, <2>10, <2>11, <2>12, ChangeOn
  <2> QED BY <1>9, <2>6, <2>12, <2>13
<1> QED BY <1>10, <1>11

\* The frame is the root's: the walk is over.
LEMMA ReturnRoot ==
  ASSUME SplitInv, Return, Len(stack) = 1
  PROVE  SplitInv'
<1> DEFINE done == IF Top.clone # 0 THEN Top.clone ELSE Top.node
<1>0. /\ Walking /\ ~Yields /\ result' = done /\ status' = "merging" /\ stack' = << >>
      /\ missing' \in {k \in {0, 1} : k <= Len(buffers)}
      /\ UNCHANGED <<original, limit, heap, paths, buffers, merged>>
  BY DEF Return
<1>1. /\ stack \in Seq(Frames) /\ stack # << >> /\ limit \in Nat /\ 1 \in DOMAIN stack
      /\ Top = stack[1] /\ Top \in Frames /\ Top.node \in 1 .. N
      /\ Top.clone = 0 \/ Top.clone \in Clones(heap)
      /\ original \in Hosts /\ heap \in Heaps(original) /\ merged = 0 /\ status = "walking"
      /\ Chain(original, heap, stack) /\ Links(heap, Held(stack) \cup {0})
      /\ Works(original, heap, Top, Top.next)
      /\ Records(original, "walking", stack, paths, buffers) /\ Shallows(original, stack, limit)
      /\ paths \in Seq(AllPaths) /\ buffers \in Seq(HostValues) /\ Len(paths) = Len(buffers)
  BY <1>0, Walk
<1>2. Top.next = Width + 1
  BY <1>0, Walk, SplitAssumption DEF Yields
<1>3. Top.node = 1 /\ Top.path = << >> /\ Reached(stack, 1) = Width + 1
  <2>1. Top.node = 1 /\ Len(Top.path) = 0 /\ Top.path \in AllPaths
    BY <1>1, FrameTypes DEF Chain
  <2>2. Top.path = << >>
    BY <2>1 DEF AllPaths
  <2> QED BY <1>1, <1>2, <2>1, <2>2 DEF Reached
<1>4. Strips(original, heap, Ref(1), Ref(done))
  BY <1>1, <1>2, <1>3, Completed
<1>5. /\ done \in 1 .. Len(heap) /\ (done \in Clones(heap) => done \in Held(stack))
      /\ Len(heap) \in Nat
  <2>1. CASE Top.clone = 0
    BY <1>1, <2>1, HeapTypes
  <2>2. CASE Top.clone # 0
    <3>1. done = Top.clone /\ done \in Clones(heap) /\ done \in Held(stack)
      BY <1>1, <2>2 DEF Held
    <3> QED BY <1>1, <3>1, HeapTypes
  <2> QED BY <2>1, <2>2
<1> HIDE DEF done
<1>6. ~Begun' /\ status' \notin {"too deep", "cyclic"}
  BY <1>0 DEF Begun, Begins
<1>7. Types'
  <2>1. missing' \in {0, 1} /\ merged' \in 0 .. Len(buffers') - missing'
    <3>1. Len(buffers) \in Nat
      BY <1>1
    <3> QED BY <1>0, <1>1, <3>1
  <2>2. result' \in 0 .. Len(heap')
    BY <1>0, <1>5
  <2>3. stack' \in Seq(Frames) /\ Len(stack') <= limit' + 1
    BY <1>0, <1>1
  <2> QED BY <1>0, <1>1, <2>1, <2>2, <2>3 DEF Types
<1>8. Linked'
  <2>1. Held(stack') = {}
    BY <1>0 DEF Held
  <2>2. Links(heap, {done})
    BY <1>1, <1>5, LinksMono
  <2>3. Held(stack') \cup {result'} = {done}
    BY <1>0, <2>1
  <2> QED BY <1>0, <2>2, <2>3 DEF Linked
<1>9. Chained'
  <2>1. result' # 0
    BY <1>0, <1>5
  <2>2. DOMAIN stack' = {}
    BY <1>0
  <2> QED BY <1>0, <1>6, <2>1, <2>2 DEF Chained, Chain
<1>10. Worked'
  BY <1>0 DEF Worked, AllWorks
<1>11. Recorded'
  <2>1. ASSUME NEW p \in AllPaths, IsBin(At(original, Ref(1), p)) PROVE Passed(stack, p)
    <3>1. p # << >>
      BY <2>1, AtEmpty, Shapes
    <3>2. PICK k \in Slots : \E q \in AllPaths : p = <<k>> \o q
      BY <3>1, PathCases
    <3>3. PICK q \in AllPaths : p = <<k>> \o q
      BY <3>2
    <3>4. k < Width + 1 /\ Append(<< >>, k) = <<k>>
      BY SplitAssumption DEF Slots
    <3>5. Covers(stack[1].path, Reached(stack, 1), p)
      BY <1>1, <1>3, <3>3, <3>4 DEF Covers
    <3> QED BY <1>1, <3>5 DEF Passed
  <2>2. SameWalked(original, "walking", stack, status', stack')
    BY <1>0, <2>1 DEF SameWalked, Walked, Begins
  <2>3. Records(original, status', stack', paths, buffers)
    BY <1>1, <2>2, RecordsSame
  <2> QED BY <1>0, <2>3 DEF Recorded
<1>12. Shallow'
  <2>1. ASSUME NEW k \in Slots PROVE ~Deep(original, original[1].slots[k], limit)
    <3>1. k < Reached(stack, 1)
      BY <1>3, SplitAssumption DEF Slots
    <3>2. ~Deep(original, original[stack[1].node].slots[k], limit + 1 - 1)
      BY <1>1, <3>1 DEF Shallows
    <3> QED BY <1>1, <1>3, <3>2
  <2>2. ~Deep(original, Ref(1), limit + 1)
    BY <1>1, <1>3, <2>1, DeepRef
  <2>3. Shallows(original, stack', limit)
    BY <1>0 DEF Shallows
  <2> QED BY <1>0, <1>6, <2>2, <2>3 DEF Shallow
<1>13. Merging'
  <2>1. Holds(original, heap, done, paths, 0)
    <3> SUFFICES ASSUME NEW q \in AllPaths
                 PROVE  LET v == At(original, Ref(1), q)
                            w == At(heap, Ref(done), q) IN
                        IF IsBin(v) THEN w = IF \E i \in 1 .. 0 : paths[i] = q THEN v ELSE Gap(original, Ref(1), q)
                        ELSE Becomes(original, heap, v, w)
      BY DEF Holds
    <3>1. ~\E i \in 1 .. 0 : paths[i] = q
      OBVIOUS
    <3> QED BY <1>4, <3>1 DEF Strips
  <2> QED BY <1>0, <1>1, <2>1 DEF Merging
<1> QED BY <1>7, <1>8, <1>9, <1>10, <1>11, <1>12, <1>13 DEF SplitInv

LEMMA InitInv == Init => SplitInv
<1> SUFFICES ASSUME Init PROVE SplitInv
  OBVIOUS
<1>1. PICK kinds \in [1 .. N -> {"dict", "list", "tuple"}], codes \in [1 .. N -> [Slots -> 0 .. N + 1]] :
        /\ kinds[1] = "dict"
        /\ original = [n \in 1 .. N |-> Container(kinds[n], [k \in Slots |-> ValueOf(codes[n][k], n, k)])]
  BY DEF Init
<1>2. /\ heap = original /\ limit \in MaxDepths /\ stack = <<Frame(1, 0, << >>)>>
      /\ paths = << >> /\ buffers = << >> /\ missing = 0 /\ merged = 0 /\ result = 0 /\ status = "walking"
  BY DEF Init
<1>3. original \in Hosts
  <2>1. ASSUME NEW n \in 1 .. N
        PROVE  Container(kinds[n], [k \in Slots |-> ValueOf(codes[n][k], n, k)])
                 \in [kind : Kinds, slots : [Slots -> HostValues]]
    <3>1. ASSUME NEW k \in Slots PROVE ValueOf(codes[n][k], n, k) \in HostValues
      <4>1. codes[n][k] \in 0 .. N + 1 /\ N \in Nat
        BY <2>1, <3>1, SplitAssumption
      <4>2. CASE codes[n][k] = 0
        BY <4>2 DEF ValueOf, HostValues
      <4>3. CASE codes[n][k] = N + 1
        <5>1. ValueOf(codes[n][k], n, k) = Bin(n, k)
          BY <4>1, <4>3 DEF ValueOf
        <5> QED BY <2>1, <3>1, <5>1 DEF HostValues
      <4>4. CASE codes[n][k] # 0 /\ codes[n][k] # N + 1
        <5>1. codes[n][k] \in 1 .. N
          <6> DEFINE x == codes[n][k]
          <6>1. x \in 0 .. N + 1 /\ x # 0 /\ x # N + 1 /\ N \in Nat
            BY <4>1, <4>4
          <6> HIDE DEF x
          <6>2. x \in 1 .. N
            BY <6>1
          <6> QED BY <6>2 DEF x
        <5>2. ValueOf(codes[n][k], n, k) = Ref(codes[n][k])
          BY <4>4 DEF ValueOf
        <5> QED BY <5>1, <5>2 DEF HostValues
      <4> QED BY <4>2, <4>3, <4>4
    <3>2. kinds[n] \in Kinds
      BY <2>1 DEF Kinds
    <3> QED BY <3>1, <3>2 DEF Container
  <2> QED BY <1>1, <2>1 DEF Hosts
<1>4. heap \in Heaps(original) /\ Len(heap) = N /\ Clones(heap) = {}
  <2>0. N \in Nat
    BY SplitAssumption
  <2>1. \A n \in 1 .. N : original[n] \in Containers
    BY <1>3, ValueTypes DEF Hosts, Containers
  <2>2. DOMAIN original = 1 .. N /\ original = [n \in 1 .. N |-> original[n]]
    BY <1>3 DEF Hosts
  <2>3. original \in Seq(Containers) /\ Len(original) = N
    BY <2>0, <2>1, <2>2
  <2> QED BY <1>2, <2>0, <2>3 DEF Heaps, Clones
<1>5. Frame(1, 0, << >>) \in Frames
  BY SplitAssumption DEF Frame, Frames, AllPaths
<1>6. stack \in Seq(Frames) /\ Len(stack) = 1 /\ DOMAIN stack = {1} /\ stack[1] = Frame(1, 0, << >>)
  BY <1>2, <1>5
<1>7. stack[1].node = 1 /\ stack[1].clone = 0 /\ stack[1].path = << >> /\ stack[1].next = 1 /\ Reached(stack, 1) = 1
  BY <1>6 DEF Frame, Reached
<1>8. \A k \in Slots : ~(k < 1)
  BY SplitAssumption DEF Slots
<1>9. Begun
  BY <1>2 DEF Begun, Begins
<1>10. Types
  BY <1>2, <1>3, <1>4, <1>6, SplitAssumption DEF Types
<1>11. Linked
  <2>1. Held(stack) \cup {result} = {0}
    BY <1>2, <1>6, <1>7 DEF Held
  <2>2. ASSUME NEW n \in DOMAIN heap, NEW k \in Slots, IsRef(Slot(heap, Ref(n), k))
        PROVE  Slot(heap, Ref(n), k).node \in DOMAIN heap
    <3>1. n \in 1 .. N
      BY <1>2, <1>3, <1>4 DEF Hosts
    <3>2. Slot(heap, Ref(n), k).node \in 1 .. N
      BY <1>3, <1>4, <2>2, <3>1, HostLinks
    <3> QED BY <1>2, <1>3, <3>2 DEF Hosts
  <2> QED BY <1>4, <2>2 DEF Linked, Links
<1>12. Chained
  BY <1>2, <1>6, <1>7, <1>9 DEF Chained, Chain
<1>13. Worked
  BY <1>6, <1>7, <1>8 DEF Worked, AllWorks, Works
<1>14. Recorded
  <2>1. \A p : ~Passed(stack, p)
    BY <1>6, <1>7, <1>8 DEF Passed, Covers
  <2>2. DOMAIN paths = {}
    BY <1>2
  <2> QED BY <1>9, <2>1, <2>2 DEF Recorded, Records, Walked, Begun
<1>15. Shallow
  BY <1>2, <1>6, <1>7, <1>8, <1>9 DEF Shallow, Shallows
<1>16. Merging
  BY <1>9 DEF Merging
<1> QED BY <1>10, <1>11, <1>12, <1>13, <1>14, <1>15, <1>16 DEF SplitInv
-----------------------------------------------------------------------------

\* What put_buffers finds.
LEMMA Putting ==
  ASSUME SplitInv, status = "merging"
  PROVE  /\ original \in Hosts /\ limit \in Nat /\ heap \in Heaps(original) /\ ~Begun /\ stack = << >>
         /\ result \in DOMAIN heap /\ result # 0 /\ Links(heap, {result})
         /\ paths \in Seq(AllPaths) /\ buffers \in Seq(HostValues) /\ Len(paths) = Len(buffers)
         /\ missing \in {0, 1} /\ merged \in 0 .. Len(buffers) - missing /\ Len(buffers) \in Nat
         /\ Holds(original, heap, result, paths, merged)
         /\ Records(original, "merging", << >>, paths, buffers)
         /\ Shallows(original, stack, limit) /\ ~Deep(original, Ref(1), limit + 1)
<1>1. ~Begun
  BY DEF Begun, Begins
<1>2. /\ original \in Hosts /\ limit \in Nat /\ heap \in Heaps(original) /\ result \in 0 .. Len(heap)
      /\ paths \in Seq(AllPaths) /\ buffers \in Seq(HostValues) /\ Len(paths) = Len(buffers)
      /\ missing \in {0, 1} /\ merged \in 0 .. Len(buffers) - missing
  BY DEF SplitInv, Types
<1>3. stack = << >> /\ result # 0 /\ Holds(original, heap, result, paths, merged)
      /\ Shallows(original, stack, limit) /\ ~Deep(original, Ref(1), limit + 1)
  BY <1>1 DEF SplitInv, Chained, Merging, Shallow
<1>4. result \in DOMAIN heap
  BY <1>2, <1>3, HeapTypes
<1>5. Links(heap, {result})
  <2>1. Links(heap, Held(stack) \cup {result})
    BY DEF SplitInv, Linked
  <2>2. Held(stack) = {}
    BY <1>3 DEF Held
  <2> QED BY <2>1, <2>2
<1>6. Records(original, "merging", << >>, paths, buffers)
  BY <1>3 DEF SplitInv, Recorded
<1> QED BY <1>1, <1>2, <1>3, <1>4, <1>5, <1>6

\* What follows if a step of put_buffers leaves these parts right.
LEMMA PutOn ==
  ASSUME SplitInv, status = "merging", ~Begun', status' \in {"merging", "merged", "mismatch"},
         UNCHANGED <<original, limit, stack, paths, buffers, missing, result>>,
         heap' \in Heaps(original), result \in DOMAIN heap', merged' \in 0 .. Len(buffers) - missing,
         Links(heap', {result}), Merging'
  PROVE  SplitInv'
<1>1. /\ original \in Hosts /\ limit \in Nat /\ ~Begun /\ stack = << >> /\ result # 0
      /\ paths \in Seq(AllPaths) /\ buffers \in Seq(HostValues) /\ Len(paths) = Len(buffers)
      /\ missing \in {0, 1}
      /\ Records(original, "merging", << >>, paths, buffers)
      /\ Shallows(original, stack, limit) /\ ~Deep(original, Ref(1), limit + 1)
  BY Putting
<1>2. Types'
  <2>1. Len(heap') \in Nat /\ DOMAIN heap' = 1 .. Len(heap')
    BY HeapTypes
  <2>2. result' \in 0 .. Len(heap')
    BY <2>1
  <2>3. stack' \in Seq(Frames) /\ Len(stack') <= limit' + 1
    BY <1>1
  <2> QED BY <1>1, <2>2, <2>3 DEF Types
<1>3. Linked'
  <2>1. Held(stack') \cup {result'} = {result}
    BY <1>1 DEF Held
  <2> QED BY <2>1 DEF Linked
<1>4. Chained'
  BY <1>1 DEF Chained, Chain
<1>5. Worked'
  BY <1>1 DEF Worked, AllWorks
<1>6. Recorded'
  <2>1. SameWalked(original, "merging", << >>, status', stack')
    BY <1>1 DEF SameWalked, Walked, Begun, Begins
  <2>2. Records(original, status', stack', paths, buffers)
    BY <1>1, <2>1, RecordsSame
  <2> QED BY <2>2 DEF Recorded
<1>7. Shallow'
  BY <1>1 DEF Shallow, Shallows
<1> QED BY <1>2, <1>3, <1>4, <1>5, <1>6, <1>7 DEF SplitInv

\* A recorded path leads into a clone, which has nothing there but what a binary value leaves.
LEMMA PutPlace ==
  ASSUME SplitInv, status = "merging", NEW m \in DOMAIN paths
  PROVE  LET p == paths[m]
             t == Target(p) IN
         /\ p \in AllPaths /\ Front(p) \in AllPaths /\ Last(p) \in Slots /\ p = Append(Front(p), Last(p))
         /\ IsBin(Host(p)) /\ Host(p) \in HostValues /\ buffers[m] = Host(p)
         /\ t \in Clones(heap) /\ Leads(heap, result, Front(p), t)
         /\ ~IsRef(Now(p))
<1> DEFINE p == paths[m]
           a == Front(p)
           k == Last(p)
           u == At(original, Ref(1), a)
           w == At(heap, Ref(result), a)
<1>1. /\ original \in Hosts /\ paths \in Seq(AllPaths) /\ Len(paths) = Len(buffers)
      /\ buffers \in Seq(HostValues)
      /\ Holds(original, heap, result, paths, merged)
      /\ Records(original, "merging", << >>, paths, buffers)
  BY Putting
<1>2. p \in AllPaths /\ IsBin(Host(p)) /\ buffers[m] = Host(p) /\ buffers[m] \in HostValues
  <2>1. p \in AllPaths /\ buffers[m] \in HostValues
    BY <1>1
  <2>2. LET v == At(original, Ref(1), paths[m]) IN IsBin(v) /\ buffers[m] = v
    BY <1>1 DEF Records
  <2> QED BY <2>1, <2>2 DEF Host
<1>3. a \in AllPaths /\ k \in Slots /\ p = Append(a, k)
  <2>1. p # << >>
    BY <1>2, AtEmpty, Shapes DEF Host
  <2> QED BY <1>2, <2>1, PathLast DEF AllPaths
<1> HIDE DEF p, a, k
<1>4. Host(p) = Slot(original, u, k)
  BY <1>3, AtNext DEF Host
<1>5. IsRef(u)
  <2>1. Slot(original, u, k) # Absent
    BY <1>2, <1>4, Shapes
  <2> QED BY <2>1, SlotOf
<1>6. ~Clean(original, u)
  <2>1. << >> \in AllPaths /\ Append(<< >>, k) \in AllPaths
    BY <1>3 DEF AllPaths
  <2>2. At(original, u, Append(<< >>, k)) = Slot(original, At(original, u, << >>), k)
    BY <1>3, <2>1, AtNext
  <2>3. At(original, u, << >>) = u
    BY AtEmpty
  <2>4. IsBin(At(original, u, Append(<< >>, k)))
    BY <1>2, <1>4, <2>2, <2>3
  <2> QED BY <2>1, <2>4 DEF Clean
<1>7. IsRef(w) /\ w.node \in Clones(heap)
  <2>1. ~IsBin(u)
    BY <1>5, Shapes
  <2>2. Becomes(original, heap, u, w)
    BY <1>1, <1>3, <2>1 DEF Holds
  <2> QED BY <1>5, <1>6, <2>2 DEF Becomes
<1>8. ~IsRef(Now(p))
  <2>1. Now(p) = Host(p) \/ Now(p) = Gap(original, Ref(1), p)
    BY <1>1, <1>2 DEF Holds, Host, Now
  <2>2. ~IsRef(Host(p)) /\ ~IsRef(Gap(original, Ref(1), p))
    BY <1>2, Shapes DEF Gap, Left
  <2> QED BY <2>1, <2>2
<1>9. Target(p) = w.node
  BY DEF Target, a
<1> QED BY <1>2, <1>3, <1>7, <1>8, <1>9 DEF Leads, p, a, k

\* One buffer goes back to its place, and nothing else changes.
LEMMA PutOne ==
  ASSUME SplitInv, status = "merging", NEW m \in DOMAIN paths
  PROVE  LET p == paths[m]
             h2 == [heap EXCEPT ![Target(p)] = Put(@, Last(p), buffers[m])] IN
         /\ h2 \in Heaps(original) /\ result \in DOMAIN h2 /\ Links(h2, {result})
         /\ Clones(h2) = Clones(heap) /\ \A n \in Clones(heap) : h2[n].kind = heap[n].kind
         /\ \A q \in AllPaths : At(h2, Ref(result), q) = IF q = p THEN Host(p) ELSE Now(q)
<1> DEFINE p == paths[m]
           a == Front(p)
           k == Last(p)
           t == Target(p)
           b == buffers[m]
           d == Put(heap[t], k, b)
           h2 == [heap EXCEPT ![t] = d]
<1>1. /\ original \in Hosts /\ heap \in Heaps(original) /\ result \in DOMAIN heap /\ Links(heap, {result})
  BY Putting
<1>2. /\ p \in AllPaths /\ a \in AllPaths /\ k \in Slots /\ p = Append(a, k)
      /\ IsBin(Host(p)) /\ Host(p) \in HostValues /\ b = Host(p)
      /\ t \in Clones(heap) /\ Leads(heap, result, a, t) /\ ~IsRef(Now(p))
  BY PutPlace
<1>3. h2 = [heap EXCEPT ![Target(p)] = Put(@, Last(p), buffers[m])]
  OBVIOUS
<1> HIDE DEF p, a, k, t, b
<1>4. heap[t] \in Containers /\ t \in DOMAIN heap /\ b \in Values /\ ~IsRef(b)
  BY <1>1, <1>2, HeapTypes, ValueTypes, Shapes
<1>5. d \in Containers /\ d.kind = heap[t].kind /\ Fits(heap, t, k, b, d)
  <2>1. d \in Containers /\ d.kind = heap[t].kind
    BY <1>2, <1>4, PutDoes
  <2>2. ASSUME NEW x \in Slots
        PROVE  (IF x \in DOMAIN d.slots THEN d.slots[x] ELSE Absent) = IF x = k THEN b ELSE Slot(heap, Ref(t), x)
    <3>1. (IF x \in DOMAIN d.slots THEN d.slots[x] ELSE Absent) =
            IF x = k THEN b ELSE IF x \in DOMAIN heap[t].slots THEN heap[t].slots[x] ELSE Absent
      BY <1>2, <1>4, PutDoes
    <3>2. Slot(heap, Ref(t), x) = IF x \in DOMAIN heap[t].slots THEN heap[t].slots[x] ELSE Absent
      BY SlotOf
    <3> QED BY <3>1, <3>2
  <2> QED BY <2>1, <2>2 DEF Fits
<1> HIDE DEF d
<1>6. h2 \in Heaps(original) /\ Edited(heap, h2, t, t, k, b)
  BY <1>1, <1>2, <1>4, <1>5, Edit
<1> HIDE DEF h2
<1>7. /\ Clones(h2) = Clones(heap) /\ DOMAIN h2 = DOMAIN heap
      /\ \A n \in Clones(heap) : h2[n].kind = heap[n].kind
  <2>1. Clones(heap) \subseteq DOMAIN heap
    BY <1>1, HeapTypes
  <2> QED BY <1>2, <1>4, <1>6, <2>1 DEF Edited, OtherThan
<1>8. Links(h2, {result})
  <2>1. t \in {result} => Unseen(heap, t)
    BY <1>1, <1>2, LinksUnseen
  <2>2. {result} \subseteq {result} \cup {t}
    OBVIOUS
  <2>3. IsRef(b) => b.node \in Clones(heap) /\ b.node \in {result} /\ b.node \notin {result}
    BY <1>4
  <2> QED BY <1>1, <1>6, <2>1, <2>2, <2>3, LinksEdited
<1>9. \A q \in AllPaths : At(h2, Ref(result), q) = IF q = p THEN Host(p) ELSE Now(q)
  <2>1. ~IsRef(At(heap, Ref(result), Append(a, k)))
    BY <1>2 DEF Now
  <2>2. result \in {result}
    OBVIOUS
  <2>3. \A q \in AllPaths : At(h2, Ref(result), q) = IF q = Append(a, k) THEN b ELSE At(heap, Ref(result), q)
    BY <1>1, <1>2, <1>4, <1>6, <2>1, <2>2, PutAt
  <2> QED BY <1>2, <2>3 DEF Now
<1> QED BY <1>1, <1>3, <1>6, <1>7, <1>8, <1>9 DEF p

LEMMA PutBufferInv ==
  ASSUME SplitInv, PutBuffer
  PROVE  SplitInv'
<1>1. status = "merging" /\ UNCHANGED <<original, limit, stack, paths, buffers, missing, result>>
  BY DEF PutBuffer
<1>2. /\ original \in Hosts /\ heap \in Heaps(original) /\ result \in DOMAIN heap /\ Links(heap, {result})
      /\ paths \in Seq(AllPaths) /\ Len(paths) = Len(buffers) /\ Len(buffers) \in Nat
      /\ missing \in {0, 1} /\ merged \in 0 .. Len(buffers) - missing
      /\ Holds(original, heap, result, paths, merged)
  BY <1>1, Putting
<1>3. CASE merged = Len(buffers) - missing
  <2>1. status' = (IF missing = 0 THEN "merged" ELSE "mismatch") /\ heap' = heap /\ merged' = merged
    BY <1>3 DEF PutBuffer
  <2>2. ~Begun' /\ status' \in {"merging", "merged", "mismatch"}
    BY <2>1 DEF Begun, Begins
  <2>3. status' = "merged" => missing' = 0 /\ merged' = Len(buffers')
    BY <1>1, <1>2, <1>3, <2>1
  <2>4. status' = "mismatch" => missing' = 1
    BY <1>1, <1>2, <2>1
  <2>5. Merging'
    BY <1>1, <1>2, <2>1, <2>3, <2>4 DEF Merging
  <2> QED BY <1>1, <1>2, <2>1, <2>2, <2>5, PutOn
<1>4. CASE merged # Len(buffers) - missing
  <2> DEFINE m == merged + 1
             p == paths[m]
  <2>1. m \in DOMAIN paths /\ m \in 1 .. Len(buffers) - missing /\ merged \in Nat
    BY <1>2, <1>4
  <2>2. /\ heap' = [heap EXCEPT ![Target(p)] = Put(@, Last(p), buffers[m])]
        /\ merged' = m /\ status' = status
    BY <1>4 DEF PutBuffer
  <2>3. /\ heap' \in Heaps(original) /\ result \in DOMAIN heap' /\ Links(heap', {result})
        /\ Clones(heap') = Clones(heap) /\ \A n \in Clones(heap) : heap'[n].kind = heap[n].kind
        /\ \A q \in AllPaths : At(heap', Ref(result), q) = IF q = p THEN Host(p) ELSE Now(q)
    BY <1>1, <2>1, <2>2, PutOne
  <2>4. Holds(original, heap', result, paths, m)
    <3> SUFFICES ASSUME NEW q \in AllPaths
                 PROVE  LET v == At(original, Ref(1), q)
                            w == At(heap', Ref(result), q) IN
                        IF IsBin(v)
                          THEN w = IF \E i \in 1 .. m : paths[i] = q THEN v ELSE Gap(original, Ref(1), q)
                          ELSE Becomes(original, heap', v, w)
      BY DEF Holds
    <3>1. LET v == At(original, Ref(1), q)
              w == At(heap, Ref(result), q) IN
          IF IsBin(v)
            THEN w = IF \E i \in 1 .. merged : paths[i] = q THEN v ELSE Gap(original, Ref(1), q)
            ELSE Becomes(original, heap, v, w)
      BY <1>2 DEF Holds
    <3>2. (\E i \in 1 .. m : paths[i] = q) <=> (\E i \in 1 .. merged : paths[i] = q) \/ q = p
      BY <2>1
    <3>3. IsBin(Host(p))
      BY <1>1, <2>1, PutPlace
    <3>4. CASE q = p
      BY <2>3, <3>2, <3>3, <3>4 DEF Host
    <3>5. CASE q # p
      <4>1. At(heap', Ref(result), q) = At(heap, Ref(result), q)
        BY <2>3, <3>5 DEF Now
      <4>2. Becomes(original, heap, At(original, Ref(1), q), At(heap, Ref(result), q)) =>
              Becomes(original, heap', At(original, Ref(1), q), At(heap, Ref(result), q))
        BY <2>3 DEF Becomes
      <4> QED BY <3>1, <3>2, <3>5, <4>1, <4>2
    <3> QED BY <3>4, <3>5
  <2>5. ~Begun' /\ status' \in {"merging", "merged", "mismatch"}
    BY <1>1, <2>2 DEF Begun, Begins
  <2>6. Merging'
    BY <1>1, <2>2, <2>4 DEF Merging
  <2>7. merged' \in 0 .. Len(buffers) - missing
    BY <1>2, <2>1, <2>2
  <2> QED BY <1>1, <2>3, <2>5, <2>6, <2>7, PutOn
<1> QED BY <1>3, <1>4

\* Every step keeps the invariant.
LEMMA NextInv == SplitInv /\ [Next]_vars => SplitInv'
<1> SUFFICES ASSUME SplitInv, [Next]_vars PROVE SplitInv'
  OBVIOUS
<1>1. CASE SkipPlain
  BY <1>1, SkipPlainInv
<1>2. CASE TakeBinary
  BY <1>2, TakeBinaryInv
<1>3. CASE Descend
  BY <1>3, DescendInv
<1>4. CASE Return
  BY <1>4, ReturnRoot, ReturnInner
<1>5. CASE PutBuffer
  BY <1>5, PutBufferInv
<1>6. CASE UNCHANGED vars
  <2>1. UNCHANGED <<original, limit, heap, stack, paths, buffers, missing, merged, result, status>>
    BY <1>6 DEF vars
  <2>2. Types' /\ Linked' /\ Chained' /\ Worked'
    BY <2>1 DEF SplitInv, Types, Linked, Chained, Worked, Begun
  <2>3. Recorded' /\ Shallow' /\ Merging'
    BY <2>1 DEF SplitInv, Recorded, Shallow, Merging, Begun
  <2> QED BY <2>2, <2>3 DEF SplitInv
<1> QED BY <1>1, <1>2, <1>3, <1>4, <1>5, <1>6 DEF Next, Done

\* The invariant of both functions: the walk's stack is a chain of containers from the
\* root down, what its frames are past is stripped and recorded, no two references lead to
\* the same clone, and put_buffers puts every buffer in the one place it came from.
THEOREM SplitInvariant == Spec => []SplitInv
<1>1. Init => SplitInv
  BY InitInv
<1>2. SplitInv /\ [Next]_vars => SplitInv'
  BY NextInv
<1> QED BY <1>1, <1>2, PTL DEF Spec
-----------------------------------------------------------------------------

\* A path of d steps is a function on 1..d.
LEMMA PathsAre ==
  ASSUME NEW d \in Nat
  PROVE  \A p : p \in [1 .. d -> Slots] <=> p \in AllPaths /\ Len(p) = d
  BY DEF AllPaths

LEMMA WithinLimit ==
  ASSUME limit \in Nat
  PROVE  \A p : p \in Paths <=> p \in AllPaths /\ Len(p) <= limit + 1
<1> SUFFICES ASSUME NEW p PROVE p \in Paths <=> p \in AllPaths /\ Len(p) <= limit + 1
  OBVIOUS
<1>1. ASSUME p \in Paths PROVE p \in AllPaths /\ Len(p) <= limit + 1
  <2>1. PICK d \in 0 .. limit + 1 : p \in [1 .. d -> Slots]
    BY <1>1 DEF Paths
  <2> QED BY <2>1, PathsAre
<1>2. ASSUME p \in AllPaths, Len(p) <= limit + 1 PROVE p \in Paths
  <2>1. Len(p) \in 0 .. limit + 1
    BY <1>2 DEF AllPaths
  <2>2. p \in [1 .. Len(p) -> Slots]
    BY <1>2, <2>1, PathsAre
  <2> QED BY <2>1, <2>2 DEF Paths
<1> QED BY <1>1, <1>2

LEMMA NestedIsDeep ==
  ASSUME NEW d \in Nat
  PROVE  Nested(d) <=> Deep(original, Ref(1), d)
  BY PathsAre DEF Nested, Deep, Host

\* A binary value of a state that was not refused is within the limit.
LEMMA BinWithin ==
  ASSUME limit \in Nat, ~Deep(original, Ref(1), limit + 1), NEW p \in AllPaths, IsBin(Host(p))
  PROVE  p \in Paths
<1>1. At(original, Ref(1), p) # Absent
  BY Shapes DEF Host
<1>2. Len(p) \in Nat /\ limit + 1 \in Nat
  BY DEF AllPaths
<1>3. ~(limit + 1 < Len(p))
  BY <1>1, <1>2, DeepBefore
<1> QED BY <1>2, <1>3, WithinLimit

\* Once there is a result, the walk is over.
LEMMA Over ==
  ASSUME SplitInv, ~Begun
  PROVE  /\ original \in Hosts /\ limit \in Nat /\ heap \in Heaps(original)
         /\ paths \in Seq(AllPaths) /\ buffers \in Seq(HostValues) /\ Len(paths) = Len(buffers)
         /\ Holds(original, heap, result, paths, merged) /\ ~Deep(original, Ref(1), limit + 1)
         /\ Records(original, "merging", << >>, paths, buffers)
         /\ status = "merged" => missing = 0 /\ merged = Len(buffers)
         /\ status = "mismatch" => missing = 1
<1>1. SameWalked(original, status, stack, "merging", << >>)
  BY DEF SameWalked, Walked, Begun, Begins
<1>2. paths \in Seq(AllPaths) /\ Records(original, status, stack, paths, buffers)
  BY DEF SplitInv, Types, Recorded
<1>3. Records(original, "merging", << >>, paths, buffers)
  BY <1>1, <1>2, RecordsSame
<1> QED BY <1>3 DEF SplitInv, Types, Merging, Shallow

\* Nothing but the binary values differs, whatever is below.
LEMMA BecomesSame ==
  ASSUME NEW p \in AllPaths, Becomes(original, heap, Host(p), Now(p))
  PROVE  Same(Host(p), Now(p))
  BY DEF Becomes, Same

\* The paths that go on from another.
LEMMA PrefixGoesOn ==
  ASSUME NEW p \in AllPaths, NEW q \in AllPaths, IsPrefix(p, q)
  PROVE  \E r \in AllPaths : q = p \o r
<1> DEFINE r == SubSeq(q, Len(p) + 1, Len(q))
<1>1. Len(p) \in Nat /\ Len(q) \in Nat /\ Len(p) <= Len(q)
  BY DEF IsPrefix, AllPaths
<1>2. \A i \in 1 .. Len(p) : p[i] = q[i]
  <2>1. SubSeq(p, 1, Len(p)) = SubSeq(q, 1, Len(p))
    BY DEF IsPrefix
  <2>2. \A i \in 1 .. Len(p) : SubSeq(p, 1, Len(p))[i] = p[i] /\ SubSeq(q, 1, Len(p))[i] = q[i]
    BY <1>1 DEF AllPaths
  <2> QED BY <2>1, <2>2
<1>3. /\ r \in AllPaths /\ Len(r) = Len(q) - Len(p)
      /\ \A i \in 1 .. Len(r) : r[i] = q[i + Len(p)]
  BY <1>1 DEF AllPaths
<1> HIDE DEF r
<1>4. p \o r \in AllPaths /\ Len(p \o r) = Len(q)
  BY <1>1, <1>3 DEF AllPaths
<1>5. \A i \in 1 .. Len(q) : (p \o r)[i] = q[i]
  <2> SUFFICES ASSUME NEW i \in 1 .. Len(q) PROVE (p \o r)[i] = q[i]
    OBVIOUS
  <2>1. CASE i <= Len(p)
    <3>1. i \in 1 .. Len(p)
      BY <1>1, <2>1
    <3>2. (p \o r)[i] = p[i]
      BY <1>3, <3>1 DEF AllPaths
    <3> QED BY <1>2, <3>1, <3>2
  <2>2. CASE Len(p) < i
    <3>1. i - Len(p) \in 1 .. Len(r)
      BY <1>1, <1>3, <2>2
    <3>2. (p \o r)[i] = r[i - Len(p)]
      BY <1>1, <1>3, <2>2 DEF AllPaths
    <3> QED BY <1>1, <1>3, <3>1, <3>2
  <2>3. i <= Len(p) \/ Len(p) < i
    BY <1>1
  <2> QED BY <2>1, <2>2, <2>3
<1>6. p \o r = q
  <2> DEFINE x == p \o r
  <2>1. x \in Seq(Slots) /\ q \in Seq(Slots) /\ Len(x) = Len(q) /\ \A i \in 1 .. Len(q) : x[i] = q[i]
    BY <1>4, <1>5 DEF AllPaths
  <2> HIDE DEF x
  <2>2. x = q
    BY <2>1
  <2> QED BY <2>2 DEF x
<1> QED BY <1>3, <1>6

LEMMA GoesOnPrefix ==
  ASSUME NEW p \in AllPaths, NEW r \in AllPaths
  PROVE  p \o r \in AllPaths /\ IsPrefix(p, p \o r)
<1>1. Len(p) \in Nat /\ p \o r \in AllPaths /\ Len(p) <= Len(p \o r)
  BY DEF AllPaths
<1>2. \A i \in 1 .. Len(p) : (p \o r)[i] = p[i]
  BY DEF AllPaths
<1> DEFINE q == p \o r
<1> HIDE DEF q
<1>3. SubSeq(p, 1, Len(p)) = SubSeq(q, 1, Len(p))
  BY <1>1, <1>2 DEF AllPaths, q
<1> QED BY <1>1, <1>3 DEF IsPrefix, q
-----------------------------------------------------------------------------

\* A reference leads to a container, there is a path for every buffer, and the stack is no
\* deeper than the limit.
THEOREM SplitTypeOK == Spec => []TypeOK
<1>1. SplitInv => TypeOK
  <2> SUFFICES ASSUME SplitInv PROVE TypeOK
    OBVIOUS
  <2>1. /\ status \in {"walking", "merging", "too deep", "cyclic", "merged", "mismatch"}
        /\ Len(paths) = Len(buffers) /\ Len(stack) <= limit + 1 /\ heap \in Heaps(original)
    BY DEF SplitInv, Types
  <2>2. ASSUME NEW n \in DOMAIN heap, NEW k \in DOMAIN heap[n].slots, IsRef(heap[n].slots[k])
        PROVE  heap[n].slots[k].node \in DOMAIN heap
    <3>1. k \in Slots
      BY <2>1, HeapTypes, ContainerSlots
    <3>2. Slot(heap, Ref(n), k) = heap[n].slots[k]
      BY SlotOf
    <3>3. Links(heap, Held(stack) \cup {result})
      BY DEF SplitInv, Linked
    <3> QED BY <2>2, <3>1, <3>2, <3>3 DEF Links
  <2> QED BY <2>1, <2>2 DEF TypeOK
<1> QED BY <1>1, SplitInvariant, PTL

\* The host's containers are never changed, however its state shares them: both functions
\* write to clones only.
THEOREM SplitUntouched == Spec => []OriginalUntouched
<1>1. SplitInv => OriginalUntouched
  BY DEF SplitInv, Types, Heaps, OriginalUntouched
<1> QED BY <1>1, SplitInvariant, PTL

\* remove_buffers leaves the whole state but its binary values, which it records, each with
\* its path, in the order of the walk.
THEOREM SplitSplitsRight == Spec => []SplitsRight
<1>1. SplitInv => SplitsRight
  <2> SUFFICES ASSUME SplitInv, Split PROVE SplitsRight
    BY DEF SplitsRight
  <2>1. ~Begun /\ merged = 0
    BY DEF SplitInv, Chained, Split
  <2>2. /\ original \in Hosts /\ limit \in Nat /\ heap \in Heaps(original)
        /\ paths \in Seq(AllPaths) /\ buffers \in Seq(HostValues) /\ Len(paths) = Len(buffers)
        /\ Holds(original, heap, result, paths, 0) /\ ~Deep(original, Ref(1), limit + 1)
        /\ Records(original, "merging", << >>, paths, buffers)
    BY <2>1, Over
  <2>3. ASSUME NEW p \in Paths
        PROVE  IF IsBin(Host(p)) THEN Now(p) = Blank(p) ELSE Same(Host(p), Now(p))
    <3>1. p \in AllPaths
      BY <2>2, <2>3, WithinLimit
    <3>2. CASE IsBin(Host(p))
      <4>1. ~\E i \in 1 .. 0 : paths[i] = p
        OBVIOUS
      <4>2. Now(p) = Gap(original, Ref(1), p)
        BY <2>2, <3>1, <3>2, <4>1 DEF Holds, Host, Now
      <4> QED BY <3>2, <4>2 DEF Gap, Left, Blank, Host
    <3>3. CASE ~IsBin(Host(p))
      <4>1. Becomes(original, heap, Host(p), Now(p))
        BY <2>2, <3>1, <3>3 DEF Holds, Host, Now
      <4> QED BY <2>2, <3>1, <3>3, <4>1, BecomesSame
    <3> QED BY <3>2, <3>3
  <2>4. ASSUME NEW i \in DOMAIN paths
        PROVE  paths[i] \in Paths /\ IsBin(Host(paths[i])) /\ buffers[i] = Host(paths[i])
    <3>1. LET v == At(original, Ref(1), paths[i]) IN IsBin(v) /\ buffers[i] = v
      BY <2>2 DEF Records
    <3>2. paths[i] \in AllPaths /\ IsBin(Host(paths[i])) /\ buffers[i] = Host(paths[i])
      BY <2>2, <3>1 DEF Host
    <3> QED BY <2>2, <3>2, BinWithin
  <2>5. ASSUME NEW p \in Paths, IsBin(Host(p)) PROVE \E i \in DOMAIN paths : paths[i] = p
    <3>1. p \in AllPaths
      BY <2>2, <2>5, WithinLimit
    <3> QED BY <2>2, <2>5, <3>1 DEF Records, Walked, Begins, Host
  <2>6. ToSet(paths) = {p \in Paths : IsBin(Host(p))}
    BY <2>4, <2>5 DEF ToSet
  <2>7. \A i, j \in DOMAIN paths : i < j => Before(paths[i], paths[j])
    BY <2>2 DEF Records
  <2>8. buffers = [i \in DOMAIN paths |-> Host(paths[i])]
    <3>1. DOMAIN buffers = DOMAIN paths /\ buffers = [i \in DOMAIN buffers |-> buffers[i]]
      BY <2>2
    <3> QED BY <2>4, <3>1
  <2> QED BY <2>3, <2>6, <2>7, <2>8 DEF SplitsRight
<1> QED BY <1>1, SplitInvariant, PTL

\* put_buffers undoes remove_buffers if it is given all buffers; if one is missing it ends
\* with an error.
THEOREM SplitRoundTrip == Spec => []RoundTrip
<1>1. SplitInv => RoundTrip
  <2> SUFFICES ASSUME SplitInv PROVE RoundTrip
    OBVIOUS
  <2>1. CASE ~Begun
    <3>1. /\ original \in Hosts /\ limit \in Nat /\ heap \in Heaps(original)
          /\ paths \in Seq(AllPaths) /\ Len(paths) = Len(buffers)
          /\ Holds(original, heap, result, paths, merged)
          /\ Records(original, "merging", << >>, paths, buffers)
          /\ status = "merged" => missing = 0 /\ merged = Len(buffers)
          /\ status = "mismatch" => missing = 1
      BY <2>1, Over
    <3>2. ASSUME status = "merged", NEW p \in Paths PROVE Same(Host(p), Now(p))
      <4>1. p \in AllPaths /\ merged = Len(paths)
        BY <3>1, <3>2, WithinLimit
      <4>2. CASE IsBin(Host(p))
        <5>1. \E i \in DOMAIN paths : paths[i] = p
          BY <3>1, <4>1, <4>2 DEF Records, Walked, Begins, Host
        <5>2. DOMAIN paths = 1 .. merged
          BY <3>1, <4>1
        <5>3. Now(p) = Host(p)
          BY <3>1, <4>1, <4>2, <5>1, <5>2 DEF Holds, Host, Now
        <5> QED BY <4>2, <5>3, Shapes DEF Same
      <4>3. CASE ~IsBin(Host(p))
        <5>1. Becomes(original, heap, Host(p), Now(p))
          BY <3>1, <4>1, <4>3 DEF Holds, Host, Now
        <5> QED BY <3>1, <4>1, <5>1, BecomesSame
      <4> QED BY <4>2, <4>3
    <3> QED BY <3>1, <3>2 DEF RoundTrip
  <2>2. CASE Begun
    BY <2>2 DEF RoundTrip, Begun, Begins
  <2> QED BY <2>1, <2>2
<1> QED BY <1>1, SplitInvariant, PTL

\* What has a binary value somewhere below it is a clone, everything else is the host's own
\* container.
THEOREM SplitClonesOnlyChanged == Spec => []ClonesOnlyChanged
<1>1. SplitInv => ClonesOnlyChanged
  <2> SUFFICES ASSUME SplitInv, Split, NEW p \in Paths, IsRef(Host(p))
               PROVE  Now(p) = Host(p) <=> \A q \in Paths : IsPrefix(p, q) => ~IsBin(Host(q))
    BY DEF ClonesOnlyChanged
  <2>1. ~Begun
    BY DEF SplitInv, Chained, Split
  <2>2. /\ original \in Hosts /\ limit \in Nat /\ heap \in Heaps(original)
        /\ Holds(original, heap, result, paths, merged) /\ ~Deep(original, Ref(1), limit + 1)
    BY <2>1, Over
  <2>3. p \in AllPaths
    BY <2>2, WithinLimit
  <2>4. Becomes(original, heap, Host(p), Now(p))
    BY <2>2, <2>3, Shapes DEF Holds, Host, Now
  <2>5. Now(p) = Host(p) <=> Clean(original, Host(p))
    <3>1. Ref(1) \in HostValues \cup {Absent}
      BY SplitAssumption DEF HostValues
    <3>2. Host(p) \in HostValues \cup {Absent}
      BY <2>2, <2>3, <3>1, HostAt DEF Host
    <3>3. Host(p).node \in 1 .. N /\ Host(p).node \notin Clones(heap)
      BY <2>2, <3>2, HostValue, HeapTypes
    <3>4. CASE Clean(original, Host(p))
      BY <2>4, <3>4 DEF Becomes
    <3>5. CASE ~Clean(original, Host(p))
      BY <2>4, <3>3, <3>5 DEF Becomes
    <3> QED BY <3>4, <3>5
  <2>6. ASSUME NEW r \in AllPaths PROVE Host(p \o r) = At(original, Host(p), r)
    BY <2>3, AtConcat DEF Host
  <2>7. ASSUME Clean(original, Host(p)), NEW q \in Paths, IsPrefix(p, q) PROVE ~IsBin(Host(q))
    <3>1. q \in AllPaths
      BY <2>2, WithinLimit
    <3>2. PICK r \in AllPaths : q = p \o r
      BY <2>3, <2>7, <3>1, PrefixGoesOn
    <3> QED BY <2>6, <2>7, <3>2 DEF Clean
  <2>8. ASSUME \A q \in Paths : IsPrefix(p, q) => ~IsBin(Host(q)) PROVE Clean(original, Host(p))
    <3> SUFFICES ASSUME NEW r \in AllPaths, IsBin(At(original, Host(p), r)) PROVE FALSE
      BY DEF Clean
    <3>1. p \o r \in AllPaths /\ IsPrefix(p, p \o r)
      BY <2>3, GoesOnPrefix
    <3>2. IsBin(Host(p \o r))
      BY <2>6
    <3>3. p \o r \in Paths
      BY <2>2, <3>1, <3>2, BinWithin
    <3> QED BY <2>8, <3>1, <3>2, <3>3
  <2> QED BY <2>5, <2>7, <2>8
<1> QED BY <1>1, SplitInvariant, PTL

\* The walk gives up exactly on what nests deeper than the limit, and says that a state is
\* cyclic only if it is.
THEOREM SplitRefusesRight == Spec => []RefusesRight
<1>1. SplitInv => RefusesRight
  <2> SUFFICES ASSUME SplitInv PROVE RefusesRight
    OBVIOUS
  <2>1. limit \in Nat /\ limit + 1 \in Nat /\ N \in Nat
    <3>1. limit \in Nat
      BY DEF SplitInv, Types
    <3> QED BY <3>1, SplitAssumption
  <2>2. /\ status \in {"too deep", "cyclic"} => Deep(original, Ref(1), limit + 1)
        /\ status = "cyclic" => Deep(original, Ref(1), N)
        /\ ~Begun => ~Deep(original, Ref(1), limit + 1)
    BY DEF SplitInv, Shallow
  <2>3. status \in {"merging", "merged", "mismatch"} => ~Begun
    BY DEF Begun, Begins
  <2>4. /\ Nested(limit + 1) <=> Deep(original, Ref(1), limit + 1)
        /\ Nested(N) <=> Deep(original, Ref(1), N)
    BY <2>1, NestedIsDeep
  <2> QED BY <2>2, <2>3, <2>4 DEF RefusesRight
<1> QED BY <1>1, SplitInvariant, PTL
=============================================================================
