----------------------------- MODULE BufferSplit -----------------------------
(***************************************************************************)
(* src/src/cositos/buffers.py: remove_buffers moves the binary values of a *)
(* nested state out of it, put_buffers moves them back in.                 *)
(*                                                                         *)
(* State dicts are mutable objects that may be shared (a DAG) or cyclic,   *)
(* and remove_buffers copies only what it changes, so the model has a      *)
(* heap: nodes 1..N are the host's containers, later ones are clones.  The *)
(* walk is the code's own: an explicit stack of frames.  Its `ancestors`   *)
(* and `depth` are the nodes of the stack and its length less one.         *)
(*                                                                         *)
(* After the walk the buffers (perhaps one too few) are put back into the  *)
(* stripped state, in the same process: the harder case, as it may share   *)
(* containers with the host's.                                             *)
(***************************************************************************)
EXTENDS Naturals, Sequences, FiniteSets, SequencesExt

CONSTANTS
  N,          \* the host's containers; the state is the first
  Width,      \* how many values each of them has
  MaxDepths   \* the values of _MAX_DEPTH to try

ASSUME SplitAssumption == N \in Nat \ {0} /\ Width \in Nat /\ MaxDepths \subseteq Nat

Slots == 1 .. Width     \* keys of a dict in insertion order, positions of a list

Plain == [type |-> "plain"]
Nil == [type |-> "nil"]
Absent == [type |-> "absent"]                              \* instead of a value: there is none
Bin(n, k) == [type |-> "bin", node |-> n, slot |-> k]      \* the binary value of slot k of node n
Ref(n) == [type |-> "ref", node |-> n]
IsBin(v) == v.type = "bin"
IsRef(v) == v.type = "ref"

Container(kind, slots) == [kind |-> kind, slots |-> slots]

VARIABLES
  original,   \* the host's containers before the call (does not change)
  limit,      \* _MAX_DEPTH (does not change)
  heap,       \* all containers, clones after the host's
  stack,      \* the frames, the innermost last
  paths,      \* buffer_paths
  buffers,    \* buffers
  missing,    \* how many of the buffers do not reach put_buffers
  merged,     \* how many buffers put_buffers has put back
  result,     \* the stripped state
  status

vars == <<original, limit, heap, stack, paths, buffers, missing, merged, result, status>>

\* clone = 0 stands for None; next is the slot the iterator yields next.
Frame(n, key, path) == [node |-> n, clone |-> 0, key |-> key, path |-> path, next |-> 1]

\* A state: its root is a dict, every slot is plain, binary or a container.
ValueOf(code, n, k) ==
  IF code = 0 THEN Plain ELSE IF code = N + 1 THEN Bin(n, k) ELSE Ref(code)

Init ==
  /\ \E kinds \in [1 .. N -> {"dict", "list", "tuple"}], codes \in [1 .. N -> [Slots -> 0 .. N + 1]] :
       /\ kinds[1] = "dict"
       /\ original = [n \in 1 .. N |->
            Container(kinds[n], [k \in Slots |-> ValueOf(codes[n][k], n, k)])]
  /\ heap = original
  /\ limit \in MaxDepths
  /\ stack = <<Frame(1, 0, << >>)>>
  /\ paths = << >> /\ buffers = << >>
  /\ missing = 0 /\ merged = 0
  /\ result = 0
  /\ status = "walking"
----------------------------------------------------------------------------
(***************************************************************************)
(* remove_buffers: _separate, one turn of its loop a step.                 *)
(***************************************************************************)
Top == stack[Len(stack)]
Depth == Len(stack) - 1
Ancestors == {stack[i].node : i \in DOMAIN stack}

WithSlot(container, k, v) == [container EXCEPT !.slots[k] = v]

\* Fault variant: a dict keeps the key, too.
ExtractNil(container, k) == WithSlot(container, k, Nil)

\* _extract_binary, of a clone: a dict loses the key, a list keeps its length.
Extract(container, k) ==
  IF container.kind = "list" THEN WithSlot(container, k, Nil)
  ELSE [container EXCEPT !.slots = [x \in DOMAIN @ \ {k} |-> @[x]]]

\* _clone: a tuple, which could not be written to, is cloned into a list.
CloneKind(kind) == IF kind = "tuple" THEN "list" ELSE kind
Clone(container) == [container EXCEPT !.kind = CloneKind(@)]

Cloned(h, frame) == IF frame.clone = 0 THEN Append(h, Clone(h[frame.node])) ELSE h
CloneOf(h, frame) == IF frame.clone = 0 THEN Len(h) + 1 ELSE frame.clone

\* Fault variant: the container itself is changed.
ChangeInPlace(h, frame, k, v) == [h EXCEPT ![frame.node] =
  IF IsBin(v) THEN Extract(@, k) ELSE WithSlot(@, k, v)]

\* All containers after a change of the frame's clone, which is made if there is none.
Change(h, frame, k, v) == [Cloned(h, frame) EXCEPT ![CloneOf(h, frame)] =
  IF IsBin(v) THEN Extract(@, k) ELSE WithSlot(@, k, v)]

Yielded(frame) == [frame EXCEPT !.next = @ + 1]
Walking == status = "walking"
Yields == Top.next <= Width
Key == Top.next
Value == original[Top.node].slots[Key]
SetTop(frame) == [stack EXCEPT ![Len(stack)] = frame]

SkipPlain ==
  /\ Walking /\ Yields /\ ~IsBin(Value) /\ ~IsRef(Value)
  /\ stack' = SetTop(Yielded(Top))
  /\ UNCHANGED <<original, limit, heap, paths, buffers, missing, merged, result, status>>

\* Fault variant: the path of a binary value in a list is not recorded.
TakeBinaryUnrecorded ==
  /\ Walking /\ Yields /\ IsBin(Value)
  /\ heap' = Change(heap, Top, Key, Value)
  /\ stack' = SetTop([Yielded(Top) EXCEPT !.clone = CloneOf(heap, Top)])
  /\ buffers' = Append(buffers, Value)
  /\ paths' = IF heap[Top.node].kind = "list" THEN paths
              ELSE Append(paths, Append(Top.path, Key))
  /\ UNCHANGED <<original, limit, missing, merged, result, status>>

TakeBinary ==
  /\ Walking /\ Yields /\ IsBin(Value)
  /\ heap' = Change(heap, Top, Key, Value)
  /\ stack' = SetTop([Yielded(Top) EXCEPT !.clone = CloneOf(heap, Top)])
  /\ buffers' = Append(buffers, Value)
  /\ paths' = Append(paths, Append(Top.path, Key))
  /\ UNCHANGED <<original, limit, missing, merged, result, status>>

\* Fault variant: the limit is checked one level too late.
DescendLate ==
  /\ Walking /\ Yields /\ IsRef(Value)
  /\ LET child == Value.node IN
     IF Depth > limit THEN status' = "too deep" /\ UNCHANGED stack
     ELSE IF child \in Ancestors THEN status' = "cyclic" /\ UNCHANGED stack
     ELSE /\ stack' = Append(SetTop(Yielded(Top)),
                             Frame(child, Key, Append(Top.path, Key)))
          /\ UNCHANGED status
  /\ UNCHANGED <<original, limit, heap, paths, buffers, missing, merged, result>>

Descend ==
  /\ Walking /\ Yields /\ IsRef(Value)
  /\ LET child == Value.node IN
     IF Depth + 1 > limit THEN status' = "too deep" /\ UNCHANGED stack
     ELSE IF child \in Ancestors THEN status' = "cyclic" /\ UNCHANGED stack
     ELSE /\ stack' = Append(SetTop(Yielded(Top)),
                             Frame(child, Key, Append(Top.path, Key)))
          /\ UNCHANGED status
  /\ UNCHANGED <<original, limit, heap, paths, buffers, missing, merged, result>>

\* Fault variant: the parent is cloned whatever became of the child.
ReturnEager ==
  /\ Walking /\ ~Yields
  /\ LET done == IF Top.clone # 0 THEN Top.clone ELSE Top.node IN
     IF Len(stack) = 1
       THEN /\ result' = done /\ status' = "merging" /\ stack' = << >>
            /\ UNCHANGED <<heap, missing>>
       ELSE LET parent == stack[Len(stack) - 1]
                rest == Front(stack)
            IN /\ heap' = Change(heap, parent, Top.key, Ref(done))
               /\ stack' = [rest EXCEPT ![Len(rest)].clone = CloneOf(heap, parent)]
               /\ UNCHANGED <<result, status, missing>>
  /\ UNCHANGED <<original, limit, paths, buffers, merged>>

\* The frame is complete.  If its result is a clone, so must the parent's be.
Return ==
  /\ Walking /\ ~Yields
  /\ LET done == IF Top.clone # 0 THEN Top.clone ELSE Top.node IN
     IF Len(stack) = 1
       THEN /\ result' = done
            /\ status' = "merging"
            /\ missing' \in {n \in {0, 1} : n <= Len(buffers)}
            /\ stack' = << >>
            /\ UNCHANGED heap
       ELSE LET parent == stack[Len(stack) - 1]
                rest == Front(stack)
            IN /\ IF Top.clone # 0
                    THEN /\ heap' = Change(heap, parent, Top.key, Ref(done))
                         /\ stack' = [rest EXCEPT ![Len(rest)].clone = CloneOf(heap, parent)]
                    ELSE heap' = heap /\ stack' = rest
               /\ UNCHANGED <<result, status, missing>>
  /\ UNCHANGED <<original, limit, paths, buffers, merged>>
----------------------------------------------------------------------------
(***************************************************************************)
(* put_buffers: one buffer a step.                                         *)
(***************************************************************************)

\* obj[key], if there is one.
Slot(h, v, k) == IF IsRef(v) /\ k \in DOMAIN h[v.node].slots THEN h[v.node].slots[k] ELSE Absent

\* Where a path leads to, from the value v.
At(h, v, path) ==
  LET at[i \in 0 .. Len(path)] == IF i = 0 THEN v ELSE Slot(h, at[i - 1], path[i])
  IN at[Len(path)]

\* The container with the last key of a path.
Target(path) == At(heap, Ref(result), Front(path)).node

Put(container, k, v) ==
  [container EXCEPT !.slots = [x \in DOMAIN @ \cup {k} |-> IF x = k THEN v ELSE @[x]]]

\* Fault variant: zip without strict.
PutBufferLax ==
  /\ status = "merging"
  /\ IF merged = Len(buffers) - missing
       THEN status' = "merged" /\ UNCHANGED <<heap, merged>>
       ELSE LET path == paths[merged + 1] IN
            /\ heap' = [heap EXCEPT ![Target(path)] =
                          Put(@, Last(path), buffers[merged + 1])]
            /\ merged' = merged + 1
            /\ UNCHANGED status
  /\ UNCHANGED <<original, limit, stack, paths, buffers, missing, result>>

\* zip(..., strict=True) notices a missing buffer when it runs out of them.
PutBuffer ==
  /\ status = "merging"
  /\ IF merged = Len(buffers) - missing
       THEN /\ status' = IF missing = 0 THEN "merged" ELSE "mismatch"
            /\ UNCHANGED <<heap, merged>>
       ELSE LET path == paths[merged + 1] IN
            /\ heap' = [heap EXCEPT ![Target(path)] =
                          Put(@, Last(path), buffers[merged + 1])]
            /\ merged' = merged + 1
            /\ UNCHANGED status
  /\ UNCHANGED <<original, limit, stack, paths, buffers, missing, result>>
----------------------------------------------------------------------------
Done == status \in {"too deep", "cyclic", "merged", "mismatch"} /\ UNCHANGED vars

Next == SkipPlain \/ TakeBinary \/ Descend \/ Return \/ PutBuffer \/ Done

Spec == Init /\ [][Next]_vars
----------------------------------------------------------------------------
(***************************************************************************)
(* What they should compute: a state is what its paths lead to.            *)
(***************************************************************************)

\* What a path leads to in the host's state, and in the one that comes of it.
Host(path) == At(original, Ref(1), path)
Now(path) == At(heap, Ref(result), path)

\* The paths within the limit.
Paths == UNION {[1 .. d -> Slots] : d \in 0 .. limit + 1}

\* Does the state nest d levels deep?  A cyclic one does, whatever d is.
Nested(d) == \E path \in [1 .. d -> Slots] : IsRef(Host(path))

\* Values that differ at most in what is below them, and as a container and its clone do.
Same(v, w) ==
  \/ w = v
  \/ IsRef(v) /\ IsRef(w) /\ heap[w.node].kind = CloneKind(original[v.node].kind)

\* What is left of the binary value at a path.
Blank(path) == IF original[Host(Front(path)).node].kind = "dict" THEN Absent ELSE Nil

\* The order in which the walk comes by.
Before(p, q) == \E i \in DOMAIN p \cap DOMAIN q : p[i] < q[i] /\ \A j \in 1 .. i - 1 : p[j] = q[j]
----------------------------------------------------------------------------
Split == result # 0 /\ merged = 0

TypeOK ==
  /\ status \in {"walking", "merging", "too deep", "cyclic", "merged", "mismatch"}
  /\ Len(paths) = Len(buffers) /\ Len(stack) <= limit + 1
  /\ \A n \in DOMAIN heap : \A k \in DOMAIN heap[n].slots :
       IsRef(heap[n].slots[k]) => heap[n].slots[k].node \in DOMAIN heap

\* Neither function changes the host's own containers, however the state shares them:
\* put_buffers writes only where remove_buffers had to clone.
OriginalUntouched == \A n \in 1 .. N : heap[n] = original[n]

\* remove_buffers leaves everything but the binary values, and records these in order,
\* each with its path.
SplitsRight ==
  Split =>
    /\ \A p \in Paths : IF IsBin(Host(p)) THEN Now(p) = Blank(p) ELSE Same(Host(p), Now(p))
    /\ ToSet(paths) = {p \in Paths : IsBin(Host(p))}
    /\ \A i, j \in DOMAIN paths : i < j => Before(paths[i], paths[j])
    /\ buffers = [i \in DOMAIN paths |-> Host(paths[i])]

\* put_buffers is its inverse, but that a tuple with a binary value below it comes back
\* as a list; and a missing buffer is an error and no silent gap.
RoundTrip ==
  /\ status = "merged" => missing = 0 /\ \A p \in Paths : Same(Host(p), Now(p))
  /\ status = "mismatch" => missing = 1

\* The containers that keep their identity are those with nothing binary below them.
ClonesOnlyChanged ==
  Split => \A p \in Paths : IsRef(Host(p)) =>
    (Now(p) = Host(p) <=> \A q \in Paths : IsPrefix(p, q) => ~IsBin(Host(q)))

\* The walk refuses a state exactly if it nests deeper than the limit, which a cyclic
\* state always does, and it says cyclic only of a cyclic one.
RefusesRight ==
  /\ status \in {"too deep", "cyclic"} => Nested(limit + 1)
  /\ status \in {"merging", "merged", "mismatch"} => ~Nested(limit + 1)
  /\ status = "cyclic" => Nested(N)
============================================================================
