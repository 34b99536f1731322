-------------------------- MODULE ClayHost_proofs --------------------------
(***************************************************************************)
(* Proofs about ClayHost: for any number of pages, widgets and workers,    *)
(* clicks count once, no page is ahead of the JVM or shows one widget's    *)
(* count for another, and the newest count reaches every open page.        *)
(***************************************************************************)
EXTENDS ClayHost, FiniteSetTheorems, TLAPS

\* A handler is at work while it has ids to broadcast, and what it has read of the
\* first of them is not ahead of the atom.
Tasked ==
  \A s \in Sockets :
    /\ task[s].step = "idle" <=> task[s].ids = << >>
    /\ task[s].step \in {"framed", "sending"} => task[s].count <= count[Head(task[s].ids)]

\* Nothing has been heard of a socket that is not open yet.
Fresh == \A s \in Sockets : socket[s] = "new" => task[s].step = "idle" /\ inbox[s] = << >>

\* Will the handler r still send the newest count of w to the page s?  It will if it has
\* w after its first id, or has not read w's count, or has read the newest and not sent it.
Coming(r, s, w) ==
  \E i \in DOMAIN task[r].ids :
    /\ task[r].ids[i] = w
    /\ \/ i # 1
       \/ task[r].step = "unread"
       \/ task[r].count = count[w] /\ (task[r].step = "sending" => s \in task[r].to)

\* The newest count is with the page, on the wire to it, or with a handler that sends it.
Reaching ==
  \A s \in Opened, w \in Widgets :
    \/ best[s][w] = count[w]
    \/ \E i \in DOMAIN outbox[s] : outbox[s][i] = Update(w, count[w])
    \/ \E r \in Sockets : Coming(r, s, w)

ClayInv == TypeOK /\ Tasked /\ Fresh /\ NeverAhead /\ Reaching /\ CountsOnce
-----------------------------------------------------------------------------
(***************************************************************************)
(* The increments on their way: how many there are when one socket's       *)
(* frames change.                                                          *)
(***************************************************************************)
Increment(w) == [id |-> w, kind |-> "increment"]
OnTheWay(box, w) == UNION {{s} \X Positions(box[s], w) : s \in Sockets}
Others(box, s, w) == UNION {{u} \X Positions(box[u], w) : u \in Sockets \ {s}}

LEMMA PositionsFinite ==
  ASSUME NEW S, NEW q \in Seq(S), NEW w
  PROVE  /\ IsFiniteSet(Positions(q, w)) /\ Positions(q, w) \subseteq DOMAIN q
         /\ Increments(q, w) \in Nat
<1>1. Len(q) \in Nat /\ DOMAIN q = 1 .. Len(q)
  OBVIOUS
<1>2. IsFiniteSet(1 .. Len(q))
  BY <1>1, FS_Interval
<1>3. Positions(q, w) \in SUBSET (1 .. Len(q))
  BY <1>1 DEF Positions
<1>4. IsFiniteSet(Positions(q, w))
  BY <1>2, <1>3, FS_Subset
<1> QED BY <1>1, <1>3, <1>4, FS_CardinalityType DEF Increments

LEMMA IncrementsAppended ==
  ASSUME NEW S, NEW q \in Seq(S), NEW m \in S, NEW w
  PROVE  Increments(Append(q, m), w) = Increments(q, w) + IF m = Increment(w) THEN 1 ELSE 0
<1> DEFINE n == Len(q)
           r == Append(q, m)
<1>1. /\ n \in Nat /\ DOMAIN q = 1 .. n /\ DOMAIN r = 1 .. n + 1
      /\ \A i \in 1 .. n : r[i] = q[i]
      /\ r[n + 1] = m
  OBVIOUS
<1> HIDE DEF n, r
<1>2. IsFiniteSet(Positions(q, w)) /\ Increments(q, w) \in Nat
  BY PositionsFinite
<1>3. n + 1 \notin Positions(q, w)
  BY <1>1 DEF Positions
<1>4. CASE m = Increment(w)
  <2>1. Positions(r, w) = Positions(q, w) \cup {n + 1}
    BY <1>1, <1>4 DEF Positions, Increment
  <2>2. Cardinality(Positions(q, w) \cup {n + 1}) = Cardinality(Positions(q, w)) + 1
    BY <1>2, <1>3, FS_AddElement
  <2> QED BY <1>4, <2>1, <2>2 DEF Increments, r
<1>5. CASE m # Increment(w)
  <2>1. Positions(r, w) = Positions(q, w)
    BY <1>1, <1>5 DEF Positions, Increment
  <2> QED BY <1>2, <1>5, <2>1 DEF Increments, r
<1> QED BY <1>4, <1>5

LEMMA IncrementsTaken ==
  ASSUME NEW S, NEW q \in Seq(S), q # << >>, NEW w
  PROVE  Increments(q, w) = Increments(Tail(q), w) + IF Head(q) = Increment(w) THEN 1 ELSE 0
<1> DEFINE n == Len(q)
           r == Tail(q)
           P == Positions(q, w)
           R == Positions(r, w)
           f == [i \in R |-> i + 1]
<1>1. /\ n \in Nat \ {0} /\ DOMAIN q = 1 .. n /\ DOMAIN r = 1 .. n - 1 /\ r \in Seq(S)
      /\ \A i \in 1 .. n - 1 : r[i] = q[i + 1]
      /\ Head(q) = q[1]
  OBVIOUS
<1> HIDE DEF n, r
<1>2. IsFiniteSet(P) /\ IsFiniteSet(R) /\ Cardinality(R) \in Nat
  BY <1>1, PositionsFinite DEF Increments
<1>3. /\ P = {i \in 1 .. n : q[i] = Increment(w)}
      /\ R = {i \in 1 .. n - 1 : q[i + 1] = Increment(w)}
  BY <1>1 DEF Positions, Increment
<1> HIDE DEF P, R
<1>4. ExistsBijection(R, P \ {1})
  <2>1. \A i \in R : i + 1 \in P \ {1}
    BY <1>1, <1>3
  <2>2. f \in [R -> P \ {1}]
    BY <2>1
  <2>3. \A i, j \in R : f[i] = f[j] => i = j
    BY <1>3
  <2>4. \A j \in P \ {1} : j - 1 \in R /\ f[j - 1] = j
    <3>1. \A j \in P \ {1} : j \in 1 .. n /\ j - 1 \in 1 .. n - 1 /\ (j - 1) + 1 = j
      BY <1>1, <1>3
    <3> QED BY <1>3, <3>1
  <2> HIDE DEF f
  <2>5. f \in Bijection(R, P \ {1})
    BY <2>2, <2>3, <2>4 DEF Bijection, Injection, Surjection, IsInjective
  <2> QED BY <2>5 DEF ExistsBijection
<1>5. Cardinality(R) = Cardinality(P \ {1})
  BY <1>2, <1>4, FS_Bijection
<1>6. Cardinality(P \ {1}) = IF 1 \in P THEN Cardinality(P) - 1 ELSE Cardinality(P)
  BY <1>2, FS_RemoveElement
<1>7. 1 \in P <=> Head(q) = Increment(w)
  BY <1>1, <1>3
<1>8. Cardinality(P) \in Nat
  BY <1>2, FS_CardinalityType
<1> QED BY <1>2, <1>5, <1>6, <1>7, <1>8 DEF Increments, P, R, r

\* The increments of one socket and those of the others make up them all.
LEMMA OneAndTheOthers ==
  ASSUME NEW box \in [Sockets -> Seq(Requests)], NEW s \in Sockets, NEW w
  PROVE  /\ Cardinality(Others(box, s, w)) \in Nat
         /\ Cardinality(OnTheWay(box, w)) = Cardinality(Others(box, s, w)) + Increments(box[s], w)
<1> DEFINE F(u) == {u} \X Positions(box[u], w)
           f == [u \in Sockets \ {s} |-> F(u)]
           T == {F(u) : u \in Sockets \ {s}}
           others == UNION T
<1>1. \A u \in Sockets : box[u] \in Seq(Requests)
  OBVIOUS
<1>2. \A u \in Sockets : IsFiniteSet(Positions(box[u], w))
  BY <1>1, PositionsFinite
<1>3. \A u \in Sockets : IsFiniteSet(F(u)) /\ Cardinality(F(u)) = 1 * Cardinality(Positions(box[u], w))
  <2> SUFFICES ASSUME NEW u \in Sockets
               PROVE  IsFiniteSet(F(u)) /\ Cardinality(F(u)) = 1 * Cardinality(Positions(box[u], w))
    OBVIOUS
  <2> DEFINE A == {u}
             P == Positions(box[u], w)
  <2>1. IsFiniteSet(A) /\ Cardinality(A) = 1 /\ IsFiniteSet(P)
    BY <1>2, FS_Singleton
  <2> HIDE DEF A, P
  <2>2. IsFiniteSet(A \X P) /\ Cardinality(A \X P) = 1 * Cardinality(P)
    BY <2>1, FS_Product
  <2> QED BY <2>2 DEF A, P
<1>4. IsFiniteSet(Sockets \ {s})
  BY ClayAssumption, FS_RemoveElement
<1>5. f \in Surjection(Sockets \ {s}, T)
  BY DEF Surjection
<1>6. IsFiniteSet(T)
  BY <1>4, <1>5, FS_Surjection
<1>7. IsFiniteSet(others)
  BY <1>3, <1>6, FS_UNION
<1>8. OnTheWay(box, w) = others \cup F(s)
  BY DEF OnTheWay
<1>9. others \cap F(s) = {}
  OBVIOUS
<1> HIDE DEF F, others
<1>10. /\ Cardinality(others \cup F(s)) = Cardinality(others) + Cardinality(F(s)) - Cardinality(others \cap F(s))
       /\ Cardinality(others \cap F(s)) = 0
  BY <1>3, <1>7, <1>9, FS_Union, FS_EmptySet
<1>11. Cardinality(others) \in Nat /\ Increments(box[s], w) \in Nat
  BY <1>1, <1>7, FS_CardinalityType, PositionsFinite
<1>12. Cardinality(F(s)) = Increments(box[s], w)
  BY <1>3, <1>11 DEF Increments
<1>13. Cardinality(OnTheWay(box, w)) = Cardinality(others) + Increments(box[s], w)
  BY <1>8, <1>10, <1>11, <1>12
<1> QED BY <1>11, <1>13 DEF others, F, Others

SameBut(new, old, s) == \A u \in Sockets \ {s} : new[u] = old[u]

\* Only the frames of s change from old to new: the total changes with them.
Differ(new, old, s, w) ==
  /\ Cardinality(OnTheWay(old, w)) \in Nat /\ Cardinality(OnTheWay(new, w)) \in Nat
  /\ Increments(old[s], w) \in Nat /\ Increments(new[s], w) \in Nat
  /\ Increments(old[s], w) <= Cardinality(OnTheWay(old, w))
  /\ Cardinality(OnTheWay(new, w)) + Increments(old[s], w)
       = Cardinality(OnTheWay(old, w)) + Increments(new[s], w)

LEMMA WayChanges ==
  ASSUME NEW old \in [Sockets -> Seq(Requests)], NEW new \in [Sockets -> Seq(Requests)],
         NEW s \in Sockets, SameBut(new, old, s), NEW w
  PROVE  Differ(new, old, s, w)
<1>1. Others(old, s, w) = Others(new, s, w)
  BY DEF Others, SameBut
<1>2. /\ Cardinality(Others(old, s, w)) \in Nat
      /\ Cardinality(OnTheWay(old, w)) = Cardinality(Others(old, s, w)) + Increments(old[s], w)
  BY OneAndTheOthers
<1>3. /\ Cardinality(Others(new, s, w)) \in Nat
      /\ Cardinality(OnTheWay(new, w)) = Cardinality(Others(new, s, w)) + Increments(new[s], w)
  BY OneAndTheOthers
<1>4. Increments(old[s], w) \in Nat /\ Increments(new[s], w) \in Nat
  BY PositionsFinite
<1> QED BY <1>1, <1>2, <1>3, <1>4 DEF Differ

LEMMA InboxChanges ==
  ASSUME TypeOK, inbox' \in [Sockets -> Seq(Requests)], NEW s \in Sockets,
         SameBut(inbox', inbox, s), NEW w
  PROVE  Differ(inbox', inbox, s, w)
  BY WayChanges DEF TypeOK

-----------------------------------------------------------------------------
(***************************************************************************)
(* The handlers.                                                           *)
(***************************************************************************)

\* on-open broadcasts every widget.
LEMMA EveryId ==
  /\ SetToSeq(Widgets) \in Seq(Widgets)
  /\ \A w \in Widgets : \E i \in DOMAIN SetToSeq(Widgets) : SetToSeq(Widgets)[i] = w
<1> DEFINE n == Cardinality(Widgets)
           Lists(f) == f \in [1 .. n -> Widgets] /\ IsInjective(f)
           ids == CHOOSE f : Lists(f)
<1>1. IsFiniteSet(Widgets)
  BY ClayAssumption
<1>2. n \in Nat /\ ExistsBijection(1 .. n, Widgets)
  BY <1>1, FS_CardinalityType
<1>3. \E f : Lists(f)
  BY <1>2 DEF ExistsBijection, Bijection, Injection
<1>4. SetToSeq(Widgets) = CHOOSE f \in [1 .. n -> Widgets] : IsInjective(f)
  BY DEF SetToSeq
<1>5. SetToSeq(Widgets) \in [1 .. n -> Widgets] /\ IsInjective(SetToSeq(Widgets))
  <2> DEFINE S == [1 .. n -> Widgets]
  <2>1. \E f \in S : IsInjective(f)
    BY <1>3
  <2> HIDE DEF S
  <2>2. (CHOOSE f \in S : IsInjective(f)) \in S /\ IsInjective(CHOOSE f \in S : IsInjective(f))
    BY <2>1, Zenon
  <2> QED BY <1>4, <2>2 DEF S
<1>6. SetToSeq(Widgets) \in Injection(1 .. n, Widgets)
  BY <1>5 DEF Injection
<1>7. Cardinality(1 .. n) = n
  BY <1>2, FS_Interval
<1>8. SetToSeq(Widgets) \in Surjection(1 .. n, Widgets)
  <2> HIDE DEF n
  <2>1. Cardinality(1 .. n) = Cardinality(Widgets)
    BY <1>7 DEF n
  <2> QED BY <1>1, <1>6, <2>1, FS_Injection
<1>9. SetToSeq(Widgets) \in Seq(Widgets) /\ DOMAIN SetToSeq(Widgets) = 1 .. n
  BY <1>2, <1>5
<1> QED BY <1>8, <1>9 DEF Surjection

LEMMA BeginTask ==
  ASSUME NEW ids \in Seq(Widgets)
  PROVE  /\ Begin(ids) \in Tasks /\ Begin(ids).ids = ids
         /\ Begin(ids).step = IF ids = << >> THEN "idle" ELSE "unread"
  BY DEF Begin, Idle, Unread, Tasks

LEMMA ContinueTask ==
  ASSUME NEW t \in Tasks, t.ids # << >>
  PROVE  /\ Continue(t) \in Tasks /\ Continue(t).ids = Tail(t.ids)
         /\ Continue(t).step = IF Tail(t.ids) = << >> THEN "idle" ELSE "unread"
         /\ \A i \in DOMAIN t.ids : i # 1 => \E j \in DOMAIN Tail(t.ids) : Tail(t.ids)[j] = t.ids[i]
<1>1. t.ids \in Seq(Widgets)
  BY DEF Tasks
<1>2. Tail(t.ids) \in Seq(Widgets)
  BY <1>1
<1>3. ASSUME NEW i \in DOMAIN t.ids, i # 1
      PROVE  \E j \in DOMAIN Tail(t.ids) : Tail(t.ids)[j] = t.ids[i]
  <2>1. i - 1 \in DOMAIN Tail(t.ids) /\ Tail(t.ids)[i - 1] = t.ids[i]
    BY <1>1, <1>3
  <2> QED BY <2>1
<1> QED BY <1>2, <1>3, BeginTask DEF Continue

LEMMA TaskType ==
  ASSUME TypeOK, NEW s \in Sockets
  PROVE  /\ task[s] \in Tasks /\ task[s].ids \in Seq(Widgets) /\ task[s].count \in Nat
         /\ task[s].to \subseteq Sockets
         /\ task[s].ids # << >> => Head(task[s].ids) = task[s].ids[1] /\ Head(task[s].ids) \in Widgets
                                   /\ 1 \in DOMAIN task[s].ids
<1>1. task[s] \in Tasks
  BY DEF TypeOK
<1>2. task[s].ids \in Seq(Widgets)
  BY <1>1 DEF Tasks
<1> QED BY <1>1, <1>2 DEF Tasks

\* A step of the handler of s, which becomes t, that leaves the atom, the sockets and the
\* pages alone: it loses no frame, and what it was to send it has sent or will send.
TaskChange(s, t) ==
  /\ task' = [task EXCEPT ![s] = t] /\ task[s].step # "idle"
  /\ t \in Tasks /\ (t.step = "idle" <=> t.ids = << >>)
  /\ t.step \in {"framed", "sending"} => t.count <= count[Head(t.ids)]
  /\ UNCHANGED <<count, socket, inbox, shown, best, clicked, noise>>
  /\ outbox' \in [Sockets -> Seq(Frames)]
  /\ \A r \in Sockets : \A i \in DOMAIN outbox'[r] :
       outbox'[r][i].id \in Widgets => outbox'[r][i].count <= count[outbox'[r][i].id]
  /\ \A r \in Sockets : \A i \in DOMAIN outbox[r] : \E j \in DOMAIN outbox'[r] : outbox'[r][j] = outbox[r][i]
  /\ \A r \in Opened, w \in Widgets : Coming(s, r, w) =>
       \/ \E i \in DOMAIN outbox'[r] : outbox'[r][i] = Update(w, count[w])
       \/ \E i \in DOMAIN t.ids :
            /\ t.ids[i] = w
            /\ \/ i # 1
               \/ t.step = "unread"
               \/ t.count = count[w] /\ (t.step = "sending" => r \in t.to)

LEMMA TaskStep ==
  ASSUME ClayInv, NEW s \in Sockets, NEW t, TaskChange(s, t)
  PROVE  ClayInv'
<1>0. /\ task' = [task EXCEPT ![s] = t] /\ task[s].step # "idle"
      /\ t \in Tasks /\ (t.step = "idle" <=> t.ids = << >>)
      /\ t.step \in {"framed", "sending"} => t.count <= count[Head(t.ids)]
      /\ UNCHANGED <<count, socket, inbox, shown, best, clicked, noise>>
      /\ outbox' \in [Sockets -> Seq(Frames)]
      /\ \A r \in Sockets : \A i \in DOMAIN outbox'[r] :
           outbox'[r][i].id \in Widgets => outbox'[r][i].count <= count[outbox'[r][i].id]
      /\ \A r \in Sockets : \A i \in DOMAIN outbox[r] : \E j \in DOMAIN outbox'[r] : outbox'[r][j] = outbox[r][i]
  BY DEF TaskChange
<1>1. /\ task \in [Sockets -> Tasks] /\ task' \in [Sockets -> Tasks] /\ task'[s] = t
      /\ \A r \in Sockets : r # s => task'[r] = task[r]
  BY <1>0 DEF ClayInv, TypeOK
<1>2. TypeOK'
  BY <1>0, <1>1 DEF ClayInv, TypeOK
<1>3. Tasked'
  BY <1>0, <1>1 DEF ClayInv, Tasked
<1>4. Fresh'
  BY <1>0, <1>1 DEF ClayInv, Fresh
<1>5. NeverAhead'
  BY <1>0 DEF ClayInv, NeverAhead
<1>6. Reaching'
  <2> SUFFICES ASSUME NEW r \in Sockets, socket[r] = "open", NEW w \in Widgets, best[r][w] # count[w]
               PROVE  \/ \E i \in DOMAIN outbox'[r] : outbox'[r][i] = Update(w, count[w])
                      \/ \E u \in Sockets : Coming(u, r, w)'
    BY <1>0 DEF Reaching, Opened, Update
  <2>1. r \in Opened
    BY DEF Opened
  <2>2. CASE \E i \in DOMAIN outbox[r] : outbox[r][i] = Update(w, count[w])
    BY <1>0, <2>2
  <2>3. CASE \E u \in Sockets : Coming(u, r, w)
    <3>1. PICK u \in Sockets : Coming(u, r, w)
      BY <2>3
    <3>2. CASE u # s
      <4>1. Coming(u, r, w)'
        BY <1>0, <1>1, <3>1, <3>2 DEF Coming
      <4> QED BY <4>1
    <3>3. CASE u = s
      <4>1. CASE \E i \in DOMAIN outbox'[r] : outbox'[r][i] = Update(w, count[w])
        BY <4>1
      <4>2. CASE \E i \in DOMAIN t.ids :
                /\ t.ids[i] = w
                /\ \/ i # 1
                   \/ t.step = "unread"
                   \/ t.count = count[w] /\ (t.step = "sending" => r \in t.to)
        <5>1. PICK i \in DOMAIN t.ids :
                 /\ t.ids[i] = w
                 /\ \/ i # 1
                    \/ t.step = "unread"
                    \/ t.count = count[w] /\ (t.step = "sending" => r \in t.to)
          BY <4>2
        <5>2. task'[s] = t /\ count' = count
          BY <1>0, <1>1
        <5>3. Coming(s, r, w)'
          BY <5>1, <5>2 DEF Coming
        <5> QED BY <5>3
      <4> QED BY <2>1, <3>1, <3>3, <4>1, <4>2 DEF TaskChange
    <3> QED BY <3>2, <3>3
  <2> QED BY <2>1, <2>2, <2>3 DEF ClayInv, Reaching
<1>7. CountsOnce'
  BY <1>0 DEF ClayInv, CountsOnce
<1> QED BY <1>2, <1>3, <1>4, <1>5, <1>6, <1>7 DEF ClayInv

LEMMA FrameStep ==
  ASSUME ClayInv, NEW s \in Sockets, Frame(s)
  PROVE  ClayInv'
<1> DEFINE old == task[s]
           t == [old EXCEPT !.step = "framed", !.count = count[Head(old.ids)]]
<1>1. /\ old.step = "unread" /\ task' = [task EXCEPT ![s] = t]
      /\ UNCHANGED <<count, socket, inbox, outbox, shown, best, clicked, noise>>
  BY DEF Frame
<1>2. TypeOK /\ old.ids # << >>
  BY <1>1 DEF ClayInv, Tasked
<1>3. /\ old \in Tasks /\ old.ids \in Seq(Widgets) /\ Head(old.ids) = old.ids[1] /\ Head(old.ids) \in Widgets
  BY <1>2, TaskType
<1>4. count[Head(old.ids)] \in Nat
  BY <1>2, <1>3 DEF TypeOK
<1>5. /\ t \in Tasks /\ t.step = "framed" /\ t.ids = old.ids /\ t.count = count[Head(old.ids)]
  BY <1>3, <1>4 DEF Tasks
<1>6. outbox' \in [Sockets -> Seq(Frames)] /\ \A r \in Sockets : outbox[r] \in Seq(Frames)
  BY <1>1, <1>2 DEF TypeOK
<1> HIDE DEF t
<1>7. ASSUME NEW r \in Opened, NEW w \in Widgets, Coming(s, r, w)
      PROVE  \E i \in DOMAIN t.ids :
                /\ t.ids[i] = w
                /\ \/ i # 1
                   \/ t.step = "unread"
                   \/ t.count = count[w] /\ (t.step = "sending" => r \in t.to)
  BY <1>3, <1>5, <1>7 DEF Coming
<1>8. \A r \in Sockets : \A i \in DOMAIN outbox'[r] :
        outbox'[r][i].id \in Widgets => outbox'[r][i].count <= count[outbox'[r][i].id]
  BY <1>1 DEF ClayInv, NeverAhead
<1>9. /\ t.step = "idle" <=> t.ids = << >>
      /\ t.step \in {"framed", "sending"} => t.count <= count[Head(t.ids)]
  BY <1>2, <1>4, <1>5
<1>10. \A r \in Sockets : \A i \in DOMAIN outbox[r] : \E j \in DOMAIN outbox'[r] : outbox'[r][j] = outbox[r][i]
  BY <1>1
<1>11. old.step # "idle"
  BY <1>1
<1>12. TaskChange(s, t)
  BY <1>1, <1>5, <1>6, <1>7, <1>8, <1>9, <1>10, <1>11 DEF TaskChange
<1> QED BY <1>12, TaskStep

\* The first broadcast of a handler is done: what remains for it to send.
LEMMA ContinueComes ==
  ASSUME ClayInv, NEW s \in Sockets, task[s].ids # << >>, NEW r, NEW w, Coming(s, r, w)
  PROVE  \/ /\ task[s].ids[1] = w
            /\ \/ task[s].step = "unread"
               \/ task[s].count = count[w] /\ (task[s].step = "sending" => r \in task[s].to)
         \/ \E i \in DOMAIN Continue(task[s]).ids :
              Continue(task[s]).ids[i] = w /\ Continue(task[s]).step = "unread"
<1>1. PICK i \in DOMAIN task[s].ids :
         /\ task[s].ids[i] = w
         /\ \/ i # 1
            \/ task[s].step = "unread"
            \/ task[s].count = count[w] /\ (task[s].step = "sending" => r \in task[s].to)
  BY DEF Coming
<1>2. CASE i # 1
  <2>1. task[s] \in Tasks
    BY TaskType DEF ClayInv
  <2>2. PICK j \in DOMAIN Tail(task[s].ids) : Tail(task[s].ids)[j] = w
    BY <1>1, <1>2, <2>1, ContinueTask
  <2>3. Tail(task[s].ids) # << >>
    BY <2>2
  <2> QED BY <2>1, <2>2, <2>3, ContinueTask
<1> QED BY <1>1, <1>2

LEMMA BroadcastStep ==
  ASSUME ClayInv, NEW s \in Sockets, Broadcast(s)
  PROVE  ClayInv'
<1> DEFINE old == task[s]
           more == [old EXCEPT !.step = "sending", !.to = Opened]
           t == IF Opened = {} THEN Continue(old) ELSE more
<1>1. /\ old.step = "framed" /\ task' = [task EXCEPT ![s] = t]
      /\ UNCHANGED <<count, socket, inbox, outbox, shown, best, clicked, noise>>
  BY DEF Broadcast
<1>2. TypeOK /\ old.ids # << >> /\ old.count <= count[Head(old.ids)]
  BY <1>1 DEF ClayInv, Tasked
<1>3. /\ old \in Tasks /\ old.ids \in Seq(Widgets) /\ Head(old.ids) = old.ids[1] /\ Head(old.ids) \in Widgets
  BY <1>2, TaskType
<1>4. outbox' \in [Sockets -> Seq(Frames)] /\ \A r \in Sockets : outbox[r] \in Seq(Frames)
  BY <1>1, <1>2 DEF TypeOK
<1>5. \A r \in Sockets : \A i \in DOMAIN outbox'[r] :
        outbox'[r][i].id \in Widgets => outbox'[r][i].count <= count[outbox'[r][i].id]
  BY <1>1 DEF ClayInv, NeverAhead
<1>8. \A r \in Sockets : \A i \in DOMAIN outbox[r] : \E j \in DOMAIN outbox'[r] : outbox'[r][j] = outbox[r][i]
  BY <1>1
<1>9. old.step # "idle"
  BY <1>1
<1>6. CASE Opened = {}
  <2>1. /\ t \in Tasks /\ (t.step = "idle" <=> t.ids = << >>)
        /\ t.step \in {"framed", "sending"} => t.count <= count[Head(t.ids)]
    BY <1>2, <1>3, <1>6, ContinueTask
  <2> HIDE DEF t
  <2>2. TaskChange(s, t)
    BY <1>1, <1>4, <1>5, <1>6, <1>8, <1>9, <2>1 DEF TaskChange
  <2> QED BY <2>2, TaskStep
<1>7. CASE Opened # {}
  <2>1. /\ more \in Tasks /\ more.step = "sending" /\ more.ids = old.ids /\ more.count = old.count /\ more.to = Opened
    BY <1>3 DEF Tasks, Opened
  <2>2. t = more
    BY <1>7
  <2> HIDE DEF t, more
  <2>3. ASSUME NEW r \in Opened, NEW w \in Widgets, Coming(s, r, w)
        PROVE  \E i \in DOMAIN t.ids :
                  /\ t.ids[i] = w
                  /\ \/ i # 1
                     \/ t.step = "unread"
                     \/ t.count = count[w] /\ (t.step = "sending" => r \in t.to)
    BY <1>1, <2>1, <2>2, <2>3 DEF Coming
  <2>4. /\ t \in Tasks /\ (t.step = "idle" <=> t.ids = << >>)
        /\ t.step \in {"framed", "sending"} => t.count <= count[Head(t.ids)]
    BY <1>2, <2>1, <2>2
  <2>5. TaskChange(s, t)
    BY <1>1, <1>4, <1>5, <1>8, <1>9, <2>3, <2>4 DEF TaskChange
  <2> QED BY <2>5, TaskStep
<1> QED BY <1>6, <1>7

\* The wire new holds what old does, and m.
GrownBy(new, old, m) ==
  /\ \A i \in DOMAIN new : new[i] = m \/ \E j \in DOMAIN old : old[j] = new[i]
  /\ \A i \in DOMAIN old : \E j \in DOMAIN new : new[j] = old[i]
  /\ \E j \in DOMAIN new : new[j] = m

LEMMA AppendGrows ==
  ASSUME NEW S, NEW old \in Seq(S), NEW m \in S
  PROVE  GrownBy(Append(old, m), old, m)
<1> DEFINE n == Len(old)
           new == Append(old, m)
<1>1. /\ n \in Nat /\ DOMAIN new = 1 .. n + 1 /\ DOMAIN old = 1 .. n
      /\ \A i \in 1 .. n : new[i] = old[i]
      /\ new[n + 1] = m
  OBVIOUS
<1> HIDE DEF n, new
<1>2. /\ \A i \in DOMAIN new : i \in DOMAIN old \/ i = n + 1
      /\ \A i \in DOMAIN old : i \in DOMAIN new
      /\ n + 1 \in DOMAIN new
  BY <1>1
<1>3. GrownBy(new, old, m)
  BY <1>1, <1>2 DEF GrownBy
<1> QED BY <1>3 DEF new

LEMMA SendStep ==
  ASSUME ClayInv, NEW s \in Sockets, NEW r \in Sockets, SendTo(s, r)
  PROVE  ClayInv'
<1> DEFINE old == task[s]
           less == [old EXCEPT !.to = old.to \ {r}]
           t == IF old.to = {r} THEN Continue(old) ELSE less
           frame == Update(Head(old.ids), old.count)
<1>1. /\ old.step = "sending" /\ r \in old.to /\ old.step # "idle" /\ task' = [task EXCEPT ![s] = t]
      /\ outbox' = IF socket[r] = "open" THEN [outbox EXCEPT ![r] = Append(@, frame)] ELSE outbox
      /\ UNCHANGED <<count, socket, inbox, shown, best, clicked, noise>>
  <2>1. old.step = "sending" /\ r \in old.to /\ old.step # "idle"
    BY DEF SendTo
  <2>2. task' = [task EXCEPT ![s] = t]
    BY DEF SendTo
  <2>3. outbox' = IF socket[r] = "open" THEN [outbox EXCEPT ![r] = Append(@, frame)] ELSE outbox
    BY DEF SendTo
  <2>4. UNCHANGED <<count, socket, inbox, shown, best, clicked, noise>>
    BY DEF SendTo
  <2> QED BY <2>1, <2>2, <2>3, <2>4
<1>2. TypeOK /\ old.ids # << >> /\ old.count <= count[Head(old.ids)]
  BY <1>1 DEF ClayInv, Tasked
<1>3. /\ old \in Tasks /\ old.ids \in Seq(Widgets) /\ Head(old.ids) = old.ids[1] /\ Head(old.ids) \in Widgets
      /\ old.count \in Nat
  BY <1>2, TaskType
<1>4. /\ frame \in Frames /\ frame.id = Head(old.ids) /\ frame.count = old.count
      /\ frame = Update(old.ids[1], old.count)
  BY <1>3 DEF Update, Frames
<1>5. outbox \in [Sockets -> Seq(Frames)] /\ \A u \in Sockets : outbox[u] \in Seq(Frames)
  BY <1>2 DEF TypeOK
<1> HIDE DEF frame
<1>6. /\ outbox' \in [Sockets -> Seq(Frames)]
      /\ \A u \in Sockets : outbox'[u] = IF u = r /\ socket[r] = "open" THEN Append(outbox[u], frame) ELSE outbox[u]
  BY <1>1, <1>4, <1>5
<1>7. /\ \A u \in Sockets : \A i \in DOMAIN outbox'[u] :
           outbox'[u][i] = frame \/ \E j \in DOMAIN outbox[u] : outbox[u][j] = outbox'[u][i]
      /\ \A u \in Sockets : \A i \in DOMAIN outbox[u] : \E j \in DOMAIN outbox'[u] : outbox'[u][j] = outbox[u][i]
      /\ socket[r] = "open" => \E j \in DOMAIN outbox'[r] : outbox'[r][j] = frame
  <2>1. \A u \in Sockets : outbox'[u] = outbox[u] \/ GrownBy(outbox'[u], outbox[u], frame)
    <3>1. \A u \in Sockets : GrownBy(Append(outbox[u], frame), outbox[u], frame)
      BY <1>4, <1>5, AppendGrows
    <3> QED BY <1>6, <3>1
  <2>2. socket[r] = "open" => GrownBy(outbox'[r], outbox[r], frame)
    <3>1. GrownBy(Append(outbox[r], frame), outbox[r], frame)
      BY <1>4, <1>5, AppendGrows
    <3> QED BY <1>6, <3>1
  <2>3. \A u \in Sockets : \A i \in DOMAIN outbox'[u] :
           outbox'[u][i] = frame \/ \E j \in DOMAIN outbox[u] : outbox[u][j] = outbox'[u][i]
    BY <2>1 DEF GrownBy
  <2>4. \A u \in Sockets : \A i \in DOMAIN outbox[u] : \E j \in DOMAIN outbox'[u] : outbox'[u][j] = outbox[u][i]
    BY <2>1 DEF GrownBy
  <2> QED BY <2>2, <2>3, <2>4 DEF GrownBy
<1>8. \A u \in Sockets : \A i \in DOMAIN outbox'[u] :
        outbox'[u][i].id \in Widgets => outbox'[u][i].count <= count[outbox'[u][i].id]
  BY <1>2, <1>4, <1>7 DEF ClayInv, NeverAhead
<1>9. ASSUME NEW u \in Opened, u = r, NEW w \in Widgets, old.ids[1] = w, old.count = count[w]
      PROVE  \E j \in DOMAIN outbox'[u] : outbox'[u][j] = Update(w, count[w])
  BY <1>4, <1>7, <1>9 DEF Opened
<1>10. CASE old.to = {r}
  <2>1. /\ t \in Tasks /\ (t.step = "idle" <=> t.ids = << >>) /\ t = Continue(old)
        /\ t.step \in {"framed", "sending"} => t.count <= count[Head(t.ids)]
    BY <1>2, <1>3, <1>10, ContinueTask
  <2> HIDE DEF t
  <2>2. ASSUME NEW u \in Opened, NEW w \in Widgets, Coming(s, u, w)
        PROVE  \/ \E i \in DOMAIN outbox'[u] : outbox'[u][i] = Update(w, count[w])
               \/ \E i \in DOMAIN t.ids :
                    /\ t.ids[i] = w
                    /\ \/ i # 1
                       \/ t.step = "unread"
                       \/ t.count = count[w] /\ (t.step = "sending" => u \in t.to)
    <3>1. CASE \E i \in DOMAIN t.ids : t.ids[i] = w /\ t.step = "unread"
      BY <3>1
    <3>2. CASE old.ids[1] = w /\ old.count = count[w] /\ u \in old.to
      BY <1>9, <1>10, <3>2
    <3>3. \/ (old.ids[1] = w /\ old.count = count[w] /\ u \in old.to)
          \/ \E i \in DOMAIN Continue(old).ids : Continue(old).ids[i] = w /\ Continue(old).step = "unread"
      BY <1>1, <1>2, <2>2, ContinueComes
    <3> QED BY <2>1, <3>1, <3>2, <3>3
  <2>3. TaskChange(s, t)
    BY <1>1, <1>6, <1>7, <1>8, <2>1, <2>2 DEF TaskChange
  <2> QED BY <2>3, TaskStep
<1>11. CASE old.to # {r}
  <2>1. /\ less \in Tasks /\ less.step = "sending" /\ less.ids = old.ids /\ less.count = old.count
        /\ less.to = old.to \ {r}
    BY <1>1, <1>3 DEF Tasks
  <2>2. t = less
    BY <1>11
  <2> HIDE DEF t, less
  <2>3. ASSUME NEW u \in Opened, NEW w \in Widgets, Coming(s, u, w)
        PROVE  \/ \E i \in DOMAIN outbox'[u] : outbox'[u][i] = Update(w, count[w])
               \/ \E i \in DOMAIN t.ids :
                    /\ t.ids[i] = w
                    /\ \/ i # 1
                       \/ t.step = "unread"
                       \/ t.count = count[w] /\ (t.step = "sending" => u \in t.to)
    <3>1. PICK i \in DOMAIN old.ids :
            old.ids[i] = w /\ (i # 1 \/ (old.count = count[w] /\ u \in old.to))
      <4>1. PICK i \in DOMAIN old.ids :
              /\ old.ids[i] = w
              /\ \/ i # 1
                 \/ old.step = "unread"
                 \/ old.count = count[w] /\ (old.step = "sending" => u \in old.to)
        BY <2>3 DEF Coming
      <4>2. old.step = "sending"
        BY <1>1
      <4>3. i # 1 \/ (old.count = count[w] /\ u \in old.to)
        BY <4>1, <4>2
      <4> QED BY <4>1, <4>3
    <3>2. CASE i = 1 /\ u = r
      BY <1>9, <3>1, <3>2
    <3>3. CASE i # 1 \/ u # r
      BY <2>1, <2>2, <3>1, <3>3
    <3> QED BY <3>2, <3>3
  <2>4. /\ t \in Tasks /\ (t.step = "idle" <=> t.ids = << >>)
        /\ t.step \in {"framed", "sending"} => t.count <= count[Head(t.ids)]
    BY <1>2, <2>1, <2>2
  <2>5. TaskChange(s, t)
    BY <1>1, <1>6, <1>7, <1>8, <2>3, <2>4 DEF TaskChange
  <2> QED BY <2>5, TaskStep
<1> QED BY <1>10, <1>11

LEMMA OpenStep ==
  ASSUME ClayInv, NEW s \in Sockets, OnOpen(s)
  PROVE  ClayInv'
<1> DEFINE ids == SetToSeq(Widgets)
           t == Begin(ids)
<1>1. /\ socket[s] = "new" /\ socket' = [socket EXCEPT ![s] = "open"] /\ task' = [task EXCEPT ![s] = t]
      /\ UNCHANGED <<count, inbox, outbox, shown, best, clicked, noise>>
  BY DEF OnOpen
<1>2. ids \in Seq(Widgets) /\ \A w \in Widgets : \E i \in DOMAIN ids : ids[i] = w
  BY EveryId
<1>3. t \in Tasks /\ t.ids = ids /\ t.step = IF ids = << >> THEN "idle" ELSE "unread"
  BY <1>2, BeginTask
<1> HIDE DEF ids, t
<1>4. /\ task \in [Sockets -> Tasks] /\ task' \in [Sockets -> Tasks] /\ task'[s] = t
      /\ \A r \in Sockets : r # s => task'[r] = task[r]
      /\ socket' \in [Sockets -> {"new", "open", "closed"}] /\ socket'[s] = "open"
      /\ \A r \in Sockets : r # s => socket'[r] = socket[r]
  BY <1>1, <1>3 DEF ClayInv, TypeOK
<1>5. TypeOK'
  BY <1>1, <1>4 DEF ClayInv, TypeOK
<1>6. Tasked'
  BY <1>1, <1>3, <1>4 DEF ClayInv, Tasked
<1>7. Fresh'
  BY <1>1, <1>4 DEF ClayInv, Fresh
<1>8. NeverAhead' /\ CountsOnce'
  BY <1>1 DEF ClayInv, NeverAhead, CountsOnce
<1>9. Reaching'
  <2> SUFFICES ASSUME NEW r \in Sockets, socket'[r] = "open", NEW w \in Widgets
               PROVE  \/ best[r][w] = count[w]
                      \/ \E i \in DOMAIN outbox[r] : outbox[r][i] = Update(w, count[w])
                      \/ \E u \in Sockets : Coming(u, r, w)'
    BY <1>1 DEF Reaching, Opened, Update
  <2>1. Coming(s, r, w)'
    <3>1. PICK i \in DOMAIN ids : ids[i] = w
      BY <1>2
    <3>2. ids # << >>
      BY <1>2, <3>1
    <3>3. task'[s] = t /\ t.step = "unread" /\ t.ids = ids
      BY <1>3, <1>4, <3>2
    <3> QED BY <3>1, <3>3 DEF Coming
  <2> QED BY <2>1
<1> QED BY <1>5, <1>6, <1>7, <1>8, <1>9 DEF ClayInv

LEMMA ReceiveRequestStep ==
  ASSUME ClayInv, NEW s \in Sockets, OnReceive(s)
  PROVE  ClayInv'
<1> DEFINE request == Head(inbox[s])
<1>1. /\ inbox[s] # << >> /\ task[s].step = "idle" /\ inbox' = [inbox EXCEPT ![s] = Tail(@)]
      /\ UNCHANGED <<socket, outbox, shown, best, clicked, noise>>
  BY DEF OnReceive
<1>2. TypeOK /\ inbox \in [Sockets -> Seq(Requests)] /\ inbox[s] \in Seq(Requests) /\ task[s].ids = << >>
  BY <1>1 DEF ClayInv, Tasked, TypeOK
<1>3. request \in Requests /\ Tail(inbox[s]) \in Seq(Requests)
  BY <1>1, <1>2
<1>4. /\ inbox' \in [Sockets -> Seq(Requests)] /\ inbox'[s] = Tail(inbox[s])
      /\ \A u \in Sockets \ {s} : inbox'[u] = inbox[u]
  BY <1>1, <1>2, <1>3
<1>5. ASSUME NEW w \in Widgets
      PROVE  /\ Cardinality(OnTheWay(inbox, w)) \in Nat /\ Cardinality(OnTheWay(inbox', w)) \in Nat
             /\ Cardinality(OnTheWay(inbox, w))
                  = Cardinality(OnTheWay(inbox', w)) + IF request = Increment(w) THEN 1 ELSE 0
  <2>1. Increments(inbox[s], w) = Increments(Tail(inbox[s]), w) + IF request = Increment(w) THEN 1 ELSE 0
    BY <1>1, <1>2, IncrementsTaken
  <2>2. SameBut(inbox', inbox, s)
    BY <1>4 DEF SameBut
  <2>3. Differ(inbox', inbox, s, w)
    BY <1>2, <1>4, <2>2, InboxChanges
  <2>4. Increments(inbox'[s], w) = Increments(Tail(inbox[s]), w)
    BY <1>4
  <2> HIDE DEF request
  <2> QED BY <2>1, <2>3, <2>4 DEF Differ
<1>6. \A w \in Widgets : clicked[w] \in Nat /\ count[w] \in Nat /\ clicked[w] = count[w] + Cardinality(OnTheWay(inbox, w))
  BY <1>2 DEF ClayInv, CountsOnce, OnTheWay, TypeOK
<1>7. Fresh'
  <2>1. \A u \in Sockets : socket[u] = "new" => u # s
    BY <1>1 DEF ClayInv, Fresh
  <2>2. \A u \in Sockets : u # s => task'[u] = task[u] /\ inbox'[u] = inbox[u]
    <3>1. task \in [Sockets -> Tasks]
      BY <1>2 DEF TypeOK
    <3>2. \A u \in Sockets : u # s => task'[u] = task[u]
      BY <3>1 DEF OnReceive
    <3> QED BY <1>4, <3>2
  <2> QED BY <1>1, <2>1, <2>2 DEF ClayInv, Fresh
<1>8. CASE Accepts(request)
  <2> DEFINE id == request.id
             t == Unread(<<id>>)
  <2>1. request.kind = "increment" /\ id \in Widgets
    BY <1>8 DEF Accepts
  <2>2. count' = [count EXCEPT ![id] = @ + 1] /\ task' = [task EXCEPT ![s] = t]
    BY <1>8 DEF OnReceive
  <2>3. t \in Tasks /\ t.step = "unread" /\ t.ids = <<id>>
    BY <2>1 DEF Unread, Tasks
  <2>4. \A w \in Widgets : request = Increment(w) <=> w = id
    BY <1>3, <2>1 DEF Requests, Increment
  <2> HIDE DEF id, t, request
  <2>5. /\ count' \in [Widgets -> Nat]
        /\ \A w \in Widgets : count[w] \in Nat /\ count'[w] = IF w = id THEN count[w] + 1 ELSE count[w]
    BY <1>2, <2>1, <2>2 DEF TypeOK
  <2>6. /\ task' \in [Sockets -> Tasks] /\ task'[s] = t
        /\ \A r \in Sockets : r # s => task'[r] = task[r]
    BY <1>2, <2>2, <2>3 DEF TypeOK
  <2>7. TypeOK'
    BY <1>1, <1>2, <1>4, <2>5, <2>6 DEF TypeOK
  <2>8. Tasked'
    <3> SUFFICES ASSUME NEW r \in Sockets
                 PROVE  /\ task'[r].step = "idle" <=> task'[r].ids = << >>
                        /\ task'[r].step \in {"framed", "sending"} => task'[r].count <= count'[Head(task'[r].ids)]
      BY DEF Tasked
    <3>1. CASE r = s
      BY <2>3, <2>6, <3>1
    <3>2. CASE r # s
      <4>1. task'[r] = task[r]
        BY <2>6, <3>2
      <4>2. /\ task[r].step = "idle" <=> task[r].ids = << >>
            /\ task[r].step \in {"framed", "sending"} => task[r].count <= count[Head(task[r].ids)]
        BY DEF ClayInv, Tasked
      <4>3. task[r].ids # << >> => Head(task[r].ids) \in Widgets
        BY <1>2, TaskType
      <4>4. task[r].count \in Nat
        BY <1>2, TaskType
      <4> QED BY <2>5, <4>1, <4>2, <4>3, <4>4
    <3> QED BY <3>1, <3>2
  <2>9. NeverAhead'
    <3> SUFFICES ASSUME NEW r \in Sockets, NEW w \in Widgets
                 PROVE  /\ shown[r][w] <= best[r][w] /\ best[r][w] <= count'[w]
                        /\ \A i \in DOMAIN outbox[r] : outbox[r][i].id = w => outbox[r][i].count <= count'[w]
      BY <1>1 DEF NeverAhead
    <3>1. /\ shown[r][w] <= best[r][w] /\ best[r][w] <= count[w]
          /\ \A i \in DOMAIN outbox[r] : outbox[r][i].id = w => outbox[r][i].count <= count[w]
      BY DEF ClayInv, NeverAhead
    <3>2. best[r][w] \in Nat /\ \A i \in DOMAIN outbox[r] : outbox[r][i].count \in Nat
      <4>1. best[r][w] \in Nat /\ outbox[r] \in Seq(Frames)
        BY <1>2 DEF TypeOK
      <4>2. \A i \in DOMAIN outbox[r] : outbox[r][i] \in Frames
        BY <4>1
      <4> QED BY <4>1, <4>2 DEF Frames
    <3> QED BY <2>5, <3>1, <3>2
  <2>10. Reaching'
    <3> SUFFICES ASSUME NEW r \in Sockets, socket[r] = "open", NEW w \in Widgets
                 PROVE  \/ best[r][w] = count'[w]
                        \/ \E i \in DOMAIN outbox[r] : outbox[r][i] = Update(w, count'[w])
                        \/ \E u \in Sockets : Coming(u, r, w)'
      BY <1>1 DEF Reaching, Opened, Update
    <3>1. CASE w = id
      <4>1. task'[s].step = "unread" /\ 1 \in DOMAIN task'[s].ids /\ task'[s].ids[1] = w
        BY <2>3, <2>6, <3>1
      <4>2. Coming(s, r, w)'
        BY <4>1 DEF Coming
      <4> QED BY <4>2
    <3>2. CASE w # id
      <4>1. count'[w] = count[w]
        BY <2>5, <3>2
      <4>2. ASSUME NEW u \in Sockets, Coming(u, r, w) PROVE Coming(u, r, w)'
        <5>1. u # s
          BY <1>2, <4>2 DEF Coming
        <5>2. task'[u] = task[u]
          BY <2>6, <5>1
        <5> QED BY <4>1, <4>2, <5>2 DEF Coming
      <4>3. r \in Opened
        BY DEF Opened
      <4> QED BY <4>1, <4>2, <4>3 DEF ClayInv, Reaching
    <3> QED BY <3>1, <3>2
  <2>11. CountsOnce'
    <3> SUFFICES ASSUME NEW w \in Widgets PROVE clicked[w] = count'[w] + Cardinality(OnTheWay(inbox', w))
      BY <1>1 DEF CountsOnce, OnTheWay
    <3> QED BY <1>5, <1>6, <2>4, <2>5
  <2> QED BY <1>7, <2>7, <2>8, <2>9, <2>10, <2>11 DEF ClayInv
<1>9. CASE ~Accepts(request)
  <2>1. UNCHANGED <<count, task>>
    BY <1>9 DEF OnReceive
  <2>2. \A w \in Widgets : request # Increment(w)
    BY <1>9 DEF Accepts, Increment
  <2> HIDE DEF request
  <2>3. TypeOK' /\ Tasked' /\ NeverAhead'
    BY <1>1, <1>2, <1>4, <2>1 DEF ClayInv, TypeOK, Tasked, NeverAhead
  <2>4. Reaching'
    BY <1>1, <2>1 DEF ClayInv, Reaching, Opened, Coming, Update
  <2>5. CountsOnce'
    <3> SUFFICES ASSUME NEW w \in Widgets PROVE clicked[w] = count[w] + Cardinality(OnTheWay(inbox', w))
      BY <1>1, <2>1 DEF CountsOnce, OnTheWay
    <3> QED BY <1>5, <1>6, <2>2
  <2> QED BY <1>7, <2>3, <2>4, <2>5 DEF ClayInv
<1> QED BY <1>8, <1>9

-----------------------------------------------------------------------------
(***************************************************************************)
(* The pages.                                                              *)
(***************************************************************************)

\* A page sends a frame, which is a click or is not.
LEMMA Posted ==
  ASSUME ClayInv, NEW s \in Sockets, NEW request \in Requests, socket[s] = "open",
         inbox' = [inbox EXCEPT ![s] = Append(@, request)],
         UNCHANGED <<count, socket, task, outbox, shown, best>>,
         clicked' \in [Widgets -> Nat], noise' \in Nat,
         \A w \in Widgets : clicked'[w] = clicked[w] + IF request = Increment(w) THEN 1 ELSE 0
  PROVE  ClayInv'
<1>1. TypeOK /\ inbox \in [Sockets -> Seq(Requests)] /\ inbox[s] \in Seq(Requests)
  BY DEF ClayInv, TypeOK
<1>2. /\ inbox' \in [Sockets -> Seq(Requests)] /\ inbox'[s] = Append(inbox[s], request)
      /\ \A u \in Sockets \ {s} : inbox'[u] = inbox[u]
  BY <1>1
<1>3. TypeOK'
  BY <1>1, <1>2 DEF TypeOK
<1>4. Tasked' /\ NeverAhead'
  BY DEF ClayInv, Tasked, NeverAhead
<1>5. Fresh'
  <2>1. \A u \in Sockets : socket[u] = "new" => u # s
    OBVIOUS
  <2> QED BY <1>2, <2>1 DEF ClayInv, Fresh
<1>6. Reaching'
  BY DEF ClayInv, Reaching, Opened, Coming, Update
<1>7. CountsOnce'
  <2> SUFFICES ASSUME NEW w \in Widgets PROVE clicked'[w] = count[w] + Cardinality(OnTheWay(inbox', w))
    BY DEF CountsOnce, OnTheWay
  <2>1. Increments(Append(inbox[s], request), w) = Increments(inbox[s], w) + IF request = Increment(w) THEN 1 ELSE 0
    BY <1>1, IncrementsAppended
  <2>2. SameBut(inbox', inbox, s)
    BY <1>2 DEF SameBut
  <2>3. Differ(inbox', inbox, s, w)
    BY <1>1, <1>2, <2>2, InboxChanges
  <2>4. Increments(inbox'[s], w) = Increments(Append(inbox[s], request), w)
    BY <1>2
  <2>5. clicked[w] \in Nat /\ count[w] \in Nat /\ clicked[w] = count[w] + Cardinality(OnTheWay(inbox, w))
    BY <1>1 DEF ClayInv, CountsOnce, OnTheWay, TypeOK
  <2> DEFINE here == Increments(inbox[s], w)
             way == Cardinality(OnTheWay(inbox, w))
             one == IF request = Increment(w) THEN 1 ELSE 0
  <2>6. PICK wayNext \in Nat : wayNext = Cardinality(OnTheWay(inbox', w))
    BY <2>3 DEF Differ
  <2>7. here \in Nat /\ way \in Nat /\ one \in Nat /\ wayNext + here = way + (here + one)
    BY <2>1, <2>3, <2>4, <2>6 DEF Differ
  <2>8. clicked'[w] = clicked[w] + one
    OBVIOUS
  <2> HIDE DEF here, way, one
  <2>9. wayNext = way + one
    BY <2>7
  <2>10. clicked[w] = count[w] + way
    BY <2>5 DEF way
  <2>11. clicked'[w] = count[w] + wayNext
    BY <2>5, <2>7, <2>8, <2>9, <2>10
  <2> QED BY <2>6, <2>11
<1> QED BY <1>3, <1>4, <1>5, <1>6, <1>7 DEF ClayInv

LEMMA ClickStep ==
  ASSUME ClayInv, NEW s \in Sockets, NEW w \in Widgets, Click(s, w)
  PROVE  ClayInv'
<1>1. /\ socket[s] = "open" /\ inbox' = [inbox EXCEPT ![s] = Append(@, Increment(w))]
      /\ clicked' = [clicked EXCEPT ![w] = @ + 1]
      /\ UNCHANGED <<count, socket, task, outbox, shown, best, noise>>
  BY DEF Click, Increment
<1>2. Increment(w) \in Requests /\ \A u \in Widgets : Increment(w) = Increment(u) <=> u = w
  BY DEF Increment, Requests
<1>3. clicked \in [Widgets -> Nat] /\ noise' \in Nat
  BY <1>1 DEF ClayInv, TypeOK
<1>4. /\ clicked' \in [Widgets -> Nat]
      /\ \A u \in Widgets : clicked'[u] = clicked[u] + IF u = w THEN 1 ELSE 0
  BY <1>1, <1>3
<1>5. \A u \in Widgets : clicked'[u] = clicked[u] + IF Increment(w) = Increment(u) THEN 1 ELSE 0
  BY <1>2, <1>4
<1> QED BY <1>1, <1>2, <1>3, <1>4, <1>5, Posted

LEMMA MutterStep ==
  ASSUME ClayInv, NEW s \in Sockets, Mutter(s)
  PROVE  ClayInv'
<1>1. PICK request \in Requests \ [id : Widgets, kind : {"increment"}] :
         inbox' = [inbox EXCEPT ![s] = Append(@, request)]
  BY DEF Mutter
<1>2. /\ socket[s] = "open" /\ noise' = noise + 1
      /\ UNCHANGED <<count, socket, task, outbox, shown, best, clicked>>
  BY DEF Mutter
<1>3. clicked' \in [Widgets -> Nat] /\ noise' \in Nat
  BY <1>2 DEF ClayInv, TypeOK
<1>4. \A w \in Widgets : request # Increment(w)
  BY <1>1 DEF Increment
<1>5. \A w \in Widgets : clicked'[w] = clicked[w] + IF request = Increment(w) THEN 1 ELSE 0
  BY <1>2, <1>3, <1>4
<1> QED BY <1>1, <1>2, <1>3, <1>5, Posted

\* Clay's own frames are for no widget of the notebook.
LEMMA ClayTalksStep ==
  ASSUME ClayInv, NEW s \in Sockets, ClayTalks(s)
  PROVE  ClayInv'
<1>1. /\ socket[s] = "open" /\ outbox' = [outbox EXCEPT ![s] = Append(@, StrangeFrame)] /\ noise' = noise + 1
      /\ UNCHANGED <<count, socket, inbox, task, shown, best, clicked>>
  BY DEF ClayTalks
<1>2. StrangeFrame \in Frames /\ StrangeFrame.id \notin Widgets
  BY ClayAssumption DEF StrangeFrame, Frames
<1>3. TypeOK /\ outbox \in [Sockets -> Seq(Frames)] /\ \A u \in Sockets : outbox[u] \in Seq(Frames)
  BY DEF ClayInv, TypeOK
<1>4. /\ outbox' \in [Sockets -> Seq(Frames)]
      /\ \A u \in Sockets : outbox'[u] = IF u = s THEN Append(outbox[u], StrangeFrame) ELSE outbox[u]
  BY <1>1, <1>2, <1>3
<1>5. /\ \A u \in Sockets : \A i \in DOMAIN outbox'[u] :
           outbox'[u][i] = StrangeFrame \/ \E j \in DOMAIN outbox[u] : outbox[u][j] = outbox'[u][i]
      /\ \A u \in Sockets : \A i \in DOMAIN outbox[u] : \E j \in DOMAIN outbox'[u] : outbox'[u][j] = outbox[u][i]
  <2>1. \A u \in Sockets : outbox'[u] = outbox[u] \/ GrownBy(outbox'[u], outbox[u], StrangeFrame)
    <3>1. \A u \in Sockets : GrownBy(Append(outbox[u], StrangeFrame), outbox[u], StrangeFrame)
      BY <1>2, <1>3, AppendGrows
    <3> QED BY <1>4, <3>1
  <2> QED BY <2>1 DEF GrownBy
<1>6. TypeOK'
  BY <1>1, <1>3, <1>4 DEF TypeOK
<1>7. Tasked' /\ Fresh' /\ CountsOnce'
  BY <1>1 DEF ClayInv, Tasked, Fresh, CountsOnce
<1>8. NeverAhead'
  <2> SUFFICES ASSUME NEW u \in Sockets, NEW w \in Widgets
               PROVE  /\ shown[u][w] <= best[u][w] /\ best[u][w] <= count[w]
                      /\ \A i \in DOMAIN outbox'[u] : outbox'[u][i].id = w => outbox'[u][i].count <= count[w]
    BY <1>1 DEF NeverAhead
  <2> QED BY <1>2, <1>5 DEF ClayInv, NeverAhead
<1>9. Reaching'
  <2> SUFFICES ASSUME NEW r \in Sockets, socket[r] = "open", NEW w \in Widgets
               PROVE  \/ best[r][w] = count[w]
                      \/ \E i \in DOMAIN outbox'[r] : outbox'[r][i] = Update(w, count[w])
                      \/ \E u \in Sockets : Coming(u, r, w)'
    BY <1>1 DEF Reaching, Opened, Update
  <2>1. r \in Opened
    BY DEF Opened
  <2>2. \A u \in Sockets : Coming(u, r, w) => Coming(u, r, w)'
    BY <1>1 DEF Coming
  <2> QED BY <1>5, <2>1, <2>2 DEF ClayInv, Reaching
<1> QED BY <1>6, <1>7, <1>8, <1>9 DEF ClayInv

LEMMA Larger ==
  ASSUME NEW a \in Nat, NEW b \in Nat
  PROVE  /\ Max({a, b}) \in Nat /\ a <= Max({a, b}) /\ b <= Max({a, b})
         /\ Max({a, b}) = a \/ Max({a, b}) = b
<1> DEFINE Top(m) == m \in {a, b} /\ \A y \in {a, b} : m >= y
<1>1. \E m : Top(m)
  <2>1. CASE a >= b
    BY <2>1, Top(a)
  <2>2. CASE b >= a
    BY <2>2, Top(b)
  <2> QED BY <2>1, <2>2
<1>2. Max({a, b}) = CHOOSE m \in {a, b} : \A y \in {a, b} : m >= y
  BY DEF Max
<1>3. Top(Max({a, b}))
  BY <1>1, <1>2, Zenon
<1> QED BY <1>3

\* A page takes a frame, for one of its widgets or for none: it shows that count, the
\* largest it has shown is that or as before, and no other frame is gone.
LEMMA ReceiveStep ==
  ASSUME ClayInv, NEW s \in Sockets, Receive(s)
  PROVE  ClayInv'
<1> DEFINE frame == Head(outbox[s])
<1>1. /\ socket[s] = "open" /\ outbox[s] # << >> /\ outbox' = [outbox EXCEPT ![s] = Tail(@)]
      /\ UNCHANGED <<count, socket, inbox, task, clicked, noise>>
  BY DEF Receive
<1>2. /\ TypeOK /\ outbox \in [Sockets -> Seq(Frames)] /\ outbox[s] \in Seq(Frames)
      /\ shown \in [Sockets -> [Widgets -> Nat]] /\ best \in [Sockets -> [Widgets -> Nat]]
      /\ count \in [Widgets -> Nat]
  BY DEF ClayInv, TypeOK
<1>3. frame \in Frames /\ Tail(outbox[s]) \in Seq(Frames) /\ frame = outbox[s][1] /\ 1 \in DOMAIN outbox[s]
  BY <1>1, <1>2
<1>4. /\ outbox' \in [Sockets -> Seq(Frames)]
      /\ \A u \in Sockets : outbox'[u] = IF u = s THEN Tail(outbox[u]) ELSE outbox[u]
  BY <1>1, <1>2, <1>3
<1>5. /\ \A i \in DOMAIN Tail(outbox[s]) : \E j \in DOMAIN outbox[s] : outbox[s][j] = Tail(outbox[s])[i]
      /\ \A i \in DOMAIN outbox[s] : i = 1 \/ \E j \in DOMAIN Tail(outbox[s]) : Tail(outbox[s])[j] = outbox[s][i]
  <2>1. /\ Len(outbox[s]) \in Nat /\ DOMAIN outbox[s] = 1 .. Len(outbox[s])
        /\ DOMAIN Tail(outbox[s]) = 1 .. Len(outbox[s]) - 1
        /\ \A i \in 1 .. Len(outbox[s]) - 1 : Tail(outbox[s])[i] = outbox[s][i + 1]
    BY <1>1, <1>2
  <2>2. \A i \in 1 .. Len(outbox[s]) - 1 : i + 1 \in DOMAIN outbox[s]
    BY <2>1
  <2>3. \A i \in DOMAIN outbox[s] : i # 1 => i - 1 \in 1 .. Len(outbox[s]) - 1 /\ (i - 1) + 1 = i
    BY <2>1
  <2> QED BY <2>1, <2>2, <2>3
<1>6. /\ \A u \in Sockets : \A i \in DOMAIN outbox'[u] :
           \E j \in DOMAIN outbox[u] : outbox[u][j] = outbox'[u][i]
      /\ \A u \in Sockets : \A i \in DOMAIN outbox[u] :
           (u = s /\ outbox[u][i] = frame) \/ \E j \in DOMAIN outbox'[u] : outbox'[u][j] = outbox[u][i]
  <2>1. \A u \in Sockets : u # s => outbox'[u] = outbox[u]
    BY <1>4
  <2>2. outbox'[s] = Tail(outbox[s])
    BY <1>4
  <2>3. \A u \in Sockets : \A i \in DOMAIN outbox'[u] :
          \E j \in DOMAIN outbox[u] : outbox[u][j] = outbox'[u][i]
    <3> SUFFICES ASSUME NEW u \in Sockets, NEW i \in DOMAIN outbox'[u]
                 PROVE  \E j \in DOMAIN outbox[u] : outbox[u][j] = outbox'[u][i]
      OBVIOUS
    <3>1. CASE u = s
      BY <1>5, <2>2, <3>1
    <3>2. CASE u # s
      BY <2>1, <3>2
    <3> QED BY <3>1, <3>2
  <2>4. \A i \in DOMAIN outbox[s] :
          outbox[s][i] = frame \/ \E j \in DOMAIN outbox'[s] : outbox'[s][j] = outbox[s][i]
    <3> HIDE DEF frame
    <3> QED BY <1>3, <1>5, <2>2
  <2> HIDE DEF frame
  <2> QED BY <2>1, <2>3, <2>4
<1>7. \A w \in Widgets : frame.id = w => frame.count <= count[w]
  BY <1>3 DEF ClayInv, NeverAhead
<1>8. frame.count \in Nat
  BY <1>3 DEF Frames
<1> HIDE DEF frame
<1>9. /\ shown' \in [Sockets -> [Widgets -> Nat]] /\ best' \in [Sockets -> [Widgets -> Nat]]
      /\ \A u \in Sockets, w \in Widgets :
           IF u = s /\ w = frame.id
             THEN shown'[u][w] = frame.count /\ best'[u][w] = Max({best[u][w], frame.count})
             ELSE shown'[u][w] = shown[u][w] /\ best'[u][w] = best[u][w]
  <2>1. CASE frame.id \in Widgets
    <3> DEFINE top == Max({best[s][frame.id], frame.count})
    <3>1. /\ shown' = [shown EXCEPT ![s][frame.id] = frame.count]
          /\ best' = [best EXCEPT ![s][frame.id] = top]
      BY <2>1 DEF Receive, frame
    <3>2. top \in Nat
      BY <1>2, <1>8, <2>1, Larger
    <3> HIDE DEF top
    <3>3. /\ shown' \in [Sockets -> [Widgets -> Nat]] /\ best' \in [Sockets -> [Widgets -> Nat]]
      BY <1>2, <1>8, <2>1, <3>1, <3>2
    <3>4. \A u \in Sockets, w \in Widgets :
            IF u = s /\ w = frame.id
              THEN shown'[u][w] = frame.count /\ best'[u][w] = top
              ELSE shown'[u][w] = shown[u][w] /\ best'[u][w] = best[u][w]
      BY <1>2, <2>1, <3>1
    <3> QED BY <3>3, <3>4 DEF top
  <2>2. CASE frame.id \notin Widgets
    BY <1>2, <2>2 DEF Receive, frame
  <2> QED BY <2>1, <2>2
<1>10. \A u \in Sockets, w \in Widgets :
         /\ best[u][w] \in Nat /\ shown[u][w] \in Nat /\ count[w] \in Nat
         /\ shown[u][w] <= best[u][w] /\ best[u][w] <= count[w]
  BY <1>2 DEF ClayInv, NeverAhead
<1>11. \A u \in Sockets, w \in Widgets :
         /\ shown'[u][w] <= best'[u][w] /\ best'[u][w] <= count[w] /\ best[u][w] <= best'[u][w]
         /\ best'[u][w] \in Nat
  <2> SUFFICES ASSUME NEW u \in Sockets, NEW w \in Widgets
               PROVE  /\ shown'[u][w] <= best'[u][w] /\ best'[u][w] <= count[w] /\ best[u][w] <= best'[u][w]
                      /\ best'[u][w] \in Nat
    OBVIOUS
  <2>1. CASE u = s /\ w = frame.id
    <3>1. shown'[u][w] = frame.count /\ best'[u][w] = Max({best[u][w], frame.count})
      BY <1>9, <2>1
    <3>2. /\ best[u][w] <= best'[u][w] /\ frame.count <= best'[u][w]
          /\ best'[u][w] = best[u][w] \/ best'[u][w] = frame.count
      BY <1>8, <1>10, <3>1, Larger
    <3> QED BY <1>7, <1>8, <1>10, <2>1, <3>1, <3>2
  <2>2. CASE ~(u = s /\ w = frame.id)
    <3>1. shown'[u][w] = shown[u][w] /\ best'[u][w] = best[u][w]
      BY <1>9, <2>2
    <3> QED BY <1>10, <3>1
  <2> QED BY <2>1, <2>2
<1>12. TypeOK'
  BY <1>1, <1>2, <1>4, <1>9 DEF TypeOK
<1>13. Tasked' /\ Fresh' /\ CountsOnce'
  BY <1>1 DEF ClayInv, Tasked, Fresh, CountsOnce
<1>14. NeverAhead'
  <2> SUFFICES ASSUME NEW u \in Sockets, NEW w \in Widgets
               PROVE  \A i \in DOMAIN outbox'[u] : outbox'[u][i].id = w => outbox'[u][i].count <= count[w]
    BY <1>1, <1>11 DEF NeverAhead
  <2> QED BY <1>6 DEF ClayInv, NeverAhead
<1>15. Reaching'
  <2> SUFFICES ASSUME NEW r \in Sockets, socket[r] = "open", NEW w \in Widgets
               PROVE  \/ best'[r][w] = count[w]
                      \/ \E i \in DOMAIN outbox'[r] : outbox'[r][i] = Update(w, count[w])
                      \/ \E u \in Sockets : Coming(u, r, w)'
    BY <1>1 DEF Reaching, Opened, Update
  <2>1. r \in Opened
    BY DEF Opened
  <2>2. \A u \in Sockets : Coming(u, r, w) => Coming(u, r, w)'
    BY <1>1 DEF Coming
  <2>3. CASE best[r][w] = count[w]
    BY <1>10, <1>11, <2>3
  <2>4. CASE \E i \in DOMAIN outbox[r] : outbox[r][i] = Update(w, count[w])
    <3>1. CASE r = s /\ frame = Update(w, count[w])
      <4>1. frame.id = w /\ frame.count = count[w]
        BY <3>1 DEF Update
      <4>2. shown'[r][w] = count[w]
        BY <1>9, <3>1, <4>1
      <4> QED BY <1>10, <1>11, <4>2
    <3>2. CASE ~(r = s /\ frame = Update(w, count[w]))
      BY <1>6, <2>4, <3>2
    <3> QED BY <3>1, <3>2
  <2> QED BY <2>1, <2>2, <2>3, <2>4 DEF ClayInv, Reaching
<1> QED BY <1>12, <1>13, <1>14, <1>15 DEF ClayInv

\* A page goes, and the clicks that had not arrived go with it.
LEMMA LeaveStep ==
  ASSUME ClayInv, NEW s \in Sockets, Leave(s)
  PROVE  ClayInv'
<1>1. /\ socket[s] = "open" /\ socket' = [socket EXCEPT ![s] = "closed"]
      /\ outbox' = [outbox EXCEPT ![s] = << >>]
      /\ UNCHANGED <<count, task, shown, best, noise>>
  BY DEF Leave
<1>2. PICK n \in 0 .. Len(inbox[s]) :
         /\ inbox' = [inbox EXCEPT ![s] = SubSeq(inbox[s], 1, n)]
         /\ clicked' = [w \in Widgets |->
              clicked[w] - (Increments(inbox[s], w) - Increments(SubSeq(inbox[s], 1, n), w))]
  BY DEF Leave
<1>3. /\ TypeOK /\ inbox \in [Sockets -> Seq(Requests)] /\ inbox[s] \in Seq(Requests)
      /\ socket \in [Sockets -> {"new", "open", "closed"}] /\ outbox \in [Sockets -> Seq(Frames)]
      /\ clicked \in [Widgets -> Nat] /\ count \in [Widgets -> Nat]
  BY DEF ClayInv, TypeOK
<1> DEFINE kept == SubSeq(inbox[s], 1, n)
<1>4. kept \in Seq(Requests)
  BY <1>3
<1> HIDE DEF kept
<1>5. /\ inbox' \in [Sockets -> Seq(Requests)] /\ inbox'[s] = kept /\ SameBut(inbox', inbox, s)
  BY <1>2, <1>3, <1>4 DEF kept, SameBut
<1>6. \A w \in Widgets :
        /\ clicked'[w] \in Nat
        /\ clicked'[w] = count[w] + Cardinality(OnTheWay(inbox', w))
  <2> SUFFICES ASSUME NEW w \in Widgets
               PROVE  clicked'[w] \in Nat /\ clicked'[w] = count[w] + Cardinality(OnTheWay(inbox', w))
    OBVIOUS
  <2>1. Differ(inbox', inbox, s, w)
    BY <1>3, <1>5, InboxChanges
  <2>2. PICK way \in Nat, wayNext \in Nat, here \in Nat, hereNext \in Nat :
          /\ way = Cardinality(OnTheWay(inbox, w)) /\ wayNext = Cardinality(OnTheWay(inbox', w))
          /\ here = Increments(inbox[s], w) /\ hereNext = Increments(inbox'[s], w)
          /\ wayNext + here = way + hereNext
    BY <2>1 DEF Differ
  <2>3. clicked[w] = count[w] + way
    BY <2>2 DEF ClayInv, CountsOnce, OnTheWay
  <2>4. PICK before \in Nat, counted \in Nat : before = clicked[w] /\ counted = count[w]
    BY <1>3
  <2>5. clicked'[w] = before - (here - hereNext)
    <3>1. clicked'[w] = clicked[w] - (Increments(inbox[s], w) - Increments(kept, w))
      BY <1>2 DEF kept
    <3>2. Increments(kept, w) = hereNext
      BY <1>5, <2>2
    <3> QED BY <2>2, <2>4, <3>1, <3>2
  <2>6. before - (here - hereNext) = counted + wayNext /\ counted + wayNext \in Nat
    <3>1. before = counted + way /\ wayNext + here = way + hereNext
      BY <2>2, <2>3, <2>4
    <3> QED BY <3>1
  <2>7. clicked'[w] = counted + wayNext
    BY <2>5, <2>6
  <2>8. clicked'[w] \in Nat
    BY <2>6, <2>7
  <2>9. counted = count[w] /\ wayNext = Cardinality(OnTheWay(inbox', w))
    BY <2>2, <2>4
  <2>10. clicked'[w] = count[w] + Cardinality(OnTheWay(inbox', w))
    BY <2>7, <2>9
  <2> QED BY <2>8, <2>10
<1>7. clicked' \in [Widgets -> Nat]
  BY <1>2, <1>6
<1>8. /\ socket' \in [Sockets -> {"new", "open", "closed"}] /\ socket'[s] = "closed"
      /\ \A u \in Sockets : u # s => socket'[u] = socket[u]
      /\ outbox' \in [Sockets -> Seq(Frames)] /\ outbox'[s] = << >>
      /\ \A u \in Sockets : u # s => outbox'[u] = outbox[u]
  BY <1>1, <1>3
<1>9. TypeOK'
  BY <1>1, <1>3, <1>5, <1>7, <1>8 DEF TypeOK
<1>10. Tasked'
  BY <1>1 DEF ClayInv, Tasked
<1>11. Fresh'
  <2> SUFFICES ASSUME NEW u \in Sockets, socket'[u] = "new"
               PROVE  task[u].step = "idle" /\ inbox'[u] = << >>
    BY <1>1 DEF Fresh
  <2>1. u # s /\ socket[u] = "new"
    BY <1>8
  <2>2. inbox'[u] = inbox[u]
    BY <1>5, <2>1 DEF SameBut
  <2> QED BY <2>1, <2>2 DEF ClayInv, Fresh
<1>12. NeverAhead'
  <2> SUFFICES ASSUME NEW u \in Sockets, NEW w \in Widgets
               PROVE  \A i \in DOMAIN outbox'[u] : outbox'[u][i].id = w => outbox'[u][i].count <= count[w]
    BY <1>1 DEF ClayInv, NeverAhead
  <2>1. CASE u = s
    BY <1>8, <2>1
  <2>2. CASE u # s
    BY <1>8, <2>2 DEF ClayInv, NeverAhead
  <2> QED BY <2>1, <2>2
<1>13. Reaching'
  <2> SUFFICES ASSUME NEW r \in Sockets, socket'[r] = "open", NEW w \in Widgets
               PROVE  \/ best[r][w] = count[w]
                      \/ \E i \in DOMAIN outbox'[r] : outbox'[r][i] = Update(w, count[w])
                      \/ \E u \in Sockets : Coming(u, r, w)'
    BY <1>1 DEF Reaching, Opened, Update
  <2>1. r # s /\ r \in Opened /\ outbox'[r] = outbox[r]
    BY <1>8 DEF Opened
  <2>2. \A u \in Sockets : Coming(u, r, w) => Coming(u, r, w)'
    BY <1>1 DEF Coming
  <2> QED BY <2>1, <2>2 DEF ClayInv, Reaching
<1>14. CountsOnce'
  BY <1>1, <1>6 DEF CountsOnce, OnTheWay
<1> QED BY <1>9, <1>10, <1>11, <1>12, <1>13, <1>14 DEF ClayInv
-----------------------------------------------------------------------------
LEMMA ClayInit == Init => ClayInv
<1> SUFFICES ASSUME Init PROVE ClayInv
  OBVIOUS
<1>1. Zero \in [Widgets -> Nat] /\ \A w \in Widgets : Zero[w] = 0
  BY DEF Zero
<1>2. Idle \in Tasks /\ Idle.step = "idle" /\ Idle.ids = << >>
  BY DEF Idle, Tasks
<1>3. /\ count = Zero /\ clicked = Zero /\ noise = 0
      /\ socket = [s \in Sockets |-> "new"] /\ task = [s \in Sockets |-> Idle]
      /\ inbox = [s \in Sockets |-> << >>] /\ outbox = [s \in Sockets |-> << >>]
      /\ shown = [s \in Sockets |-> Zero] /\ best = [s \in Sockets |-> Zero]
  BY DEF Init
<1>4. TypeOK
  BY <1>1, <1>2, <1>3 DEF TypeOK
<1>5. Tasked /\ Fresh
  BY <1>2, <1>3 DEF Tasked, Fresh
<1>6. NeverAhead
  BY <1>1, <1>3 DEF NeverAhead
<1>7. Reaching
  BY <1>3 DEF Reaching, Opened
<1>8. CountsOnce
  <2> SUFFICES ASSUME NEW w \in Widgets PROVE clicked[w] = count[w] + Cardinality(OnTheWay(inbox, w))
    BY DEF CountsOnce, OnTheWay
  <2>1. \A s \in Sockets : Positions(inbox[s], w) = {}
    BY <1>3 DEF Positions
  <2>2. OnTheWay(inbox, w) = {}
    BY <2>1 DEF OnTheWay
  <2>3. Cardinality(OnTheWay(inbox, w)) = 0
    BY <2>2, FS_EmptySet
  <2>4. clicked[w] = 0 /\ count[w] = 0
    BY <1>1, <1>3
  <2> QED BY <2>3, <2>4
<1> QED BY <1>4, <1>5, <1>6, <1>7, <1>8 DEF ClayInv

LEMMA ClayStep == ClayInv /\ [Next]_vars => ClayInv'
<1> SUFFICES ASSUME ClayInv, [Next]_vars PROVE ClayInv'
  OBVIOUS
<1>1. CASE Next
  <2>1. PICK s \in Sockets :
          \/ OnOpen(s)
          \/ OnReceive(s)
          \/ Frame(s)
          \/ Broadcast(s)
          \/ \E r \in Sockets : SendTo(s, r)
          \/ ClayTalks(s)
          \/ \E w \in Widgets : Click(s, w)
          \/ Mutter(s)
          \/ Receive(s)
          \/ Leave(s)
    BY <1>1 DEF Next
  <2>2. CASE OnOpen(s)
    BY <2>2, OpenStep
  <2>3. CASE OnReceive(s)
    BY <2>3, ReceiveRequestStep
  <2>4. CASE Frame(s)
    BY <2>4, FrameStep
  <2>5. CASE Broadcast(s)
    BY <2>5, BroadcastStep
  <2>6. CASE \E r \in Sockets : SendTo(s, r)
    BY <2>6, SendStep
  <2>7. CASE ClayTalks(s)
    BY <2>7, ClayTalksStep
  <2>8. CASE \E w \in Widgets : Click(s, w)
    BY <2>8, ClickStep
  <2>9. CASE Mutter(s)
    BY <2>9, MutterStep
  <2>10. CASE Receive(s)
    BY <2>10, ReceiveStep
  <2>11. CASE Leave(s)
    BY <2>11, LeaveStep
  <2> QED BY <2>1, <2>2, <2>3, <2>4, <2>5, <2>6, <2>7, <2>8, <2>9, <2>10, <2>11
<1>2. CASE UNCHANGED vars
  <2>1. UNCHANGED <<count, socket, inbox, task, outbox, shown, best, clicked, noise>>
    BY <1>2 DEF vars
  <2>2. TypeOK' /\ Tasked' /\ Fresh'
    BY <2>1 DEF ClayInv, TypeOK, Tasked, Fresh
  <2>3. NeverAhead' /\ CountsOnce'
    BY <2>1 DEF ClayInv, NeverAhead, CountsOnce
  <2>4. Reaching'
    BY <2>1 DEF ClayInv, Reaching, Opened, Coming, Update
  <2> QED BY <2>2, <2>3, <2>4 DEF ClayInv
<1> QED BY <1>1, <1>2
-----------------------------------------------------------------------------
(***************************************************************************)
(* The theorems.                                                           *)
(***************************************************************************)

\* The inductive invariant: whatever the interleaving of handlers, pages that come and
\* go, and foreign frames, a page that lacks the newest count has it on its wire or in a
\* handler that has still to read it or to send it.
THEOREM ClayInvariant == Spec => []ClayInv
  BY ClayInit, ClayStep, PTL DEF Spec

\* The state atom, the sockets, the queues and the handlers of clay_notebook.clj keep
\* their shapes.
THEOREM ClayTypeOK == Spec => []TypeOK
<1>1. ClayInv => TypeOK
  BY DEF ClayInv
<1> QED BY <1>1, ClayInvariant, PTL

\* Every click is swapped into the atom of its own widget exactly once, or is still on
\* its way, or was lost with its socket.
THEOREM ClayCountsOnce == Spec => []CountsOnce
<1>1. ClayInv => CountsOnce
  BY DEF ClayInv
<1> QED BY <1>1, ClayInvariant, PTL

\* No page shows, and no frame carries, a count that the JVM has not reached or that
\* belongs to another widget.
THEOREM ClayNeverAhead == Spec => []NeverAhead
<1>1. ClayInv => NeverAhead
  BY DEF ClayInv
<1> QED BY <1>1, ClayInvariant, PTL

\* When the handlers and the wires are empty, every open page, the late ones included,
\* has been shown the newest count of every widget.
THEOREM ClayNewestReaches == Spec => []NewestReaches
<1>1. ClayInv => NewestReaches
  <2> SUFFICES ASSUME ClayInv, Quiet, NEW s \in Opened, NEW w \in Widgets
               PROVE  best[s][w] = count[w]
    BY DEF NewestReaches
  <2>1. \A r \in Sockets : task[r].ids = << >>
    BY DEF Quiet, Busy, ClayInv, Tasked
  <2>2. \A r \in Sockets : ~Coming(r, s, w)
    BY <2>1 DEF Coming
  <2>3. outbox[s] = << >>
    BY DEF Quiet
  <2> QED BY <2>2, <2>3 DEF ClayInv, Reaching
<1> QED BY <1>1, ClayInvariant, PTL
=============================================================================
