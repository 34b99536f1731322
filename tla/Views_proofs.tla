---------------------------- MODULE Views_proofs ----------------------------
(***************************************************************************)
(* Proofs about Views: what a view that is registered shows is what the    *)
(* model holds, for any number of views, keys and values, and whatever the *)
(* listeners do to each other.                                             *)
(***************************************************************************)
EXTENDS Views, TLAPS

Entries == UNION {[K -> Values] : K \in SUBSET Keys}
Emissions == [loop : {"emit"}, key : Keys, value : Values, rest : Seq(Views)]
Updates == [loop : {"receive"}, rest : Entries]

\* TypeOK, and what it needs of the stack: at the bottom there may be an update, above
\* it are at most two emissions, and the second announces what a clamp has set.
Types ==
  /\ state \in [Keys -> Values] /\ shown \in [Views -> [Keys -> Values]]
  /\ kind \in [Views -> Kinds] /\ context \in [Views -> BOOLEAN]
  /\ status \in [Views -> {"absent", "initialized", "rendered", "mounted", "removed", "failed"}]
  /\ listeners \in [Keys -> Seq(Views)]
  /\ misled \subseteq Views
  /\ calls \in Seq(Emissions \cup Updates)

Nesting ==
  /\ \A i \in DOMAIN calls : calls[i].loop = "receive" => i = 1
  /\ Len(calls) <= 3
  /\ Len(calls) = 3 => calls[1].loop = "receive"
  /\ Len(calls) = 3 \/ (Len(calls) = 2 /\ calls[1].loop = "emit") => state[Target] = Low

\* A view that has not got as far as registering has not, and none does so twice.
Registered ==
  \A k \in Keys :
    /\ IsInjective(listeners[k])
    /\ \A i \in DOMAIN listeners[k] :
         LET v == listeners[k][i] IN
         status[v] \in IF kind[v] = "clamp" THEN {"initialized", "rendered", "mounted", "failed"}
                       ELSE {"rendered", "mounted", "failed"}

\* Will the emission that runs at depth i still call v?
Awaits(i, v) ==
  /\ i \in DOMAIN calls /\ calls[i].loop = "emit"
  /\ \E j \in DOMAIN calls[i].rest : calls[i].rest[j] = v

PaintsSoon ==
  \A v \in Views : kind[v] = "paint" /\ Listens(v) =>
    shown[v] = state \/ \E i \in DOMAIN calls : Awaits(i, v)

\* The views that ShowsFresh is about.
Shows(v) == kind[v] = "show" /\ Listens(v) /\ v \notin misled

\* Every clamp in the list comes after v.
Ahead(list, v) ==
  \A i, j \in DOMAIN list : i < j /\ list[j] = v => kind[list[i]] # "clamp"

\* No clamp comes before such a view, neither in the lists nor in a loop that runs.
Unclamped ==
  \A v \in Views : kind[v] = "show" /\ v \notin misled =>
    /\ \A k \in Keys : Ahead(listeners[k], v)
    /\ \A i \in DOMAIN calls : calls[i].loop = "emit" => Ahead(calls[i].rest, v)

\* What such a view does not show it will be told, and it is told nothing else: only
\* the innermost emission still has it before it, and announces the key as it is.
ShowsSoon ==
  \A v \in Views : Shows(v) =>
    /\ \A k \in Keys : shown[v][k] = state[k] \/ \E i \in DOMAIN calls : Awaits(i, v) /\ calls[i].key = k
    /\ \A i \in DOMAIN calls : Awaits(i, v) => i = Len(calls) /\ calls[i].value = state[calls[i].key]

ViewsInv == Types /\ Nesting /\ Registered /\ PaintsSoon /\ Unclamped /\ ShowsSoon
-----------------------------------------------------------------------------
(***************************************************************************)
(* Induction, and what a filter keeps.                                     *)
(***************************************************************************)
WF == INSTANCE WellFoundedInduction

\* A set of naturals that is not empty has a least member.
LEMMA LeastNat ==
  ASSUME NEW T \in SUBSET Nat, T # {}
  PROVE  \E n \in T : \A m \in T : n <= m
<1> DEFINE R == WF!OpToRel(<, Nat)
<1>1. WF!IsWellFoundedOn(R, Nat)
  BY WF!NatLessThanWellFounded
<1>2. \E x \in T : \A y \in T : ~(<<y, x>> \in R)
  <2> HIDE DEF R
  <2> QED BY <1>1, WF!WFMin
<1>3. \A x \in T, y \in T : (<<y, x>> \in R) <=> y < x
  BY DEF WF!OpToRel
<1> HIDE DEF R
<1>4. PICK x \in T : \A y \in T : ~(<<y, x>> \in R)
  BY <1>2
<1>5. \A y \in T : ~(y < x)
  BY <1>3, <1>4
<1>6. \A y \in T : x <= y
  BY <1>5
<1> QED BY <1>6

\* A set of naturals that has 0 and the successor of each of its members has them all.
LEMMA SetInduction ==
  ASSUME NEW T \in SUBSET Nat, 0 \in T, \A n \in T : n + 1 \in T
  PROVE  T = Nat
<1> DEFINE U == Nat \ T
<1>1. CASE U = {}
  BY <1>1
<1>2. CASE U # {}
  <2>1. PICK n \in U : \A m \in U : n <= m
    BY <1>2, LeastNat
  <2>2. n # 0 /\ n - 1 \in Nat /\ n - 1 \notin U
    BY <2>1
  <2>3. (n - 1) + 1 \in T
    BY <2>2
  <2> QED BY <2>1, <2>3
<1> QED BY <1>1, <1>2

\* What the filter does with the n-th member of a list.
Turn(list, those, g, n) ==
  IF n = 0 THEN << >>
  ELSE IF list[n] \in those THEN Append(g[n - 1], list[n]) ELSE g[n - 1]

\* The filter's recursion has a solution.
LEMMA Turns ==
  ASSUME NEW list, NEW those
  PROVE  \A m \in Nat : \E g : g = [n \in 0 .. m |-> Turn(list, those, g, n)]
<1> DEFINE T == {m \in Nat : \E g : g = [n \in 0 .. m |-> Turn(list, those, g, n)]}
<1>1. 0 \in T
  <2> DEFINE g == [n \in 0 .. 0 |-> << >>]
  <2>1. \A n \in 0 .. 0 : Turn(list, those, g, n) = << >>
    BY DEF Turn
  <2> HIDE DEF g
  <2>2. g = [n \in 0 .. 0 |-> Turn(list, those, g, n)]
    BY <2>1 DEF g
  <2> QED BY <2>2
<1>2. ASSUME NEW m \in T PROVE m + 1 \in T
  <2>1. PICK h : h = [n \in 0 .. m |-> Turn(list, those, h, n)]
    OBVIOUS
  <2> DEFINE g == [n \in 0 .. m + 1 |-> IF n <= m THEN h[n] ELSE Turn(list, those, h, m + 1)]
  <2>2. \A n \in 0 .. m + 1 : Turn(list, those, g, n) = Turn(list, those, h, n)
    BY DEF Turn
  <2>3. \A n \in 0 .. m + 1 : g[n] = Turn(list, those, h, n)
    <3>1. \A n \in 0 .. m : h[n] = Turn(list, those, h, n)
      BY <2>1
    <3>2. \A n \in 0 .. m + 1 : n \in 0 .. m \/ n = m + 1
      OBVIOUS
    <3> QED BY <3>1, <3>2
  <2>4. g = [n \in 0 .. m + 1 |-> Turn(list, those, g, n)]
    <3>1. \A n \in 0 .. m + 1 : g[n] = Turn(list, those, g, n)
      BY <2>2, <2>3
    <3> QED BY <3>1, Zenon
  <2> HIDE DEF g
  <2> QED BY <2>4
<1> HIDE DEF T
<1>3. T = Nat
  BY <1>1, <1>2, SetInduction DEF T
<1> QED BY <1>3 DEF T

LEMMA FilterIs ==
  ASSUME NEW V, NEW list \in Seq(V), NEW those
  PROVE  \E g : /\ g = [n \in 0 .. Len(list) |-> Turn(list, those, g, n)]
                /\ Filter(list, those) = g[Len(list)]
<1> DEFINE Solves(f) == f = [n \in 0 .. Len(list) |-> Turn(list, those, f, n)]
           g == CHOOSE f : Solves(f)
<1>0. Len(list) \in Nat
  OBVIOUS
<1>1. \E f : Solves(f)
  BY <1>0, Turns, Zenon
<1>3. Filter(list, those) = g[Len(list)]
  BY DEF Filter, Turn
<1> HIDE DEF Solves
<1>2. Solves(g)
  BY <1>1, Zenon
<1> HIDE DEF g
<1> QED BY <1>2, <1>3 DEF Solves

\* The list new has only members of old, and in the order in which old has them.
Thins(new, old) ==
  /\ \A i \in DOMAIN new : \E a \in DOMAIN old : old[a] = new[i]
  /\ \A i, j \in DOMAIN new : i < j =>
       \E a, b \in DOMAIN old : a < b /\ old[a] = new[i] /\ old[b] = new[j]

LEMMA Appended ==
  ASSUME NEW S, NEW q \in Seq(S), NEW m \in S
  PROVE  /\ Append(q, m) \in Seq(S) /\ Len(q) \in Nat /\ Len(Append(q, m)) = Len(q) + 1
         /\ DOMAIN q = 1 .. Len(q) /\ DOMAIN Append(q, m) = 1 .. Len(q) + 1
         /\ \A i \in 1 .. Len(q) : Append(q, m)[i] = q[i]
         /\ Append(q, m)[Len(q) + 1] = m
  OBVIOUS

LEMMA FilterThins ==
  ASSUME NEW V, NEW list \in Seq(V), NEW those
  PROVE  Filter(list, those) \in Seq(V) /\ Thins(Filter(list, those), list)
<1> DEFINE L == Len(list)
           Good(q, n) ==
             /\ q \in Seq(V)
             /\ \A i \in DOMAIN q : \E a \in 1 .. n : list[a] = q[i]
             /\ \A i, j \in DOMAIN q : i < j =>
                  \E a, b \in 1 .. n : a < b /\ list[a] = q[i] /\ list[b] = q[j]
<1>1. PICK g : /\ g = [n \in 0 .. L |-> Turn(list, those, g, n)]
               /\ Filter(list, those) = g[L]
  BY FilterIs
<1>2. L \in Nat /\ DOMAIN list = 1 .. L /\ \A n \in 1 .. L : list[n] \in V
  OBVIOUS
<1>3. \A n \in 0 .. L : g[n] = Turn(list, those, g, n)
  BY <1>1
<1> HIDE DEF L
<1> DEFINE T == {n \in Nat : n <= L => Good(g[n], n)}
<1>4. 0 \in T
  <2>1. g[0] = << >>
    BY <1>2, <1>3 DEF Turn
  <2>2. Good(<< >>, 0)
    OBVIOUS
  <2> HIDE DEF Good
  <2> QED BY <2>1, <2>2
<1>5. ASSUME NEW n \in T PROVE n + 1 \in T
  <2> SUFFICES ASSUME n + 1 <= L PROVE Good(g[n + 1], n + 1)
    OBVIOUS
  <2>1. n \in Nat /\ n + 1 \in 1 .. L /\ n + 1 \in 0 .. L /\ Good(g[n], n)
    BY <1>2
  <2>2. g[n + 1] = IF list[n + 1] \in those THEN Append(g[n], list[n + 1]) ELSE g[n]
    <3>1. n + 1 # 0 /\ (n + 1) - 1 = n
      BY <2>1
    <3> QED BY <1>3, <2>1, <3>1 DEF Turn
  <2> DEFINE q == g[n]
             r == g[n + 1]
             v == list[n + 1]
  <2>3. v \in V
    BY <1>2, <2>1
  <2>4. CASE v \notin those
    <3>1. r = q
      BY <2>2, <2>4
    <3>2. \A a \in 1 .. n : a \in 1 .. n + 1
      BY <2>1
    <3> HIDE DEF q, r
    <3>3. Good(q, n)
      BY <2>1 DEF q
    <3>4. Good(q, n + 1)
      BY <3>2, <3>3
    <3> QED BY <3>1, <3>4 DEF r
  <2>5. CASE v \in those
    <3>1. r = Append(q, v) /\ Good(q, n)
      BY <2>1, <2>2, <2>5
    <3> HIDE DEF q, r, v
    <3>2. /\ r \in Seq(V) /\ Len(q) \in Nat
          /\ DOMAIN q = 1 .. Len(q) /\ DOMAIN r = 1 .. Len(q) + 1
          /\ \A i \in 1 .. Len(q) : r[i] = q[i]
          /\ r[Len(q) + 1] = v
      BY <2>3, <3>1, Appended
    <3>3. v = list[n + 1] /\ n + 1 \in 1 .. n + 1 /\ \A a \in 1 .. n : a \in 1 .. n + 1 /\ a < n + 1
      BY <2>1 DEF v
    <3>4. \A i \in DOMAIN r : \E a \in 1 .. n + 1 : list[a] = r[i]
      BY <3>1, <3>2, <3>3
    <3>5. \A i, j \in DOMAIN r : i < j =>
            \E a, b \in 1 .. n + 1 : a < b /\ list[a] = r[i] /\ list[b] = r[j]
      <4> SUFFICES ASSUME NEW i \in DOMAIN r, NEW j \in DOMAIN r, i < j
                   PROVE  \E a, b \in 1 .. n + 1 : a < b /\ list[a] = r[i] /\ list[b] = r[j]
        OBVIOUS
      <4>1. i \in DOMAIN q /\ r[i] = q[i]
        BY <3>2
      <4>2. CASE j \in DOMAIN q
        <5>1. PICK a \in 1 .. n, b \in 1 .. n : a < b /\ list[a] = q[i] /\ list[b] = q[j]
          BY <3>1, <4>1, <4>2
        <5> QED BY <3>2, <3>3, <4>1, <4>2, <5>1
      <4>3. CASE j \notin DOMAIN q
        <5>1. r[j] = list[n + 1]
          BY <3>2, <3>3, <4>3
        <5>2. PICK a \in 1 .. n : list[a] = q[i]
          BY <3>1, <4>1
        <5> QED BY <3>3, <4>1, <5>1, <5>2
      <4> QED BY <4>2, <4>3
    <3> QED BY <3>2, <3>4, <3>5 DEF r
  <2> QED BY <2>4, <2>5
<1> HIDE DEF T
<1>6. T = Nat
  <2>1. T \in SUBSET Nat
    BY DEF T
  <2> QED BY <1>4, <1>5, <2>1, SetInduction
<1>7. Good(g[L], L)
  <2> HIDE DEF Good
  <2> QED BY <1>2, <1>6 DEF T
<1> DEFINE q == Filter(list, those)
<1>8. Good(q, L)
  <2> HIDE DEF Good
  <2> QED BY <1>1, <1>7
<1> HIDE DEF q
<1>9. q \in Seq(V) /\ Thins(q, list)
  <2>1. q \in Seq(V) /\ \A i \in DOMAIN q : \E a \in DOMAIN list : list[a] = q[i]
    BY <1>2, <1>8
  <2>2. \A i, j \in DOMAIN q : i < j =>
          \E a, b \in DOMAIN list : a < b /\ list[a] = q[i] /\ list[b] = q[j]
    <3> SUFFICES ASSUME NEW i \in DOMAIN q, NEW j \in DOMAIN q, i < j
                 PROVE  \E a, b \in DOMAIN list : a < b /\ list[a] = q[i] /\ list[b] = q[j]
      OBVIOUS
    <3>1. PICK a \in 1 .. L, b \in 1 .. L : a < b /\ list[a] = q[i] /\ list[b] = q[j]
      BY <1>8
    <3> QED BY <1>2, <3>1
  <2> QED BY <2>1, <2>2 DEF Thins
<1> QED BY <1>9 DEF q
LEMMA ThinKeeps ==
  ASSUME NEW old \in Seq(Views), NEW new \in Seq(Views), Thins(new, old)
  PROVE  /\ IsInjective(old) => IsInjective(new)
         /\ \A v \in Views : Ahead(old, v) => Ahead(new, v)
         /\ \A v \in Views : Contains(new, v) => Contains(old, v)
<1>1. ASSUME IsInjective(old) PROVE IsInjective(new)
  <2> SUFFICES ASSUME NEW i \in DOMAIN new, NEW j \in DOMAIN new, i < j, new[i] = new[j]
               PROVE  FALSE
    BY DEF IsInjective
  <2>1. PICK a \in DOMAIN old, b \in DOMAIN old : a < b /\ old[a] = new[i] /\ old[b] = new[j]
    BY DEF Thins
  <2> QED BY <1>1, <2>1 DEF IsInjective
<1>2. ASSUME NEW v \in Views, Ahead(old, v) PROVE Ahead(new, v)
  <2> SUFFICES ASSUME NEW i \in DOMAIN new, NEW j \in DOMAIN new, i < j, new[j] = v
               PROVE  kind[new[i]] # "clamp"
    BY DEF Ahead
  <2>1. PICK a \in DOMAIN old, b \in DOMAIN old : a < b /\ old[a] = new[i] /\ old[b] = new[j]
    BY DEF Thins
  <2> QED BY <1>2, <2>1 DEF Ahead
<1>3. ASSUME NEW v \in Views, Contains(new, v) PROVE Contains(old, v)
  <2>1. PICK i \in DOMAIN new : new[i] = v
    BY <1>3 DEF Contains
  <2>2. PICK a \in DOMAIN old : old[a] = v
    BY <2>1 DEF Thins
  <2> QED BY <2>2 DEF Contains
<1> QED BY <1>1, <1>2, <1>3

LEMMA ThinsTrivially ==
  ASSUME NEW list \in Seq(Views)
  PROVE  Thins(list, list) /\ Thins(<< >>, list)
  BY DEF Thins

\* When listeners only go, nobody starts to listen and the order stays.
LEMMA ListsThin ==
  ASSUME ViewsInv, listeners' \in [Keys -> Seq(Views)],
         \A k \in Keys : Thins(listeners'[k], listeners[k]), UNCHANGED <<kind, misled>>
  PROVE  /\ \A v \in Views : Listens(v)' => Listens(v)
         /\ \A v \in Views : Shows(v)' => Shows(v)
         /\ \A k \in Keys : IsInjective(listeners'[k])
         /\ \A v \in Views, k \in Keys :
              kind[v] = "show" /\ v \notin misled => Ahead(listeners'[k], v)
<1>1. \A k \in Keys : /\ listeners[k] \in Seq(Views) /\ listeners'[k] \in Seq(Views)
                      /\ IsInjective(listeners[k])
  BY DEF ViewsInv, Types, Registered
<1>2. \A v \in Views : Listens(v)' => Listens(v)
  BY <1>1, ThinKeeps DEF Listens
<1>3. \A k \in Keys : IsInjective(listeners'[k])
  BY <1>1, ThinKeeps
<1>4. \A v \in Views, k \in Keys : kind[v] = "show" /\ v \notin misled => Ahead(listeners[k], v)
  BY DEF ViewsInv, Unclamped
<1>5. \A v \in Views, k \in Keys : kind[v] = "show" /\ v \notin misled => Ahead(listeners'[k], v)
  BY <1>1, <1>4, ThinKeeps
<1> QED BY <1>2, <1>3, <1>5 DEF Shows

Allowed(v) == IF kind[v] = "clamp" THEN {"initialized", "rendered", "mounted", "failed"}
              ELSE {"rendered", "mounted", "failed"}

\* A step that only takes listeners away.
LEMMA ThinStep ==
  ASSUME ViewsInv, listeners' \in [Keys -> Seq(Views)],
         \A k \in Keys : Thins(listeners'[k], listeners[k]),
         UNCHANGED <<state, kind, context, calls, shown, misled>>,
         status' \in [Views -> {"absent", "initialized", "rendered", "mounted", "removed", "failed"}],
         \A k \in Keys : \A i \in DOMAIN listeners'[k] :
           status[listeners'[k][i]] \in Allowed(listeners'[k][i]) => status'[listeners'[k][i]] \in Allowed(listeners'[k][i])
  PROVE  ViewsInv'
<1>1. Types' /\ Nesting'
  BY DEF ViewsInv, Types, Nesting
<1>2. /\ \A v \in Views : Listens(v)' => Listens(v)
      /\ \A v \in Views : Shows(v)' => Shows(v)
      /\ \A k \in Keys : IsInjective(listeners'[k])
      /\ \A v \in Views, k \in Keys : kind[v] = "show" /\ v \notin misled => Ahead(listeners'[k], v)
  BY ListsThin
<1>3. Registered'
  <2>1. \A k \in Keys : \A i \in DOMAIN listeners'[k] : status[listeners'[k][i]] \in Allowed(listeners'[k][i])
    BY DEF Thins, ViewsInv, Registered, Allowed
  <2>2. \A k \in Keys : \A i \in DOMAIN listeners'[k] : status'[listeners'[k][i]] \in Allowed(listeners'[k][i])
    BY <2>1
  <2> QED BY <1>2, <2>2 DEF Registered, Allowed
<1>4. PaintsSoon'
  BY <1>2 DEF ViewsInv, PaintsSoon, Awaits
<1>5. Unclamped'
  BY <1>2 DEF ViewsInv, Unclamped, Ahead
<1>6. ShowsSoon'
  BY <1>2 DEF ViewsInv, ShowsSoon, Awaits
<1> QED BY <1>1, <1>3, <1>4, <1>5, <1>6 DEF ViewsInv

LEMMA SettleStep ==
  ASSUME ViewsInv, NEW v \in Views, Settle(v)
  PROVE  ViewsInv'
<1>1. /\ status[v] \in {"initialized", "rendered"} /\ UNCHANGED <<state, kind, context, listeners, calls, shown, misled>>
      /\ \/ status' = [status EXCEPT ![v] = "mounted"] /\ status[v] = "rendered"
         \/ status' = [status EXCEPT ![v] = "failed"]
  BY DEF Settle
<1>2. /\ listeners' \in [Keys -> Seq(Views)] /\ \A k \in Keys : listeners'[k] \in Seq(Views) /\ listeners'[k] = listeners[k]
      /\ status \in [Views -> {"absent", "initialized", "rendered", "mounted", "removed", "failed"}]
  BY <1>1 DEF ViewsInv, Types
<1>3. \A k \in Keys : Thins(listeners'[k], listeners[k])
  BY <1>2, ThinsTrivially
<1>4. status' \in [Views -> {"absent", "initialized", "rendered", "mounted", "removed", "failed"}]
      /\ \A u \in Views : status[u] \in Allowed(u) => status'[u] \in Allowed(u)
  BY <1>1, <1>2 DEF Allowed
<1>5. \A k \in Keys : \A i \in DOMAIN listeners'[k] : listeners'[k][i] \in Views
  BY <1>2
<1> QED BY <1>1, <1>2, <1>3, <1>4, <1>5, ThinStep

LEMMA UnmountStep ==
  ASSUME ViewsInv, NEW v \in Views, Unmount(v)
  PROVE  ViewsInv'
<1>1. /\ status' = [status EXCEPT ![v] = "removed"] /\ listeners' = [k \in Keys |-> << >>]
      /\ UNCHANGED <<state, kind, context, calls, shown, misled>>
  BY DEF Unmount, Cleanup, OffAll, NoListeners
<1>2. \A k \in Keys : listeners[k] \in Seq(Views)
  BY DEF ViewsInv, Types
<1>3. listeners' \in [Keys -> Seq(Views)] /\ \A k \in Keys : listeners'[k] = << >> /\ DOMAIN listeners'[k] = {}
  BY <1>1
<1>4. \A k \in Keys : Thins(listeners'[k], listeners[k])
  BY <1>2, <1>3, ThinsTrivially
<1>5. status' \in [Views -> {"absent", "initialized", "rendered", "mounted", "removed", "failed"}]
  BY <1>1 DEF ViewsInv, Types
<1> QED BY <1>1, <1>3, <1>4, <1>5, ThinStep

LEMMA UnsubscribeStep ==
  ASSUME ViewsInv, NEW v \in Views, Unsubscribe(v)
  PROVE  ViewsInv'
<1>1. PICK k \in Keys : Off(v, k)
  BY DEF Unsubscribe
<1>2. UNCHANGED <<state, kind, context, status, calls, shown, misled>>
  BY DEF Unsubscribe
<1> DEFINE those == {u \in Views : u # v /\ ~(context[v] /\ context[u])}
<1>3. /\ listeners \in [Keys -> Seq(Views)] /\ listeners' = [listeners EXCEPT ![k] = Filter(@, those)]
  BY <1>1 DEF Off, ViewsInv, Types
<1> HIDE DEF those
<1>4. \A x \in Keys : listeners[x] \in Seq(Views)
  BY <1>3
<1>5. Filter(listeners[k], those) \in Seq(Views) /\ Thins(Filter(listeners[k], those), listeners[k])
  BY <1>4, FilterThins
<1>6. /\ listeners' \in [Keys -> Seq(Views)]
      /\ \A x \in Keys : listeners'[x] = IF x = k THEN Filter(listeners[k], those) ELSE listeners[x]
  BY <1>3, <1>5
<1>7. \A x \in Keys : Thins(listeners'[x], listeners[x])
  BY <1>4, <1>5, <1>6, ThinsTrivially
<1>8. status' \in [Views -> {"absent", "initialized", "rendered", "mounted", "removed", "failed"}] /\ status' = status
  BY <1>2 DEF ViewsInv, Types
<1> QED BY <1>2, <1>6, <1>7, <1>8, ThinStep
\* A view that registers comes last in every list.
LEMMA OnLists ==
  ASSUME ViewsInv, NEW v \in Views, status[v] \notin Allowed(v), On(v)
  PROVE  /\ listeners' \in [Keys -> Seq(Views)]
         /\ \A k \in Keys : /\ IsInjective(listeners'[k])
                            /\ \A i \in DOMAIN listeners'[k] :
                                 listeners'[k][i] = v \/ \E j \in DOMAIN listeners[k] : listeners'[k][i] = listeners[k][j]
         /\ \A u \in Views : u # v /\ Listens(u)' => Listens(u)
         /\ \A u \in Views, k \in Keys : u # v /\ Ahead(listeners[k], u) => Ahead(listeners'[k], u)
         /\ ~Clamped => \A k \in Keys : Ahead(listeners'[k], v)
<1>1. /\ listeners \in [Keys -> Seq(Views)]
      /\ \A k \in Keys : listeners[k] \in Seq(Views) /\ IsInjective(listeners[k])
      /\ \A k \in Keys : \A i \in DOMAIN listeners[k] : listeners[k][i] # v
  BY DEF ViewsInv, Types, Registered, Allowed
<1>2. /\ listeners' \in [Keys -> Seq(Views)]
      /\ \A k \in Keys : listeners'[k] = Append(listeners[k], v)
  BY <1>1 DEF On
<1>3. ASSUME NEW k \in Keys
      PROVE  LET n == Len(listeners[k]) IN
             /\ n \in Nat /\ DOMAIN listeners[k] = 1 .. n /\ DOMAIN listeners'[k] = 1 .. n + 1
             /\ \A i \in 1 .. n : listeners'[k][i] = listeners[k][i]
             /\ listeners'[k][n + 1] = v /\ Len(listeners'[k]) = n + 1
  BY <1>1, <1>2, Appended
<1>4. ASSUME NEW k \in Keys
      PROVE  /\ IsInjective(listeners'[k])
             /\ \A i \in DOMAIN listeners'[k] :
                  listeners'[k][i] = v \/ \E j \in DOMAIN listeners[k] : listeners'[k][i] = listeners[k][j]
  <2>1. /\ IsInjective(listeners[k])
        /\ \A i \in DOMAIN listeners[k] : listeners[k][i] # v
    BY <1>1
  <2> DEFINE n == Len(listeners[k])
             old == listeners[k]
             new == listeners'[k]
  <2>2. /\ n \in Nat /\ DOMAIN old = 1 .. n /\ DOMAIN new = 1 .. n + 1
        /\ \A i \in 1 .. n : new[i] = old[i]
        /\ new[n + 1] = v
    BY <1>3
  <2>3. IsInjective(old) /\ \A i \in DOMAIN old : old[i] # v
    BY <2>1
  <2> HIDE DEF n, old, new
  <2>4. \A i \in DOMAIN new : i \in DOMAIN old \/ i = n + 1
    BY <2>2
  <2>5. IsInjective(new)
    BY <2>2, <2>3, <2>4 DEF IsInjective
  <2>6. \A i \in DOMAIN new : new[i] = v \/ \E j \in DOMAIN old : new[i] = old[j]
    BY <2>2, <2>4
  <2> QED BY <2>5, <2>6 DEF old, new
<1>5. ASSUME NEW u \in Views, u # v, Listens(u)' PROVE Listens(u)
  BY <1>3, <1>5 DEF Listens, Contains
<1>6. ASSUME NEW u \in Views, NEW k \in Keys, u # v, Ahead(listeners[k], u)
      PROVE  Ahead(listeners'[k], u)
  BY <1>3, <1>6 DEF Ahead
<1>7. ASSUME ~Clamped, NEW k \in Keys PROVE Ahead(listeners'[k], v)
  <2>1. \A i \in DOMAIN listeners[k] : kind[listeners[k][i]] # "clamp"
    <3>1. \A i \in DOMAIN listeners[k] : listeners[k][i] \in Views /\ Contains(listeners[k], listeners[k][i])
      BY <1>1, <1>3 DEF Contains
    <3> QED BY <1>7, <3>1 DEF Clamped
  <2> QED BY <1>3, <2>1 DEF Ahead
<1> QED BY <1>2, <1>4, <1>5, <1>6, <1>7

LEMMA InitializeStep ==
  ASSUME ViewsInv, NEW v \in Views, Initialize(v)
  PROVE  ViewsInv'
<1>1. /\ status[v] = "absent" /\ status' = [status EXCEPT ![v] = "initialized"]
      /\ UNCHANGED <<state, kind, context, calls, shown, misled>>
  BY DEF Initialize
<1>2. /\ listeners \in [Keys -> Seq(Views)] /\ \A k \in Keys : listeners[k] \in Seq(Views)
      /\ status' \in [Views -> {"absent", "initialized", "rendered", "mounted", "removed", "failed"}]
      /\ \A u \in Views : u # v => status'[u] = status[u]
      /\ status'[v] = "initialized"
  BY <1>1 DEF ViewsInv, Types
<1>3. CASE kind[v] # "clamp"
  <2>1. listeners' = listeners
    BY <1>3 DEF Initialize
  <2>2. \A k \in Keys : Thins(listeners'[k], listeners[k])
    BY <1>2, <2>1, ThinsTrivially
  <2>3. \A u \in Views : status[u] \in Allowed(u) => status'[u] \in Allowed(u)
    BY <1>1, <1>2 DEF Allowed
  <2>4. \A k \in Keys : \A i \in DOMAIN listeners'[k] : listeners'[k][i] \in Views
    BY <1>2, <2>1
  <2> QED BY <1>1, <1>2, <2>1, <2>2, <2>3, <2>4, ThinStep
<1>4. CASE kind[v] = "clamp"
  <2>1. On(v) /\ status[v] \notin Allowed(v)
    BY <1>1, <1>4 DEF Initialize, Allowed
  <2>2. /\ listeners' \in [Keys -> Seq(Views)]
        /\ \A k \in Keys : /\ IsInjective(listeners'[k])
                           /\ \A i \in DOMAIN listeners'[k] :
                                listeners'[k][i] = v \/ \E j \in DOMAIN listeners[k] : listeners'[k][i] = listeners[k][j]
        /\ \A u \in Views : u # v /\ Listens(u)' => Listens(u)
        /\ \A u \in Views, k \in Keys : u # v /\ Ahead(listeners[k], u) => Ahead(listeners'[k], u)
    BY <2>1, OnLists
  <2>3. Types' /\ Nesting'
    BY <1>1, <1>2, <2>2 DEF ViewsInv, Types, Nesting
  <2>4. Registered'
    <3>1. \A k \in Keys : \A j \in DOMAIN listeners[k] : listeners[k][j] \in Views /\ status[listeners[k][j]] \in Allowed(listeners[k][j])
      BY <1>2 DEF ViewsInv, Registered, Allowed
    <3>2. \A u \in Views : status[u] \in Allowed(u) => status'[u] \in Allowed(u)
      BY <1>1, <1>2 DEF Allowed
    <3>3. status'[v] \in Allowed(v)
      BY <1>2, <1>4 DEF Allowed
    <3>4. \A k \in Keys : \A i \in DOMAIN listeners'[k] : status'[listeners'[k][i]] \in Allowed(listeners'[k][i])
      BY <2>2, <3>1, <3>2, <3>3
    <3> QED BY <1>1, <2>2, <3>4 DEF Registered, Allowed
  <2>5. PaintsSoon'
    BY <1>1, <1>4, <2>2 DEF ViewsInv, PaintsSoon, Awaits
  <2>6. Unclamped'
    BY <1>1, <1>4, <2>2 DEF ViewsInv, Unclamped, Ahead
  <2>7. ShowsSoon'
    BY <1>1, <1>4, <2>2 DEF ViewsInv, ShowsSoon, Shows, Awaits
  <2> QED BY <2>3, <2>4, <2>5, <2>6, <2>7 DEF ViewsInv
<1> QED BY <1>3, <1>4

LEMMA RenderStep ==
  ASSUME ViewsInv, NEW v \in Views, Render(v)
  PROVE  ViewsInv'
<1>1. /\ calls = << >> /\ calls' = << >> /\ status[v] = "initialized" /\ status' = [status EXCEPT ![v] = "rendered"]
      /\ UNCHANGED <<state, kind, context, calls>>
  BY DEF Render, Idle
<1>2. /\ listeners \in [Keys -> Seq(Views)] /\ \A k \in Keys : listeners[k] \in Seq(Views)
      /\ status' \in [Views -> {"absent", "initialized", "rendered", "mounted", "removed", "failed"}]
      /\ \A u \in Views : u # v => status'[u] = status[u]
      /\ status'[v] = "rendered"
      /\ shown \in [Views -> [Keys -> Values]] /\ state \in [Keys -> Values] /\ misled \subseteq Views
  BY <1>1 DEF ViewsInv, Types
<1>3. \A u \in Views : status[u] \in Allowed(u) => status'[u] \in Allowed(u)
  BY <1>2 DEF Allowed
<1>4. CASE kind[v] = "clamp"
  <2>1. listeners' = listeners /\ UNCHANGED <<shown, misled>>
    BY <1>4 DEF Render
  <2>2. \A k \in Keys : Thins(listeners'[k], listeners[k])
    BY <1>2, <2>1, ThinsTrivially
  <2>3. \A k \in Keys : \A i \in DOMAIN listeners'[k] : listeners'[k][i] \in Views
    BY <1>2, <2>1
  <2> QED BY <1>1, <1>2, <1>3, <2>1, <2>2, <2>3, ThinStep
<1>5. CASE kind[v] # "clamp"
  <2>1. On(v) /\ status[v] \notin Allowed(v)
    BY <1>1, <1>5 DEF Render, Allowed
  <2>2. /\ listeners' \in [Keys -> Seq(Views)]
        /\ \A k \in Keys : /\ IsInjective(listeners'[k])
                           /\ \A i \in DOMAIN listeners'[k] :
                                listeners'[k][i] = v \/ \E j \in DOMAIN listeners[k] : listeners'[k][i] = listeners[k][j]
        /\ \A u \in Views : u # v /\ Listens(u)' => Listens(u)
        /\ \A u \in Views, k \in Keys : u # v /\ Ahead(listeners[k], u) => Ahead(listeners'[k], u)
        /\ ~Clamped => \A k \in Keys : Ahead(listeners'[k], v)
    BY <2>1, OnLists
  <2>3. /\ shown' = [shown EXCEPT ![v] = state]
        /\ misled' = IF Clamped THEN misled \cup {v} ELSE misled
    BY <1>5 DEF Render
  <2>4. /\ shown' \in [Views -> [Keys -> Values]] /\ shown'[v] = state
        /\ \A u \in Views : u # v => shown'[u] = shown[u]
        /\ misled' \subseteq Views /\ misled \subseteq misled'
        /\ v \notin misled' => ~Clamped
    BY <1>2, <2>3
  <2>5. Types' /\ Nesting'
    BY <1>1, <1>2, <2>2, <2>4 DEF ViewsInv, Types, Nesting
  <2>6. Registered'
    <3>1. \A k \in Keys : \A j \in DOMAIN listeners[k] : listeners[k][j] \in Views /\ status[listeners[k][j]] \in Allowed(listeners[k][j])
      BY <1>2 DEF ViewsInv, Registered, Allowed
    <3>2. status'[v] \in Allowed(v)
      BY <1>2, <1>5 DEF Allowed
    <3>3. \A k \in Keys : \A i \in DOMAIN listeners'[k] : status'[listeners'[k][i]] \in Allowed(listeners'[k][i])
      BY <1>3, <2>2, <3>1, <3>2
    <3> QED BY <1>1, <2>2, <3>3 DEF Registered, Allowed
  <2>7. PaintsSoon'
    <3> SUFFICES ASSUME NEW u \in Views, kind[u] = "paint", Listens(u)' PROVE shown'[u] = state
      BY <1>1 DEF PaintsSoon
    <3>1. CASE u = v
      BY <2>4, <3>1
    <3>2. CASE u # v
      <4>1. Listens(u) /\ shown'[u] = shown[u]
        BY <2>2, <2>4, <3>2
      <4>2. DOMAIN calls = {}
        BY <1>1
      <4> QED BY <4>1, <4>2 DEF ViewsInv, PaintsSoon
    <3> QED BY <3>1, <3>2
  <2>8. Unclamped'
    <3> SUFFICES ASSUME NEW u \in Views, kind[u] = "show", u \notin misled', NEW k \in Keys
                 PROVE  Ahead(listeners'[k], u)
      BY <1>1 DEF Unclamped, Ahead
    <3> QED BY <2>2, <2>4 DEF ViewsInv, Unclamped
  <2>9. ShowsSoon'
    <3> SUFFICES ASSUME NEW u \in Views, kind[u] = "show", u \notin misled', Listens(u)', NEW k \in Keys
                 PROVE  shown'[u][k] = state[k]
      BY <1>1 DEF ShowsSoon, Shows, Awaits
    <3> QED BY <1>1, <2>2, <2>4 DEF ViewsInv, ShowsSoon, Shows
  <2> QED BY <2>5, <2>6, <2>7, <2>8, <2>9 DEF ViewsInv
<1> QED BY <1>4, <1>5

-----------------------------------------------------------------------------
(***************************************************************************)
(* The loops.                                                              *)
(***************************************************************************)

\* The innermost loop is the last.
LEMMA TopFrame ==
  ASSUME ViewsInv, ~Idle
  PROVE  /\ calls \in Seq(Emissions \cup Updates) /\ Len(calls) \in Nat \ {0} /\ DOMAIN calls = 1 .. Len(calls)
         /\ Top = calls[Len(calls)] /\ Top \in Emissions \cup Updates
         /\ Top.loop = "emit" => Top \in Emissions
         /\ Top.loop = "receive" => Top \in Updates /\ Len(calls) = 1
<1>1. calls \in Seq(Emissions \cup Updates) /\ calls # << >>
  BY DEF ViewsInv, Types, Idle
<1>2. Len(calls) \in Nat \ {0} /\ DOMAIN calls = 1 .. Len(calls) /\ calls[Len(calls)] \in Emissions \cup Updates
  BY <1>1
<1>3. Top = calls[Len(calls)]
  BY DEF Top
<1>4. /\ Top.loop = "emit" => Top \in Emissions
      /\ Top.loop = "receive" => Top \in Updates
  BY <1>2, <1>3 DEF Emissions, Updates
<1>5. Top.loop = "receive" => Len(calls) = 1
  BY <1>2, <1>3 DEF ViewsInv, Nesting
<1> QED BY <1>1, <1>2, <1>3, <1>4, <1>5

\* The loops q are those that run, further on.
Follows(q) ==
  /\ q \in Seq(Emissions \cup Updates) /\ Len(q) = Len(calls)
  /\ \A i \in DOMAIN calls :
       /\ q[i].loop = calls[i].loop
       /\ calls[i].loop = "emit" => /\ q[i].key = calls[i].key /\ q[i].value = calls[i].value
                                    /\ Thins(q[i].rest, calls[i].rest)

LEMMA EmissionType ==
  ASSUME ViewsInv, NEW i \in DOMAIN calls
  PROVE  /\ calls[i] \in Emissions \cup Updates
         /\ calls[i].loop = "emit" => /\ calls[i] \in Emissions /\ calls[i].rest \in Seq(Views)
                                      /\ calls[i].key \in Keys /\ calls[i].value \in Values
<1>1. calls[i] \in Emissions \cup Updates
  BY DEF ViewsInv, Types
<1> QED BY <1>1 DEF Emissions, Updates

LEMMA FollowsType ==
  ASSUME NEW q \in Seq(Emissions \cup Updates), NEW i \in DOMAIN q, q[i].loop = "emit"
  PROVE  q[i] \in Emissions /\ q[i].rest \in Seq(Views)
<1>1. q[i] \in Emissions \cup Updates
  OBVIOUS
<1> QED BY <1>1 DEF Emissions, Updates

\* A key is stored and announced: everyone who listens will be told.
LEMMA AnnounceStep ==
  ASSUME ViewsInv, NEW q, Follows(q),
         \A u \in Views, i \in DOMAIN calls : Shows(u) => ~Awaits(i, u),
         NEW k \in Keys, NEW value \in Values, state' = [state EXCEPT ![k] = value],
         calls' = Append(q, Emission(k, value)),
         UNCHANGED <<kind, context, status, listeners, shown, misled>>, Nesting'
  PROVE  ViewsInv'
<1> DEFINE e == Emission(k, value)
<1>1. /\ calls \in Seq(Emissions \cup Updates) /\ listeners \in [Keys -> Seq(Views)]
      /\ state \in [Keys -> Values]
  BY DEF ViewsInv, Types
<1>0. PICK n \in Nat : n = Len(calls) /\ DOMAIN calls = 1 .. n
  BY <1>1
<1>2. e \in Emissions /\ e.loop = "emit" /\ e.key = k /\ e.value = value /\ e.rest = listeners[k]
  BY <1>1 DEF Emission, Emissions
<1>3. q \in Seq(Emissions \cup Updates) /\ e \in Emissions \cup Updates /\ Len(q) = n /\ DOMAIN calls = 1 .. n
  BY <1>0, <1>1, <1>2 DEF Follows
<1> HIDE DEF e
<1>4. /\ calls' \in Seq(Emissions \cup Updates) /\ n \in Nat
      /\ DOMAIN q = 1 .. n /\ DOMAIN calls' = 1 .. n + 1 /\ Len(calls') = n + 1
      /\ \A i \in 1 .. n : calls'[i] = q[i]
      /\ calls'[n + 1] = e
  BY <1>3, Appended DEF e
<1>5. \A i \in 1 .. n : calls'[i].loop = "emit" =>
        /\ calls[i].loop = "emit" /\ Thins(calls'[i].rest, calls[i].rest)
        /\ calls'[i].rest \in Seq(Views) /\ calls[i].rest \in Seq(Views)
  BY <1>3, <1>4, EmissionType, FollowsType DEF Follows
<1>6. \A x \in Keys : state'[x] = IF x = k THEN value ELSE state[x]
  BY <1>1
<1>7. Types'
  BY <1>1, <1>4 DEF ViewsInv, Types
<1>8. Registered'
  BY DEF ViewsInv, Registered
<1>9. \A u \in Views : Listens(u) => Awaits(n + 1, u)'
  <2> SUFFICES ASSUME NEW u \in Views, Listens(u) PROVE Awaits(n + 1, u)'
    OBVIOUS
  <2>1. listeners[k] \in Seq(Views)
    BY <1>1
  <2>2. \E j \in DOMAIN listeners[k] : listeners[k][j] = u
    BY <2>1 DEF Listens, Contains
  <2>3. n + 1 \in DOMAIN calls' /\ calls'[n + 1] = e
    BY <1>4
  <2> QED BY <1>2, <2>2, <2>3 DEF Awaits
<1>10. PaintsSoon'
  <2>1. n + 1 \in DOMAIN calls'
    BY <1>4
  <2> QED BY <1>9, <2>1 DEF PaintsSoon, Listens
<1>11. Unclamped'
  <2> SUFFICES ASSUME NEW u \in Views, kind[u] = "show", u \notin misled,
                      NEW i \in DOMAIN calls', calls'[i].loop = "emit"
               PROVE  Ahead(calls'[i].rest, u)
    BY DEF ViewsInv, Unclamped, Ahead
  <2>1. CASE i = n + 1
    BY <1>2, <1>4, <2>1 DEF ViewsInv, Unclamped
  <2>2. CASE i # n + 1
    <3>1. i \in 1 .. n /\ i \in DOMAIN calls
      BY <1>3, <1>4, <2>2
    <3>2. Ahead(calls[i].rest, u)
      BY <1>5, <3>1 DEF ViewsInv, Unclamped
    <3> QED BY <1>5, <3>1, <3>2, ThinKeeps
  <2> QED BY <2>1, <2>2
<1>12. ShowsSoon'
  <2> SUFFICES ASSUME NEW u \in Views, Shows(u)
               PROVE  /\ \A x \in Keys : shown[u][x] = state'[x] \/ \E i \in DOMAIN calls' : Awaits(i, u)' /\ calls'[i].key = x
                      /\ \A i \in DOMAIN calls' : Awaits(i, u)' => i = Len(calls') /\ calls'[i].value = state'[calls'[i].key]
    BY DEF ShowsSoon, Shows, Listens
  <2>1. \A x \in Keys : shown[u][x] = state[x]
    BY DEF ViewsInv, ShowsSoon
  <2>2. Awaits(n + 1, u)' /\ n + 1 \in DOMAIN calls' /\ calls'[n + 1].key = k /\ calls'[n + 1].value = value
    BY <1>2, <1>4, <1>9 DEF Shows
  <2>3. \A i \in 1 .. n : ~Awaits(i, u)'
    <3> SUFFICES ASSUME NEW i \in 1 .. n, Awaits(i, u)' PROVE FALSE
      OBVIOUS
    <3>1. calls'[i].loop = "emit" /\ \E j \in DOMAIN calls'[i].rest : calls'[i].rest[j] = u
      BY DEF Awaits
    <3>2. \E j \in DOMAIN calls[i].rest : calls[i].rest[j] = u
      <4>1. PICK j \in DOMAIN calls'[i].rest : calls'[i].rest[j] = u
        BY <3>1
      <4>2. Thins(calls'[i].rest, calls[i].rest)
        BY <1>5, <3>1
      <4> QED BY <4>1, <4>2 DEF Thins
    <3>3. i \in DOMAIN calls
      BY <1>3
    <3> QED BY <1>5, <3>1, <3>2, <3>3 DEF Awaits
  <2>4. \A x \in Keys : shown[u][x] = state'[x] \/ x = k
    BY <1>6, <2>1
  <2> QED BY <1>4, <1>6, <2>2, <2>3, <2>4
<1> QED BY <1>7, <1>8, <1>10, <1>11, <1>12 DEF ViewsInv

LEMMA SetStep ==
  ASSUME ViewsInv, NEW k \in Keys, NEW value \in Values, Set(k, value)
  PROVE  ViewsInv'
<1>1. /\ calls = << >> /\ calls' = <<Emission(k, value)>> /\ state' = [state EXCEPT ![k] = value]
      /\ UNCHANGED <<kind, context, status, listeners, shown, misled>>
  BY DEF Set, Idle
<1>2. Follows(<< >>)
  BY <1>1 DEF Follows
<1>3. \A u \in Views, i \in DOMAIN calls : ~Awaits(i, u)
  BY <1>1
<1>4. calls' = Append(<< >>, Emission(k, value))
  BY <1>1
<1>5. Nesting'
  BY <1>1 DEF Nesting, Emission
<1> QED BY <1>1, <1>2, <1>3, <1>4, <1>5, AnnounceStep

LEMMA ReceiveStep ==
  ASSUME ViewsInv, NEW K \in SUBSET Keys, NEW entries \in [K -> Values], Receive(entries)
  PROVE  ViewsInv'
<1> DEFINE r == Update(entries)
<1>1. /\ calls = << >> /\ calls' = <<r>>
      /\ UNCHANGED <<state, kind, context, status, listeners, shown, misled>>
  BY DEF Receive, Idle
<1>2. r \in Updates /\ r.loop = "receive"
  BY DEF Update, Updates, Entries
<1> HIDE DEF r
<1>3. /\ calls' \in Seq(Emissions \cup Updates) /\ Len(calls') = 1
      /\ \A i \in DOMAIN calls' : i = 1 /\ calls'[i].loop = "receive"
  BY <1>1, <1>2
<1>4. Types' /\ Nesting' /\ Registered'
  BY <1>1, <1>3 DEF ViewsInv, Types, Nesting, Registered
<1>5. PaintsSoon' /\ ShowsSoon'
  <2>1. \A i \in DOMAIN calls', v \in Views : ~Awaits(i, v)'
    BY <1>3 DEF Awaits
  <2>2. DOMAIN calls = {}
    BY <1>1
  <2>3. PaintsSoon'
    BY <1>1, <2>2 DEF ViewsInv, PaintsSoon, Listens
  <2>4. ShowsSoon'
    BY <1>1, <2>1, <2>2 DEF ViewsInv, ShowsSoon, Shows, Listens
  <2> QED BY <2>3, <2>4
<1>6. Unclamped'
  BY <1>1, <1>3 DEF ViewsInv, Unclamped, Ahead
<1> QED BY <1>4, <1>5, <1>6 DEF ViewsInv

LEMMA AppendedSecond ==
  ASSUME NEW S, NEW q \in Seq(S), NEW m \in S
  PROVE  Len(q) = 1 => /\ Len(Append(q, m)) = 2 /\ DOMAIN Append(q, m) = 1 .. 2
                       /\ Append(q, m)[1] = q[1] /\ Append(q, m)[2] = m
<1> DEFINE r == Append(q, m)
           n == Len(q)
<1>1. /\ Len(r) = n + 1 /\ DOMAIN r = 1 .. n + 1
      /\ \A i \in 1 .. n : r[i] = q[i]
      /\ r[n + 1] = m
  BY Appended
<1> HIDE DEF r, n
<1>2. n = 1 => Len(r) = 2 /\ DOMAIN r = 1 .. 2 /\ r[1] = q[1] /\ r[2] = m
  BY <1>1
<1> QED BY <1>2 DEF r, n

LEMMA StoreStep ==
  ASSUME ViewsInv, Store
  PROVE  ViewsInv'
<1>1. PICK k \in DOMAIN Top.rest :
        /\ state' = [state EXCEPT ![k] = Top.rest[k]]
        /\ calls' = Append([calls EXCEPT ![Len(calls)].rest = [x \in DOMAIN Top.rest \ {k} |-> Top.rest[x]]],
                           Emission(k, Top.rest[k]))
  BY DEF Store
<1>2. /\ ~Idle /\ Top.loop = "receive"
      /\ UNCHANGED <<kind, context, status, listeners, shown, misled>>
  BY DEF Store, Running
<1>3. /\ calls \in Seq(Emissions \cup Updates) /\ Len(calls) = 1 /\ DOMAIN calls = {1}
      /\ Top = calls[1] /\ Top \in Updates
  <2>1. /\ calls \in Seq(Emissions \cup Updates) /\ Len(calls) = 1 /\ DOMAIN calls = 1 .. Len(calls)
        /\ Top = calls[Len(calls)] /\ Top \in Updates
    BY <1>2, TopFrame
  <2>2. 1 .. 1 = {1}
    OBVIOUS
  <2> QED BY <2>1, <2>2
<1>4. PICK K \in SUBSET Keys : Top.rest \in [K -> Values]
  BY <1>3 DEF Updates, Entries
<1>5. k \in Keys /\ Top.rest[k] \in Values
  BY <1>4
<1> DEFINE left == [x \in DOMAIN Top.rest \ {k} |-> Top.rest[x]]
           frame == [calls[1] EXCEPT !.rest = left]
           q == [calls EXCEPT ![1].rest = left]
<1>6. left \in Entries
  <2>1. left \in [K \ {k} -> Values] /\ K \ {k} \in SUBSET Keys
    BY <1>4
  <2> HIDE DEF left
  <2> QED BY <2>1 DEF Entries
<1> HIDE DEF left
<1>7. frame \in Updates /\ frame.loop = "receive"
  BY <1>3, <1>6 DEF Updates
<1>8. q = [calls EXCEPT ![1] = frame]
  OBVIOUS
<1> HIDE DEF frame
<1>9. q \in Seq(Emissions \cup Updates) /\ Len(q) = 1 /\ q[1].loop = "receive" /\ calls[1].loop = "receive"
  BY <1>2, <1>3, <1>7, <1>8
<1>10. calls' = Append(q, Emission(k, Top.rest[k]))
  BY <1>1, <1>3 DEF left
<1> HIDE DEF q
<1>11. Follows(q)
  BY <1>3, <1>9 DEF Follows
<1>12. \A u \in Views, i \in DOMAIN calls : ~Awaits(i, u)
  BY <1>3, <1>9 DEF Awaits
<1>13. Nesting'
  <2> DEFINE e == Emission(k, Top.rest[k])
  <2>1. e \in Emissions /\ e.loop = "emit"
    BY <1>5 DEF Emission, Emissions, ViewsInv, Types
  <2>2. calls' = Append(q, e)
    BY <1>10
  <2> HIDE DEF e
  <2>3. /\ Len(calls') = 2 /\ DOMAIN calls' = 1 .. 2
        /\ calls'[1] = q[1] /\ calls'[2] = e
    <3>1. e \in Emissions \cup Updates /\ q \in Seq(Emissions \cup Updates) /\ Len(q) = 1
      BY <1>9, <2>1
    <3> DEFINE S == Emissions \cup Updates
    <3> HIDE DEF S
    <3>3. q \in Seq(S) /\ e \in S
      BY <3>1 DEF S
    <3>2. /\ Len(Append(q, e)) = 2 /\ DOMAIN Append(q, e) = 1 .. 2
          /\ Append(q, e)[1] = q[1] /\ Append(q, e)[2] = e
      BY <3>1, <3>3, AppendedSecond
    <3> QED BY <2>2, <3>2, Zenon
  <2> QED BY <1>9, <2>1, <2>3 DEF Nesting
<1> QED BY <1>1, <1>2, <1>5, <1>10, <1>11, <1>12, <1>13, AnnounceStep

-----------------------------------------------------------------------------
(***************************************************************************)
(* A callback.                                                             *)
(***************************************************************************)

\* The innermost emission goes on to the next listener.
Onward == [calls EXCEPT ![Len(calls)].rest = Tail(@)]

LEMMA OnwardFollows ==
  ASSUME ViewsInv, Running("emit"), Top.rest # << >>
  PROVE  /\ Follows(Onward) /\ Head(Top.rest) \in Views
         /\ \A i \in DOMAIN calls : i # Len(calls) => Onward[i] = calls[i]
         /\ \A u \in Views, j \in DOMAIN Top.rest :
              Top.rest[j] = u /\ u # Head(Top.rest) =>
                \E i \in DOMAIN Onward[Len(calls)].rest : Onward[Len(calls)].rest[i] = u
<1>1. /\ calls \in Seq(Emissions \cup Updates) /\ Len(calls) \in Nat \ {0} /\ DOMAIN calls = 1 .. Len(calls)
      /\ Top = calls[Len(calls)] /\ Top \in Emissions
  BY TopFrame DEF Running
<1> DEFINE n == Len(calls)
           rest == Top.rest
           frame == [Top EXCEPT !.rest = Tail(rest)]
<1>2. rest \in Seq(Views) /\ rest # << >>
  BY <1>1 DEF Emissions
<1>3. /\ Tail(rest) \in Seq(Views) /\ Head(rest) \in Views /\ Head(rest) = rest[1]
      /\ Len(rest) \in Nat \ {0} /\ DOMAIN rest = 1 .. Len(rest) /\ DOMAIN Tail(rest) = 1 .. Len(rest) - 1
      /\ \A i \in 1 .. Len(rest) - 1 : Tail(rest)[i] = rest[i + 1]
  <2> HIDE DEF rest
  <2> QED BY <1>2
<1>4. Thins(Tail(rest), rest)
  <2>1. \A i \in DOMAIN Tail(rest) : i + 1 \in DOMAIN rest /\ Tail(rest)[i] = rest[i + 1]
    BY <1>3
  <2>2. \A i, j \in DOMAIN Tail(rest) : i < j => i + 1 < j + 1
    BY <1>3
  <2> HIDE DEF rest
  <2> QED BY <2>1, <2>2 DEF Thins
<1>5. frame \in Emissions /\ frame.loop = Top.loop /\ frame.key = Top.key /\ frame.value = Top.value /\ frame.rest = Tail(rest)
  BY <1>1, <1>3 DEF Emissions
<1>6. Onward = [calls EXCEPT ![n] = frame]
  BY <1>1 DEF Onward
<1> HIDE DEF frame, rest
<1>7. /\ Onward \in Seq(Emissions \cup Updates) /\ Len(Onward) = n
      /\ Onward[n] = frame /\ \A i \in DOMAIN calls : i # n => Onward[i] = calls[i]
  BY <1>1, <1>5, <1>6
<1>8. ASSUME NEW i \in DOMAIN calls
      PROVE  /\ Onward[i].loop = calls[i].loop
             /\ calls[i].loop = "emit" => /\ Onward[i].key = calls[i].key /\ Onward[i].value = calls[i].value
                                          /\ Thins(Onward[i].rest, calls[i].rest)
  <2>1. CASE i = n
    BY <1>1, <1>4, <1>5, <1>7, <2>1 DEF rest
  <2>2. CASE i # n
    BY <1>7, <2>2, EmissionType, ThinsTrivially
  <2> QED BY <2>1, <2>2
<1>9. ASSUME NEW u \in Views, NEW j \in DOMAIN rest, rest[j] = u, u # Head(rest)
      PROVE  \E i \in DOMAIN frame.rest : frame.rest[i] = u
  <2>1. j - 1 \in 1 .. Len(rest) - 1 /\ (j - 1) + 1 = j
    BY <1>3, <1>9
  <2>2. Tail(rest)[j - 1] = u
    BY <1>3, <1>9, <2>1
  <2> QED BY <1>3, <1>5, <2>1, <2>2
<1> QED BY <1>3, <1>7, <1>8, <1>9 DEF Follows, rest

\* A callback that changes nothing but what its own view shows, and perhaps cleans up.
LEMMA QuietStep ==
  ASSUME ViewsInv, Running("emit"), Top.rest # << >>, calls' = Onward,
         UNCHANGED <<state, kind, context, misled>>,
         shown' \in [Views -> [Keys -> Values]],
         status' \in [Views -> {"absent", "initialized", "rendered", "mounted", "removed", "failed"}],
         listeners' \in [Keys -> Seq(Views)],
         \A k \in Keys : Thins(listeners'[k], listeners[k]),
         \A u \in Views : u # Head(Top.rest) => shown'[u] = shown[u],
         LET v == Head(Top.rest) IN
           /\ kind[v] = "paint" => shown'[v] = state
           /\ Shows(v) => \A k \in Keys : shown'[v][k] = IF k = Top.key THEN state[k] ELSE shown[v][k],
         \A k \in Keys : \A i \in DOMAIN listeners'[k] : status'[listeners'[k][i]] \in Allowed(listeners'[k][i])
  PROVE  ViewsInv'
<1> DEFINE v == Head(Top.rest)
<1>1. PICK n \in Nat \ {0} :
        /\ calls \in Seq(Emissions \cup Updates) /\ n = Len(calls) /\ DOMAIN calls = 1 .. n
        /\ Top = calls[n] /\ Top \in Emissions
  BY TopFrame DEF Running
<1>2. /\ Follows(Onward) /\ v \in Views
      /\ \A i \in DOMAIN calls : i # n => Onward[i] = calls[i]
      /\ \A u \in Views, j \in DOMAIN Top.rest :
           Top.rest[j] = u /\ u # v =>
             \E i \in DOMAIN Onward[n].rest : Onward[n].rest[i] = u
  BY <1>1, OnwardFollows
<1>3. Top.loop = "emit" /\ Top.key \in Keys /\ n \in DOMAIN calls
  BY <1>1 DEF Emissions
<1>4. /\ calls' \in Seq(Emissions \cup Updates) /\ Len(calls') = n /\ DOMAIN calls' = 1 .. n
      /\ \A i \in DOMAIN calls :
           /\ calls'[i].loop = calls[i].loop
           /\ calls[i].loop = "emit" => /\ calls'[i].key = calls[i].key /\ calls'[i].value = calls[i].value
                                        /\ Thins(calls'[i].rest, calls[i].rest)
  <2>1. calls' \in Seq(Emissions \cup Updates) /\ Len(calls') = n
    BY <1>1, <1>2 DEF Follows
  <2>2. DOMAIN calls' = 1 .. n
    BY <2>1
  <2> QED BY <1>2, <2>1, <2>2 DEF Follows
<1>5. /\ \A u \in Views : Listens(u)' => Listens(u)
      /\ \A u \in Views : Shows(u)' => Shows(u)
      /\ \A k \in Keys : IsInjective(listeners'[k])
      /\ \A u \in Views, k \in Keys : kind[u] = "show" /\ u \notin misled => Ahead(listeners'[k], u)
  BY ListsThin
<1>6. \A i \in DOMAIN calls, u \in Views : Awaits(i, u)' => Awaits(i, u)
  <2> SUFFICES ASSUME NEW i \in DOMAIN calls, NEW u \in Views, Awaits(i, u)'
               PROVE  Awaits(i, u)
    OBVIOUS
  <2>1. calls[i].loop = "emit" /\ Thins(calls'[i].rest, calls[i].rest)
    BY <1>4 DEF Awaits
  <2>2. PICK j \in DOMAIN calls'[i].rest : calls'[i].rest[j] = u
    BY DEF Awaits
  <2>3. \E a \in DOMAIN calls[i].rest : calls[i].rest[a] = u
    BY <2>1, <2>2 DEF Thins
  <2> QED BY <2>1, <2>3 DEF Awaits
<1>7. \A i \in DOMAIN calls, u \in Views : Awaits(i, u) /\ u # v => Awaits(i, u)'
  <2> SUFFICES ASSUME NEW i \in DOMAIN calls, NEW u \in Views, Awaits(i, u), u # v
               PROVE  Awaits(i, u)'
    OBVIOUS
  <2>1. calls'[i].loop = "emit" /\ i \in DOMAIN calls'
    BY <1>1, <1>4 DEF Awaits
  <2>2. \E j \in DOMAIN calls'[i].rest : calls'[i].rest[j] = u
    <3>1. CASE i = n
      <4>1. PICK j \in DOMAIN Top.rest : Top.rest[j] = u
        BY <1>1, <3>1 DEF Awaits
      <4> HIDE DEF v
      <4> QED BY <1>2, <3>1, <4>1
    <3>2. CASE i # n
      BY <1>2, <3>2 DEF Awaits
    <3> QED BY <3>1, <3>2
  <2> QED BY <2>1, <2>2 DEF Awaits
<1> HIDE DEF v
<1>8. Types'
  BY <1>4 DEF ViewsInv, Types
<1>9. Nesting'
  <2>1. \A i \in DOMAIN calls : calls'[i].loop = calls[i].loop
    BY <1>4
  <2>2. DOMAIN calls' = DOMAIN calls /\ Len(calls') = Len(calls)
    BY <1>1, <1>4
  <2>3. n >= 2 => 1 \in DOMAIN calls
    BY <1>1
  <2>4. /\ \A i \in DOMAIN calls : calls[i].loop = "receive" => i = 1
        /\ Len(calls) <= 3
        /\ Len(calls) = 3 => calls[1].loop = "receive"
        /\ Len(calls) = 3 \/ (Len(calls) = 2 /\ calls[1].loop = "emit") => state[Target] = Low
    BY DEF ViewsInv, Nesting
  <2> QED BY <1>1, <2>1, <2>2, <2>3, <2>4 DEF Nesting
<1>10. Registered'
  BY <1>5 DEF Registered, Allowed
<1>11. PaintsSoon'
  <2> SUFFICES ASSUME NEW u \in Views, kind[u] = "paint", Listens(u)', shown'[u] # state
               PROVE  \E i \in DOMAIN calls' : Awaits(i, u)'
    BY DEF PaintsSoon
  <2>1. u # v /\ shown[u] # state
    BY DEF v
  <2>2. PICK i \in DOMAIN calls : Awaits(i, u)
    BY <1>5, <2>1 DEF ViewsInv, PaintsSoon
  <2> QED BY <1>1, <1>4, <1>7, <2>1, <2>2
<1>12. Unclamped'
  <2> SUFFICES ASSUME NEW u \in Views, kind[u] = "show", u \notin misled,
                      NEW i \in DOMAIN calls', calls'[i].loop = "emit"
               PROVE  Ahead(calls'[i].rest, u)
    BY <1>5 DEF Unclamped, Ahead
  <2>1. i \in DOMAIN calls /\ calls[i].loop = "emit" /\ Thins(calls'[i].rest, calls[i].rest)
    BY <1>1, <1>4
  <2>2. Ahead(calls[i].rest, u)
    BY <2>1 DEF ViewsInv, Unclamped
  <2>3. calls'[i].rest \in Seq(Views) /\ calls[i].rest \in Seq(Views)
    BY <1>4, <2>1, EmissionType, FollowsType
  <2> QED BY <2>1, <2>2, <2>3, ThinKeeps
<1>13. ShowsSoon'
  <2> SUFFICES ASSUME NEW u \in Views, Shows(u)'
               PROVE  /\ \A k \in Keys : shown'[u][k] = state[k] \/ \E i \in DOMAIN calls' : Awaits(i, u)' /\ calls'[i].key = k
                      /\ \A i \in DOMAIN calls' : Awaits(i, u)' => i = Len(calls') /\ calls'[i].value = state[calls'[i].key]
    BY DEF ShowsSoon
  <2>1. Shows(u)
    BY <1>5
  <2>2. /\ \A k \in Keys : shown[u][k] = state[k] \/ \E i \in DOMAIN calls : Awaits(i, u) /\ calls[i].key = k
        /\ \A i \in DOMAIN calls : Awaits(i, u) => i = n /\ calls[i].value = state[calls[i].key]
    BY <1>1, <2>1 DEF ViewsInv, ShowsSoon
  <2>3. \A i \in DOMAIN calls' : Awaits(i, u)' => i = Len(calls') /\ calls'[i].value = state[calls'[i].key]
    <3> SUFFICES ASSUME NEW i \in DOMAIN calls', Awaits(i, u)'
                 PROVE  i = Len(calls') /\ calls'[i].value = state[calls'[i].key]
      OBVIOUS
    <3>1. i \in DOMAIN calls /\ Awaits(i, u) /\ calls[i].loop = "emit"
      BY <1>1, <1>4, <1>6 DEF Awaits
    <3> QED BY <1>4, <2>2, <3>1
  <2>4. ASSUME NEW k \in Keys, shown'[u][k] # state[k]
        PROVE  \E i \in DOMAIN calls' : Awaits(i, u)' /\ calls'[i].key = k
    <3>1. shown[u][k] # state[k] /\ (u = v => k # Top.key)
      BY <2>1, <2>4 DEF v
    <3>2. PICK i \in DOMAIN calls : Awaits(i, u) /\ calls[i].key = k
      BY <2>2, <3>1
    <3>3. i = n /\ u # v
      BY <1>1, <2>2, <3>1, <3>2
    <3>4. Awaits(i, u)' /\ calls'[i].key = k /\ i \in DOMAIN calls'
      BY <1>1, <1>3, <1>4, <1>7, <3>2, <3>3
    <3> QED BY <3>4
  <2> QED BY <2>3, <2>4
<1> QED BY <1>8, <1>9, <1>10, <1>11, <1>12, <1>13 DEF ViewsInv

\* What the innermost emission announces to a view it is about to call.
LEMMA CallsFirst ==
  ASSUME ViewsInv, Running("emit"), Top.rest # << >>, Shows(Head(Top.rest))
  PROVE  Top.value = state[Top.key] /\ Top.key \in Keys
<1> DEFINE v == Head(Top.rest)
<1>1. PICK n \in Nat \ {0} : n = Len(calls) /\ DOMAIN calls = 1 .. n /\ Top = calls[n] /\ Top \in Emissions
  BY TopFrame DEF Running
<1>2. Top.rest \in Seq(Views) /\ Top.key \in Keys /\ Top.loop = "emit"
  BY <1>1 DEF Emissions
<1>3. v \in Views /\ 1 \in DOMAIN Top.rest /\ Top.rest[1] = v
  BY <1>2
<1>4. n \in DOMAIN calls
  BY <1>1
<1>5. Awaits(n, v)
  BY <1>1, <1>2, <1>3, <1>4 DEF Awaits
<1>6. Shows(v) => \A i \in DOMAIN calls : Awaits(i, v) => calls[i].value = state[calls[i].key]
  BY <1>3 DEF ViewsInv, ShowsSoon
<1> QED BY <1>1, <1>2, <1>4, <1>5, <1>6

\* A view that paints or shows.
LEMMA PaintCall ==
  ASSUME ViewsInv, Running("emit"), Top.rest # << >>, calls' = Onward,
         kind[Head(Top.rest)] \in {"paint", "show"},
         shown' = [shown EXCEPT ![Head(Top.rest)] = IF kind[Head(Top.rest)] = "paint" THEN state
                                                    ELSE [@ EXCEPT ![Top.key] = Top.value]],
         UNCHANGED <<state, status, listeners, kind, context, misled>>
  PROVE  ViewsInv'
<1> DEFINE v == Head(Top.rest)
<1>1. v \in Views
  BY OnwardFollows
<1>2. Top \in Emissions /\ Top.key \in Keys /\ Top.value \in Values
  BY TopFrame DEF Running, Emissions
<1>3. /\ shown \in [Views -> [Keys -> Values]] /\ state \in [Keys -> Values]
      /\ listeners \in [Keys -> Seq(Views)]
      /\ status \in [Views -> {"absent", "initialized", "rendered", "mounted", "removed", "failed"}]
  BY DEF ViewsInv, Types
<1> HIDE DEF v
<1>4. shown' = [shown EXCEPT ![v] = IF kind[v] = "paint" THEN state ELSE [shown[v] EXCEPT ![Top.key] = Top.value]]
  BY DEF v
<1>5. shown[v] \in [Keys -> Values]
  BY <1>1, <1>3
<1>6. /\ shown' \in [Views -> [Keys -> Values]]
      /\ \A u \in Views : u # v => shown'[u] = shown[u]
      /\ shown'[v] = IF kind[v] = "paint" THEN state ELSE [shown[v] EXCEPT ![Top.key] = Top.value]
  <2> DEFINE new == IF kind[v] = "paint" THEN state ELSE [shown[v] EXCEPT ![Top.key] = Top.value]
  <2>1. new \in [Keys -> Values]
    BY <1>2, <1>3, <1>5
  <2>2. shown' = [shown EXCEPT ![v] = new]
    BY <1>4
  <2> HIDE DEF new
  <2>3. /\ shown' \in [Views -> [Keys -> Values]]
        /\ \A u \in Views : u # v => shown'[u] = shown[u]
        /\ shown'[v] = new
    BY <1>1, <1>3, <2>1, <2>2
  <2> QED BY <2>3 DEF new
<1>7. Shows(v) => \A k \in Keys : shown'[v][k] = IF k = Top.key THEN state[k] ELSE shown[v][k]
  <2> SUFFICES ASSUME Shows(v), NEW k \in Keys
               PROVE  shown'[v][k] = IF k = Top.key THEN state[k] ELSE shown[v][k]
    OBVIOUS
  <2>1. Top.value = state[Top.key]
    BY CallsFirst DEF v
  <2>2. shown'[v] = [shown[v] EXCEPT ![Top.key] = Top.value]
    BY <1>6 DEF Shows
  <2> QED BY <1>5, <2>1, <2>2
<1>8. \A k \in Keys : Thins(listeners'[k], listeners[k])
  BY <1>3, ThinsTrivially
<1>9. \A k \in Keys : \A i \in DOMAIN listeners'[k] : status'[listeners'[k][i]] \in Allowed(listeners'[k][i])
  BY DEF ViewsInv, Registered, Allowed
<1> QED BY <1>3, <1>6, <1>7, <1>8, <1>9, QuietStep DEF v

\* A view that closes one, itself perhaps, or none.
LEMMA CloseCall ==
  ASSUME ViewsInv, Running("emit"), Top.rest # << >>, calls' = Onward,
         kind[Head(Top.rest)] = "close",
         (\E u \in Views : Cleanup(u)) \/ UNCHANGED <<status, listeners>>,
         UNCHANGED <<state, shown, kind, context, misled>>
  PROVE  ViewsInv'
<1>1. /\ shown \in [Views -> [Keys -> Values]] /\ listeners \in [Keys -> Seq(Views)]
      /\ status \in [Views -> {"absent", "initialized", "rendered", "mounted", "removed", "failed"}]
      /\ \A k \in Keys : listeners[k] \in Seq(Views)
  BY DEF ViewsInv, Types
<1>2. /\ listeners' \in [Keys -> Seq(Views)] /\ \A k \in Keys : Thins(listeners'[k], listeners[k])
      /\ status' \in [Views -> {"absent", "initialized", "rendered", "mounted", "removed", "failed"}]
      /\ \A k \in Keys : \A i \in DOMAIN listeners'[k] : status'[listeners'[k][i]] \in Allowed(listeners'[k][i])
  <2>1. CASE UNCHANGED <<status, listeners>>
    <3>1. \A k \in Keys : \A i \in DOMAIN listeners[k] : status[listeners[k][i]] \in Allowed(listeners[k][i])
      BY DEF ViewsInv, Registered, Allowed
    <3>2. \A v : Allowed(v)' = Allowed(v)
      BY DEF Allowed
    <3> QED BY <1>1, <2>1, <3>1, <3>2, ThinsTrivially
  <2>2. CASE \E u \in Views : Cleanup(u)
    <3>1. PICK u \in Views : status' = [status EXCEPT ![u] = "removed"] /\ listeners' = [k \in Keys |-> << >>]
      BY <2>2 DEF Cleanup, OffAll, NoListeners
    <3>2. status' \in [Views -> {"absent", "initialized", "rendered", "mounted", "removed", "failed"}]
      BY <1>1, <3>1
    <3>3. listeners' \in [Keys -> Seq(Views)] /\ \A k \in Keys : listeners'[k] = << >> /\ DOMAIN listeners'[k] = {}
      BY <3>1
    <3> QED BY <1>1, <3>2, <3>3, ThinsTrivially
  <2> QED BY <2>1, <2>2
<1>3. LET v == Head(Top.rest) IN
        /\ kind[v] = "paint" => shown'[v] = state
        /\ Shows(v) => \A k \in Keys : shown'[v][k] = IF k = Top.key THEN state[k] ELSE shown[v][k]
  BY DEF Shows
<1> QED BY <1>1, <1>2, <1>3, QuietStep

\* A clamp, whose set is announced inside the emission that called it.
LEMMA ClampCall ==
  ASSUME ViewsInv, Running("emit"), Top.rest # << >>,
         kind[Head(Top.rest)] = "clamp",
         state' = [state EXCEPT ![Target] = Low],
         calls' = IF state[Target] = Low THEN Onward ELSE Nested(Onward),
         UNCHANGED <<status, listeners, shown, kind, context, misled>>
  PROVE  ViewsInv'
<1> DEFINE v == Head(Top.rest)
           e == Emission(Target, Low)
<1>1. /\ shown \in [Views -> [Keys -> Values]] /\ listeners \in [Keys -> Seq(Views)]
      /\ status \in [Views -> {"absent", "initialized", "rendered", "mounted", "removed", "failed"}]
      /\ \A k \in Keys : listeners[k] \in Seq(Views)
      /\ state \in [Keys -> Values]
  BY DEF ViewsInv, Types
<1>2. Target \in Keys /\ Low \in Values
  BY ViewsAssumption
<1>3. CASE state[Target] = Low
  <2>1. state' = state /\ calls' = Onward
    BY <1>1, <1>2, <1>3
  <2>2. \A k \in Keys : \A i \in DOMAIN listeners'[k] : status'[listeners'[k][i]] \in Allowed(listeners'[k][i])
    BY DEF ViewsInv, Registered, Allowed
  <2>3. \A k \in Keys : Thins(listeners'[k], listeners[k])
    BY <1>1, ThinsTrivially
  <2>4. /\ kind[v] = "paint" => shown'[v] = state
        /\ Shows(v) => \A k \in Keys : shown'[v][k] = IF k = Top.key THEN state[k] ELSE shown[v][k]
    BY DEF Shows
  <2> QED BY <1>1, <2>1, <2>2, <2>3, <2>4, QuietStep
<1>4. CASE state[Target] # Low
  <2>1. PICK n \in Nat \ {0} :
          /\ calls \in Seq(Emissions \cup Updates) /\ n = Len(calls) /\ DOMAIN calls = 1 .. n
          /\ Top = calls[n] /\ Top \in Emissions
    BY TopFrame DEF Running
  <2>2. Follows(Onward) /\ v \in Views
    BY OnwardFollows
  <2>3. calls' = Append(Onward, Emission(Target, Low))
    BY <1>4 DEF Nested
  <2>4. \A u \in Views, i \in DOMAIN calls : Shows(u) => ~Awaits(i, u)
    <3> SUFFICES ASSUME NEW u \in Views, NEW i \in DOMAIN calls, Shows(u), Awaits(i, u) PROVE FALSE
      OBVIOUS
    <3>1. i = n /\ calls[i].loop = "emit"
      BY <2>1 DEF ViewsInv, ShowsSoon, Awaits
    <3>2. Top.rest \in Seq(Views) /\ DOMAIN Top.rest = 1 .. Len(Top.rest) /\ Len(Top.rest) \in Nat \ {0} /\ v = Top.rest[1]
      BY <2>1 DEF Emissions
    <3>3. PICK j \in DOMAIN Top.rest : Top.rest[j] = u
      BY <2>1, <3>1 DEF Awaits
    <3>4. u # v
      BY DEF Shows
    <3>5. 1 \in DOMAIN Top.rest /\ 1 < j
      BY <3>2, <3>3, <3>4
    <3>6. Ahead(Top.rest, u)
      BY <2>1, <3>1 DEF ViewsInv, Unclamped, Shows
    <3> QED BY <3>2, <3>3, <3>5, <3>6 DEF Ahead
  <2>5. Nesting'
    <3>1. e \in Emissions /\ e.loop = "emit"
      BY <1>1, <1>2 DEF Emission, Emissions
    <3> DEFINE S == Emissions \cup Updates
    <3>2. calls' = Append(Onward, e) /\ Onward \in Seq(S) /\ Len(Onward) = n /\ e \in S
      BY <2>1, <2>2, <2>3, <3>1 DEF Follows
    <3>3. \A i \in 1 .. n : Onward[i].loop = calls[i].loop
      BY <2>1, <2>2 DEF Follows
    <3> HIDE DEF S, e
    <3>4. /\ Len(calls') = n + 1 /\ DOMAIN calls' = 1 .. n + 1
          /\ \A i \in 1 .. n : calls'[i] = Onward[i]
          /\ calls'[n + 1] = e
      BY <3>2, Appended
    <3>5. state'[Target] = Low
      BY <1>1, <1>2
    <3>6. /\ \A i \in 1 .. n : calls[i].loop = "receive" => i = 1
          /\ n <= 2 /\ (n = 2 => calls[1].loop = "receive")
      <4>1. \A i \in 1 .. n : calls[i].loop = "receive" \/ calls[i].loop = "emit"
        <5>1. \A i \in 1 .. n : calls[i] \in Emissions \cup Updates
          BY <2>1
        <5> QED BY <5>1 DEF Emissions, Updates
      <4>2. n = 2 => 1 \in 1 .. n
        OBVIOUS
      <4> QED BY <1>4, <2>1, <4>1, <4>2 DEF ViewsInv, Nesting
    <3>7. \A i \in DOMAIN calls' : calls'[i].loop = "receive" => i = 1
      <4>1. \A i \in DOMAIN calls' : i \in 1 .. n \/ i = n + 1
        BY <3>4
      <4> QED BY <3>1, <3>3, <3>4, <3>6, <4>1
    <3>8. n = 2 => calls'[1].loop = "receive"
      <4>1. n = 2 => 1 \in 1 .. n
        OBVIOUS
      <4> QED BY <3>3, <3>4, <3>6, <4>1
    <3> QED BY <3>4, <3>5, <3>6, <3>7, <3>8 DEF Nesting
  <2> QED BY <1>2, <2>2, <2>3, <2>4, <2>5, AnnounceStep
<1> QED BY <1>3, <1>4

LEMMA CallStep ==
  ASSUME ViewsInv, Call
  PROVE  ViewsInv'
<1> DEFINE v == Head(Top.rest)
<1>1. Running("emit") /\ Top.rest # << >> /\ UNCHANGED <<kind, context, misled>>
  BY DEF Call
<1>2. CASE /\ kind[v] \in {"paint", "show"}
           /\ shown' = [shown EXCEPT ![v] = IF kind[v] = "paint" THEN state
                                            ELSE [@ EXCEPT ![Top.key] = Top.value]]
           /\ calls' = Onward
           /\ UNCHANGED <<state, status, listeners>>
  BY <1>1, <1>2, PaintCall
<1>3. CASE /\ kind[v] = "clamp"
           /\ state' = [state EXCEPT ![Target] = Low]
           /\ calls' = IF state[Target] = Low THEN Onward ELSE Nested(Onward)
           /\ UNCHANGED <<status, listeners, shown>>
  BY <1>1, <1>3, ClampCall
<1>4. CASE /\ kind[v] = "close"
           /\ (\E u \in Views : Cleanup(u)) \/ UNCHANGED <<status, listeners>>
           /\ calls' = Onward
           /\ UNCHANGED <<state, shown>>
  BY <1>1, <1>4, CloseCall
<1> QED BY <1>2, <1>3, <1>4 DEF Call, Onward

LEMMA ReturnStep ==
  ASSUME ViewsInv, Return
  PROVE  ViewsInv'
<1>1. /\ ~Idle /\ (Top.loop = "emit" => Top.rest = << >>) /\ calls' = Front(calls)
      /\ UNCHANGED <<state, kind, context, status, listeners, shown, misled>>
  BY DEF Return
<1>2. PICK n \in Nat \ {0} :
        /\ calls \in Seq(Emissions \cup Updates) /\ n = Len(calls) /\ DOMAIN calls = 1 .. n /\ Top = calls[n]
  BY <1>1, TopFrame
<1>3. /\ calls' \in Seq(Emissions \cup Updates) /\ Len(calls') = n - 1 /\ DOMAIN calls' = 1 .. n - 1
      /\ \A i \in 1 .. n - 1 : calls'[i] = calls[i]
  <2> DEFINE S == Emissions \cup Updates
  <2>1. calls' = SubSeq(calls, 1, n - 1) /\ calls \in Seq(S)
    BY <1>1, <1>2 DEF Front
  <2> HIDE DEF S
  <2>2. /\ SubSeq(calls, 1, n - 1) \in Seq(S) /\ Len(SubSeq(calls, 1, n - 1)) = n - 1
        /\ \A i \in 1 .. n - 1 : SubSeq(calls, 1, n - 1)[i] = calls[i]
    BY <1>2, <2>1
  <2> QED BY <1>2, <2>1, <2>2 DEF S
<1>4. \A u \in Views : ~Awaits(n, u)
  BY <1>1, <1>2 DEF Awaits
<1>5. \A i \in DOMAIN calls' : i \in DOMAIN calls /\ i # n /\ calls'[i] = calls[i]
  BY <1>2, <1>3
<1>6. \A i \in DOMAIN calls, u \in Views : Awaits(i, u) => i \in DOMAIN calls' /\ Awaits(i, u)'
  <2> SUFFICES ASSUME NEW i \in DOMAIN calls, NEW u \in Views, Awaits(i, u)
               PROVE  i \in DOMAIN calls' /\ Awaits(i, u)'
    OBVIOUS
  <2>1. i # n
    BY <1>4
  <2>2. i \in DOMAIN calls' /\ calls'[i] = calls[i]
    BY <1>2, <1>3, <2>1
  <2> QED BY <2>2 DEF Awaits
<1>7. Types' /\ Registered'
  BY <1>1, <1>3 DEF ViewsInv, Types, Registered
<1>8. Nesting'
  <2>1. \A i \in DOMAIN calls' : calls'[i].loop = "receive" => i = 1
    BY <1>5 DEF ViewsInv, Nesting
  <2>2. n - 1 <= 2 /\ (n = 3 => calls[1].loop = "receive")
    BY <1>2 DEF ViewsInv, Nesting
  <2>3. n = 3 => calls'[1].loop # "emit"
    <3>1. n = 3 => calls'[1] = calls[1]
      BY <1>3
    <3> QED BY <2>2, <3>1
  <2> QED BY <1>2, <1>3, <2>1, <2>2, <2>3 DEF Nesting
<1>9. PaintsSoon'
  <2> SUFFICES ASSUME NEW u \in Views, kind[u] = "paint", Listens(u), shown[u] # state
               PROVE  \E i \in DOMAIN calls' : Awaits(i, u)'
    BY <1>1 DEF PaintsSoon, Listens
  <2>1. PICK i \in DOMAIN calls : Awaits(i, u)
    BY DEF ViewsInv, PaintsSoon
  <2> QED BY <1>6, <2>1
<1>10. Unclamped'
  BY <1>1, <1>5 DEF ViewsInv, Unclamped, Ahead
<1>11. ShowsSoon'
  <2> SUFFICES ASSUME NEW u \in Views, Shows(u)
               PROVE  /\ \A k \in Keys : shown[u][k] = state[k]
                      /\ \A i \in DOMAIN calls' : ~Awaits(i, u)'
    BY <1>1 DEF ShowsSoon, Shows, Listens
  <2>1. \A i \in DOMAIN calls : ~Awaits(i, u)
    BY <1>2, <1>4 DEF ViewsInv, ShowsSoon
  <2>2. \A k \in Keys : shown[u][k] = state[k]
    BY <2>1 DEF ViewsInv, ShowsSoon
  <2>3. \A i \in DOMAIN calls' : ~Awaits(i, u)'
    BY <1>5, <2>1 DEF Awaits
  <2> QED BY <2>2, <2>3
<1> QED BY <1>7, <1>8, <1>9, <1>10, <1>11 DEF ViewsInv

-----------------------------------------------------------------------------
(***************************************************************************)
(* The theorems.                                                           *)
(***************************************************************************)
LEMMA ViewsInit == Init => ViewsInv
<1> SUFFICES ASSUME Init PROVE ViewsInv
  OBVIOUS
<1>1. /\ calls = << >> /\ DOMAIN calls = {} /\ calls \in Seq(Emissions \cup Updates) /\ Len(calls) = 0
      /\ \A k \in Keys : listeners[k] = << >> /\ DOMAIN listeners[k] = {}
      /\ listeners \in [Keys -> Seq(Views)]
  BY DEF Init, NoListeners
<1>2. state \in [Keys -> Values] /\ shown = [v \in Views |-> state]
  BY ViewsAssumption DEF Init
<1>3. Types
  BY <1>1, <1>2 DEF Init, Types
<1>4. Nesting
  BY <1>1 DEF Nesting
<1>5. Registered
  BY <1>1 DEF Registered, IsInjective
<1>6. PaintsSoon
  BY <1>2 DEF PaintsSoon
<1>7. Unclamped
  BY <1>1 DEF Unclamped, Ahead
<1>8. ShowsSoon
  BY <1>1, <1>2 DEF ShowsSoon
<1> QED BY <1>3, <1>4, <1>5, <1>6, <1>7, <1>8 DEF ViewsInv

LEMMA ViewsStep == ViewsInv /\ [Next]_vars => ViewsInv'
<1> SUFFICES ASSUME ViewsInv, [Next]_vars PROVE ViewsInv'
  OBVIOUS
<1>1. ASSUME NEW v \in Views, Initialize(v) \/ Render(v) \/ Settle(v) \/ Unmount(v) \/ Unsubscribe(v)
      PROVE  ViewsInv'
  BY <1>1, InitializeStep, RenderStep, SettleStep, UnmountStep, UnsubscribeStep
<1>2. ASSUME NEW k \in Keys, NEW value \in Values, Set(k, value) PROVE ViewsInv'
  BY <1>2, SetStep
<1>3. ASSUME NEW K \in SUBSET Keys, NEW entries \in [K -> Values], Receive(entries) PROVE ViewsInv'
  BY <1>3, ReceiveStep
<1>4. CASE Store
  BY <1>4, StoreStep
<1>5. CASE Call
  BY <1>5, CallStep
<1>6. CASE Return
  BY <1>6, ReturnStep
<1>7. CASE UNCHANGED vars
  BY <1>7 DEF vars, ViewsInv, Types, Nesting, Registered, PaintsSoon, Listens, Awaits, Unclamped, Ahead,
              ShowsSoon, Shows
<1> QED BY <1>1, <1>2, <1>3, <1>4, <1>5, <1>6, <1>7 DEF Next

\* The inductive invariant: what a registered view does not show yet, one of the
\* emissions in progress is still going to tell it.
THEOREM ViewsInvariant == Spec => []ViewsInv
  BY ViewsInit, ViewsStep, PTL DEF Spec

\* No widget registers the same callback twice, and loops nest three deep at most: an
\* update, the emission of one of its keys, and the emission of what a clamp sets.
THEOREM ViewsTypeOK == Spec => []TypeOK
<1>1. ViewsInv => TypeOK
  BY DEF ViewsInv, Types, Nesting, Registered, TypeOK
<1> QED BY <1>1, ViewsInvariant, PTL

\* However many emissions nest, a view that paints what model.get returns shows the
\* model's state once the loops are through.
THEOREM ViewsPaintsFresh == Spec => []PaintsFresh
<1>1. ViewsInv => PaintsFresh
  <2>1. Idle => DOMAIN calls = {}
    BY DEF Idle
  <2> QED BY <2>1 DEF ViewsInv, PaintsSoon, PaintsFresh
<1> QED BY <1>1, ViewsInvariant, PTL

\* So does a view that shows the event's argument, if no clamp was registered before it.
THEOREM ViewsShowsFresh == Spec => []ShowsFresh
<1>1. ViewsInv => ShowsFresh
  <2> SUFFICES ASSUME ViewsInv, Idle, NEW v \in Views, Shows(v) PROVE shown[v] = state
    BY DEF ShowsFresh, Shows
  <2>1. DOMAIN calls = {}
    BY DEF Idle
  <2>2. \A k \in Keys : shown[v][k] = state[k]
    BY <2>1 DEF ViewsInv, ShowsSoon
  <2>3. shown[v] \in [Keys -> Values] /\ state \in [Keys -> Values]
    BY DEF ViewsInv, Types
  <2> QED BY <2>2, <2>3
<1> QED BY <1>1, ViewsInvariant, PTL

\* The model keeps no listener of a view that renderWidget has cleaned up.
THEOREM ViewsRemovedIsDeaf == Spec => []RemovedIsDeaf
<1>1. ViewsInv => RemovedIsDeaf
  <2> SUFFICES ASSUME ViewsInv, NEW v \in Views, NEW k \in Keys, status[v] = "removed",
                      Contains(listeners[k], v)
               PROVE  FALSE
    BY DEF RemovedIsDeaf
  <2>1. listeners[k] \in Seq(Views)
    BY DEF ViewsInv, Types
  <2>2. PICK i \in DOMAIN listeners[k] : listeners[k][i] = v
    BY <2>1 DEF Contains
  <2> QED BY <2>2 DEF ViewsInv, Registered
<1> QED BY <1>1, ViewsInvariant, PTL

=============================================================================
