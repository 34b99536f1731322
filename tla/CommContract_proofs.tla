------------------------ MODULE CommContract_proofs ------------------------
(***************************************************************************)
(* Proofs about the abstract comm protocol: for any set of comms, what the *)
(* frontend hears of a comm starts with its comm_open and ends with its    *)
(* comm_close.                                                             *)
(***************************************************************************)
EXTENDS CommContract, TLAPS

\* The shape of a wire after one publication.
LEMMA AppendWire ==
  ASSUME NEW S, NEW w \in Seq(S), NEW p \in S
  PROVE  /\ Append(w, p) \in Seq(S)
         /\ DOMAIN Append(w, p) = 1 .. Len(w) + 1
         /\ DOMAIN w = 1 .. Len(w) /\ Len(w) \in Nat
         /\ \A i \in DOMAIN w : Append(w, p)[i] = w[i]
         /\ Append(w, p)[Len(w) + 1] = p
  OBVIOUS

\* The shape of a wire after one delivery.
LEMMA TailWire ==
  ASSUME NEW S, NEW w \in Seq(S), w # << >>
  PROVE  /\ Tail(w) \in Seq(S) /\ Head(w) = w[1] /\ w[1] \in S
         /\ DOMAIN w = 1 .. Len(w) /\ Len(w) \in Nat \ {0}
         /\ DOMAIN Tail(w) = 1 .. Len(w) - 1
         /\ \A i \in DOMAIN Tail(w) : i + 1 \in DOMAIN w /\ Tail(w)[i] = w[i + 1]
  OBVIOUS

LEMMA ContractInit == Init => ContractInv
  BY DEF Init, ContractInv, TypeOK, AnnouncedFirst, FarewellLast, Announced, Links, Seen, Packets

LEMMA ContractAnnounce ==
  ASSUME ContractInv, NEW c \in Comms, Announce(c)
  PROVE  ContractInv'
<1> DEFINE p == Packet(c, "comm_open")
<1>1. p \in Packets
  BY DEF Packets, Packet
<1>2. /\ wire' = Append(wire, p) /\ link' = [link EXCEPT ![c] = "up"] /\ seen' = seen
      /\ link[c] = "fresh" /\ p.comm = c /\ p.type = "comm_open"
  BY DEF Announce, Packet
<1>3. wire \in Seq(Packets) /\ link \in [Comms -> Links] /\ seen \in [Comms -> Seen]
  BY DEF ContractInv, TypeOK
<1>4. /\ wire' \in Seq(Packets) /\ DOMAIN wire' = 1 .. Len(wire) + 1
      /\ DOMAIN wire = 1 .. Len(wire) /\ Len(wire) \in Nat
      /\ \A i \in DOMAIN wire : wire'[i] = wire[i]
      /\ wire'[Len(wire) + 1] = p
  <2> HIDE DEF p
  <2> QED BY <1>1, <1>2, <1>3, AppendWire
<1>5. \A i \in DOMAIN wire : wire[i].comm # c
  BY <1>2 DEF ContractInv, Announced
<1>6. seen[c] = "absent"
  BY <1>2 DEF ContractInv, Announced
<1> HIDE DEF p
<1>7. TypeOK'
  BY <1>2, <1>3, <1>4 DEF TypeOK, Links
<1>8. AnnouncedFirst'
  BY <1>2, <1>3, <1>4, <1>5, <1>6 DEF ContractInv, AnnouncedFirst
<1>9. FarewellLast'
  BY <1>2, <1>3, <1>4, <1>5 DEF ContractInv, FarewellLast, Packets
<1>10. Announced'
  BY <1>2, <1>3, <1>4, <1>5 DEF ContractInv, Announced, Links
<1> QED BY <1>7, <1>8, <1>9, <1>10 DEF ContractInv

\* No comm_close is under way for a comm whose link is not down.
LEMMA NoFarewellYet ==
  ASSUME ContractInv, NEW c \in Comms, link[c] # "down", NEW i \in DOMAIN wire, wire[i].comm = c
  PROVE  wire[i].type # "comm_close"
  BY DEF ContractInv, FarewellLast

\* A comm whose link is past fresh was seen by the frontend or is on the wire.
LEMMA KnownOrOnTheWay ==
  ASSUME ContractInv, NEW c \in Comms, link[c] # "fresh"
  PROVE  seen[c] # "absent" \/ \E i \in DOMAIN wire : wire[i].comm = c
  BY DEF ContractInv, Announced

LEMMA ContractTalk ==
  ASSUME ContractInv, NEW c \in Comms, Talk(c)
  PROVE  ContractInv'
<1> DEFINE p == Packet(c, "comm_msg")
<1>1. p \in Packets
  BY DEF Packets, Packet
<1>2. /\ wire' = Append(wire, p) /\ link' = link /\ seen' = seen
      /\ link[c] \in {"up", "hungup"} /\ p.comm = c /\ p.type = "comm_msg"
  BY DEF Talk, Packet
<1>3. wire \in Seq(Packets) /\ link \in [Comms -> Links] /\ seen \in [Comms -> Seen]
  BY DEF ContractInv, TypeOK
<1> HIDE DEF p
<1>4. /\ wire' \in Seq(Packets) /\ DOMAIN wire' = 1 .. Len(wire) + 1
      /\ DOMAIN wire = 1 .. Len(wire) /\ Len(wire) \in Nat
      /\ \A i \in DOMAIN wire : wire'[i] = wire[i]
      /\ wire'[Len(wire) + 1] = p
  BY <1>1, <1>2, <1>3, AppendWire
<1>5. \A i \in DOMAIN wire : wire[i].comm = c => wire[i].type # "comm_close"
  BY <1>2, NoFarewellYet
<1>6. seen[c] # "absent" \/ \E i \in DOMAIN wire : wire[i].comm = c
  BY <1>2, KnownOrOnTheWay
<1>7. TypeOK'
  BY <1>2, <1>3, <1>4 DEF TypeOK
<1>8. AnnouncedFirst'
  BY <1>2, <1>3, <1>4, <1>6 DEF ContractInv, AnnouncedFirst
<1>9. FarewellLast'
  BY <1>2, <1>3, <1>4, <1>5 DEF ContractInv, FarewellLast
<1>10. Announced'
  BY <1>2, <1>3, <1>4 DEF ContractInv, Announced
<1> QED BY <1>7, <1>8, <1>9, <1>10 DEF ContractInv

LEMMA ContractRetire ==
  ASSUME ContractInv, NEW c \in Comms, Retire(c)
  PROVE  ContractInv'
<1> DEFINE p == Packet(c, "comm_close")
<1>1. p \in Packets /\ p.comm = c /\ p.type = "comm_close"
  BY DEF Packets, Packet
<1>2. /\ link' = [link EXCEPT ![c] = "down"] /\ seen' = seen
      /\ wire' = IF link[c] = "up" THEN Append(wire, p) ELSE wire
      /\ link[c] \in {"up", "hungup"}
  BY DEF Retire
<1> HIDE DEF p
<1>3. wire \in Seq(Packets) /\ link \in [Comms -> Links] /\ seen \in [Comms -> Seen]
  BY DEF ContractInv, TypeOK
<1>4. \A i \in DOMAIN wire : wire[i].comm = c => wire[i].type # "comm_close"
  BY <1>2, NoFarewellYet
<1>5. seen[c] # "absent" \/ \E i \in DOMAIN wire : wire[i].comm = c
  BY <1>2, KnownOrOnTheWay
<1>6. CASE link[c] = "up"
  <2>1. /\ wire' \in Seq(Packets) /\ DOMAIN wire' = 1 .. Len(wire) + 1
        /\ DOMAIN wire = 1 .. Len(wire) /\ Len(wire) \in Nat
        /\ \A i \in DOMAIN wire : wire'[i] = wire[i]
        /\ wire'[Len(wire) + 1] = p
    BY <1>1, <1>2, <1>3, <1>6, AppendWire
  <2>2. TypeOK'
    BY <1>2, <1>3, <2>1 DEF TypeOK, Links
  <2>3. AnnouncedFirst'
    BY <1>1, <1>2, <1>3, <1>5, <2>1 DEF ContractInv, AnnouncedFirst
  <2>4. FarewellLast'
    BY <1>1, <1>2, <1>3, <1>4, <2>1 DEF ContractInv, FarewellLast, Packets
  <2>5. Announced'
    BY <1>1, <1>2, <1>3, <2>1 DEF ContractInv, Announced
  <2> QED BY <2>2, <2>3, <2>4, <2>5 DEF ContractInv
<1>7. CASE link[c] = "hungup"
  <2>1. wire' = wire
    BY <1>2, <1>7
  <2>2. TypeOK'
    BY <1>2, <1>3, <2>1 DEF TypeOK, Links
  <2>3. AnnouncedFirst'
    BY <1>2, <2>1 DEF ContractInv, AnnouncedFirst
  <2>4. FarewellLast'
    BY <1>2, <1>3, <2>1 DEF ContractInv, FarewellLast, Packets
  <2>5. Announced'
    BY <1>2, <1>3, <1>7, <2>1 DEF ContractInv, Announced
  <2> QED BY <2>2, <2>3, <2>4, <2>5 DEF ContractInv
<1> QED BY <1>2, <1>6, <1>7

LEMMA ContractLeave ==
  ASSUME ContractInv, NEW c \in Comms, Leave(c)
  PROVE  ContractInv'
<1>1. TypeOK'
  BY DEF Leave, ContractInv, TypeOK, Seen
<1>2. AnnouncedFirst'
  BY DEF Leave, ContractInv, TypeOK, AnnouncedFirst, Seen, Packets
<1>3. FarewellLast'
  BY DEF Leave, ContractInv, FarewellLast
<1>4. Announced'
  BY DEF Leave, ContractInv, TypeOK, Announced, Seen
<1> QED BY <1>1, <1>2, <1>3, <1>4 DEF ContractInv

LEMMA ContractHangUp ==
  ASSUME ContractInv, NEW c \in Comms, HangUp(c)
  PROVE  ContractInv'
<1>1. TypeOK'
  BY DEF HangUp, ContractInv, TypeOK, Links
<1>2. AnnouncedFirst'
  BY DEF HangUp, ContractInv, AnnouncedFirst
<1>3. FarewellLast'
  BY DEF HangUp, ContractInv, TypeOK, FarewellLast, Packets, Links
<1>4. Announced'
  BY DEF HangUp, ContractInv, TypeOK, Announced, Links
<1> QED BY <1>1, <1>2, <1>3, <1>4 DEF ContractInv

LEMMA ContractDeliver ==
  ASSUME ContractInv, Deliver
  PROVE  ContractInv'
<1> DEFINE p == Head(wire)
<1>1. wire \in Seq(Packets) /\ link \in [Comms -> Links] /\ seen \in [Comms -> Seen]
  BY DEF ContractInv, TypeOK
<1>2. wire # << >> /\ wire' = Tail(wire) /\ link' = link
  BY DEF Deliver
<1>3. /\ wire' \in Seq(Packets) /\ p = wire[1] /\ p \in Packets
      /\ DOMAIN wire = 1 .. Len(wire) /\ Len(wire) \in Nat \ {0}
      /\ DOMAIN wire' = 1 .. Len(wire) - 1
      /\ \A i \in DOMAIN wire' : i + 1 \in DOMAIN wire /\ wire'[i] = wire[i + 1]
  BY <1>1, <1>2, TailWire
<1>4. p.comm \in Comms /\ p.type \in {"comm_open", "comm_msg", "comm_close"}
  BY <1>3 DEF Packets
<1>5. /\ seen' \in [Comms -> Seen]
      /\ \A c \in Comms : c # p.comm => seen'[c] = seen[c]
      /\ p.type = "comm_open" => seen'[p.comm] = "present"
      /\ p.type = "comm_close" => seen'[p.comm] = "gone"
      /\ p.type = "comm_msg" => seen'[p.comm] = seen[p.comm]
  BY <1>1, <1>4 DEF Deliver, Seen
<1> HIDE DEF p
<1>6. p.type = "comm_open" <=> seen[p.comm] = "absent"
  BY <1>3 DEF ContractInv, AnnouncedFirst
<1>7. seen'[p.comm] # "absent"
  BY <1>1, <1>4, <1>5, <1>6
<1>8. TypeOK'
  BY <1>1, <1>2, <1>3, <1>5 DEF TypeOK
<1>9. AnnouncedFirst'
  <2> SUFFICES ASSUME NEW i \in DOMAIN wire'
               PROVE  wire'[i].type = "comm_open"
                        <=> /\ seen'[wire'[i].comm] = "absent"
                            /\ \A j \in 1 .. i - 1 : wire'[j].comm # wire'[i].comm
    BY DEF AnnouncedFirst
  <2>1. i \in Nat \ {0} /\ i + 1 \in DOMAIN wire /\ wire'[i] = wire[i + 1]
    BY <1>3
  <2>4. wire[i + 1].comm \in Comms
    <3>1. wire[i + 1] \in Packets
      BY <1>1, <1>3, <2>1
    <3> QED BY <3>1 DEF Packets
  <2>2. wire[i + 1].type = "comm_open"
          <=> /\ seen[wire[i + 1].comm] = "absent"
              /\ \A j \in 1 .. i : wire[j].comm # wire[i + 1].comm
    BY <2>1 DEF ContractInv, AnnouncedFirst
  <2>3. (\A j \in 1 .. i : wire[j].comm # wire[i + 1].comm)
          <=> /\ p.comm # wire'[i].comm
              /\ \A j \in 1 .. i - 1 : wire'[j].comm # wire'[i].comm
    <3>1. \A j \in 1 .. i - 1 : j \in DOMAIN wire' /\ wire'[j] = wire[j + 1]
      BY <1>3
    <3>2. \A j \in 1 .. i : j = 1 \/ (j - 1 \in 1 .. i - 1 /\ wire'[j - 1] = wire[j])
      BY <1>3, <2>1
    <3>3. ASSUME \A j \in 1 .. i : wire[j].comm # wire[i + 1].comm
          PROVE  /\ p.comm # wire'[i].comm
                 /\ \A j \in 1 .. i - 1 : wire'[j].comm # wire'[i].comm
      <4>1. 1 \in 1 .. i /\ \A j \in 1 .. i - 1 : j + 1 \in 1 .. i
        BY <2>1
      <4> QED BY <1>3, <2>1, <3>1, <3>3, <4>1
    <3>4. ASSUME p.comm # wire'[i].comm,
                 \A j \in 1 .. i - 1 : wire'[j].comm # wire'[i].comm
          PROVE  \A j \in 1 .. i : wire[j].comm # wire[i + 1].comm
      BY <1>3, <2>1, <3>2, <3>4
    <3> QED BY <3>3, <3>4
  <2> QED BY <1>5, <1>7, <2>1, <2>2, <2>3, <2>4
<1>10. FarewellLast'
  <2> SUFFICES ASSUME NEW i \in DOMAIN wire', wire'[i].type = "comm_close"
               PROVE  /\ link'[wire'[i].comm] = "down"
                      /\ \A j \in DOMAIN wire' : j > i => wire'[j].comm # wire'[i].comm
    BY DEF FarewellLast
  <2> QED BY <1>2, <1>3 DEF ContractInv, FarewellLast
<1>11. Announced'
  <2> SUFFICES ASSUME NEW c \in Comms
               PROVE  /\ link'[c] = "fresh" =>
                           seen'[c] = "absent" /\ \A i \in DOMAIN wire' : wire'[i].comm # c
                      /\ link'[c] # "fresh" /\ seen'[c] = "absent" =>
                           \E i \in DOMAIN wire' : wire'[i].comm = c
    BY DEF Announced
  <2>1. CASE link[c] = "fresh"
    BY <1>2, <1>3, <1>5, <2>1 DEF ContractInv, Announced
  <2>2. CASE link[c] # "fresh" /\ seen'[c] = "absent"
    <3>1. c # p.comm /\ seen[c] = "absent"
      BY <1>5, <1>7, <2>2
    <3>2. PICK i \in DOMAIN wire : wire[i].comm = c
      BY <2>2, <3>1, KnownOrOnTheWay
    <3>3. i # 1 /\ i - 1 \in DOMAIN wire' /\ wire'[i - 1] = wire[i]
      BY <1>3, <3>1, <3>2
    <3> QED BY <1>2, <2>2, <3>2, <3>3
  <2> QED BY <1>2, <2>1, <2>2
<1> QED BY <1>8, <1>9, <1>10, <1>11 DEF ContractInv

LEMMA ContractStep == ContractInv /\ [Next]_vars => ContractInv'
<1> SUFFICES ASSUME ContractInv, [Next]_vars PROVE ContractInv'
  OBVIOUS
<1>1. CASE UNCHANGED vars
  BY <1>1 DEF vars, ContractInv, TypeOK, AnnouncedFirst, FarewellLast, Announced
<1> QED
  BY <1>1, ContractAnnounce, ContractTalk, ContractRetire, ContractLeave,
     ContractHangUp, ContractDeliver DEF Next

\* The inductive invariant of the protocol: whatever the kernel and the frontend do,
\* the packets on the wire are in the order a frontend can follow.
THEOREM ContractSafety == Spec => []ContractInv
  BY ContractInit, ContractStep, PTL DEF Spec

\* The frontend hears of a comm by its comm_open, and of nothing before.
THEOREM ContractAnnouncedFirst == Spec => []AnnouncedFirst
  BY ContractSafety, PTL DEF ContractInv

\* A closed comm is silent: nothing of it follows its comm_close.
THEOREM ContractFarewellLast == Spec => []FarewellLast
  BY ContractSafety, PTL DEF ContractInv
=============================================================================
