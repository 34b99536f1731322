---------------------------- MODULE CommContract ----------------------------
(***************************************************************************)
(* What the widget core promises its frontend, whatever the host program   *)
(* does: the comms of one widget form a chain of sessions.  A comm is      *)
(* announced once, only while no other comm of the widget is up, speaks    *)
(* only after its announcement, and is silent for ever after its farewell. *)
(* The wire from the kernel to the frontend is one FIFO, so the frontend   *)
(* sees what was published in that order.                                  *)
(*                                                                         *)
(* The protocol is the one docs/extending/architecture.qmd and             *)
(* openspec/specs/protocol/spec.md describe; WidgetSession is shown to     *)
(* implement this module.                                                  *)
(***************************************************************************)
EXTENDS Naturals, Sequences

CONSTANT Comms    \* identities of comms

VARIABLES
  link,   \* the kernel's end of each comm
  wire,   \* published and not yet delivered to the frontend
  seen    \* the frontend's end of each comm

vars == <<link, wire, seen>>

Links == {"fresh", "up", "hungup", "down"}
Seen  == {"absent", "present", "gone"}
Packets == [comm : Comms, type : {"comm_open", "comm_msg", "comm_close"}]

Packet(c, type) == [comm |-> c, type |-> type]

TypeOK ==
  /\ link \in [Comms -> Links]
  /\ wire \in Seq(Packets)
  /\ seen \in [Comms -> Seen]

Init ==
  /\ link = [c \in Comms |-> "fresh"]
  /\ wire = << >>
  /\ seen = [c \in Comms |-> "absent"]

Idle == \A c \in Comms : link[c] \in {"fresh", "down"}

Announce(c) ==
  /\ Idle
  /\ link[c] = "fresh"
  /\ link' = [link EXCEPT ![c] = "up"]
  /\ wire' = Append(wire, Packet(c, "comm_open"))
  /\ UNCHANGED seen

Talk(c) ==
  /\ link[c] \in {"up", "hungup"}
  /\ wire' = Append(wire, Packet(c, "comm_msg"))
  /\ UNCHANGED <<link, seen>>

\* The kernel says goodbye; it need not when the frontend hung up first.
Retire(c) ==
  /\ link[c] \in {"up", "hungup"}
  /\ link' = [link EXCEPT ![c] = "down"]
  /\ wire' = IF link[c] = "up" THEN Append(wire, Packet(c, "comm_close")) ELSE wire
  /\ UNCHANGED seen

\* The frontend disposes of its end, and later the kernel hears of it.
Leave(c) ==
  /\ seen[c] = "present"
  /\ seen' = [seen EXCEPT ![c] = "gone"]
  /\ UNCHANGED <<link, wire>>

HangUp(c) ==
  /\ seen[c] = "gone"
  /\ link[c] = "up"
  /\ link' = [link EXCEPT ![c] = "hungup"]
  /\ UNCHANGED <<wire, seen>>

Deliver ==
  /\ wire # << >>
  /\ wire' = Tail(wire)
  /\ LET p == Head(wire) IN
     seen' = [seen EXCEPT ![p.comm] =
                CASE p.type = "comm_open"  -> "present"
                  [] p.type = "comm_close" -> "gone"
                  [] p.type = "comm_msg"   -> @]
  /\ UNCHANGED link

Next ==
  \/ \E c \in Comms : Announce(c) \/ Talk(c) \/ Retire(c) \/ Leave(c) \/ HangUp(c)
  \/ Deliver

Spec == Init /\ [][Next]_vars /\ WF_vars(Deliver)
----------------------------------------------------------------------------
\* The first packet of a comm that reaches the frontend is its comm_open, and a
\* comm_open is never anything but the first.
AnnouncedFirst ==
  \A i \in DOMAIN wire :
    wire[i].type = "comm_open"
      <=> /\ seen[wire[i].comm] = "absent"
          /\ \A j \in 1 .. i - 1 : wire[j].comm # wire[i].comm

\* Nothing of a comm follows its comm_close, on the wire or later.
FarewellLast ==
  \A i \in DOMAIN wire :
    wire[i].type = "comm_close" =>
      /\ link[wire[i].comm] = "down"
      /\ \A j \in DOMAIN wire : j > i => wire[j].comm # wire[i].comm

\* A comm the frontend has not seen is unborn, or its comm_open is on its way.
Announced ==
  \A c \in Comms :
    /\ link[c] = "fresh" =>
         seen[c] = "absent" /\ \A i \in DOMAIN wire : wire[i].comm # c
    /\ link[c] # "fresh" /\ seen[c] = "absent" => \E i \in DOMAIN wire : wire[i].comm = c

ContractInv == TypeOK /\ AnnouncedFirst /\ FarewellLast /\ Announced
============================================================================
