---------------------------------- MODULE XdpPath ----------------------------------
(***************************************************************************)
(* The way of a TCP reply from the interface to a row: the XDP program     *)
(* bpf/probe_xdp.bpf.c, its ring buffer, and the callback _on_event of     *)
(* hub_probe/probe_daemon.py, from bpf_setup to bpf_teardown.              *)
(*                                                                         *)
(* A frame is what the program reads of it: the Ethernet type, the IPv4    *)
(* header length or the chain of IPv6 extension headers, the protocol they *)
(* lead to, the number of bytes after the Ethernet header, and what stands *)
(* where the TCP header is looked for.  Ports and addresses are names;     *)
(* the key is the tuple under which _send_one_tcp filed the probe.         *)
(***************************************************************************)
EXTENDS Naturals, Sequences, SequencesExt

CONSTANTS
  Frames,      (* the frames that may arrive                                *)
  Probes,      (* keys of the probes in flight                              *)
  MaxExthdrs,  (* MAX_V6_EXTHDRS                                            *)
  RingSlots,   (* events the ring buffer has room for                       *)
  MaxArrivals  (* bound of the model                                        *)

Keys == [ver : {"v4", "v6"}, from : {"leaf", "other"}, ack : Nat]
Exthdrs == [kind : {"hopopts", "routing", "dstopts", "fragment", "other"},
            hdrlen : 0 .. 255]
FrameType ==
  [type : {"v4", "v6", "other"}, ihl : 0 .. 15, exts : Seq(Exthdrs),
   upper : {"tcp", "other"}, len : Nat, fragment : {"no", "first", "later"},
   dport : {"probe", "other"}, flags : {"SA", "RA"},
   from : {"leaf", "other"}, ack : Nat]

(* Only IPv6 has extension headers, and a later fragment of an IPv6        *)
(* datagram is told by one of them.                                        *)
ASSUME XdpAssumption ==
  /\ Frames \subseteq FrameType
  /\ \A f \in Frames : f.type = "v4" => f.exts = << >>
  /\ \A f \in Frames : f.type = "v6" /\ f.fragment = "later" =>
       \E i \in DOMAIN f.exts : f.exts[i].kind = "fragment"
  /\ Probes \subseteq Keys
  /\ MaxExthdrs \in Nat
  /\ RingSlots \in Nat \ {0}
  /\ MaxArrivals \in Nat

VARIABLES
  phase,     (* "down", "attached", "running", "freed" or "detached"        *)
  ring,      (* events submitted and not yet handed to the callback         *)
  dropped,   (* the frames answered with XDP_DROP, in order                 *)
  passed,    (* the frames the hub's own stack received                     *)
  handled,   (* the events the callback was given, in order                 *)
  matched,   (* the probes with row["matched"]                              *)
  rows       (* the probes of the ok rows enqueued, in order                *)

vars == <<phase, ring, dropped, passed, handled, matched, rows>>

-----------------------------------------------------------------------------
(* The program.                                                            *)

Ipv4Header == 20
Ipv6Header == 40
TcpHeader  == 20
LongestExthdr == 256

Size(h) == 8 * (h.hdrlen + 1)

(* Mutant: the fixed eight bytes of a header are forgotten.                *)
UpperAtShort(f) ==
  IF f.type = "v4" THEN 4 * f.ihl
  ELSE FoldSeq(LAMBDA h, at : at + 8 * h.hdrlen, Ipv6Header, f.exts)
(* Where the upper protocol's header is taken to begin.                    *)
UpperAt(f) ==
  IF f.type = "v4" THEN 4 * f.ihl
  ELSE FoldSeq(LAMBDA h, at : at + Size(h), Ipv6Header, f.exts)

(* An extension header the walk goes over.                                 *)
Skips(h) ==
  h.kind \in {"hopopts", "routing", "dstopts"} /\ Size(h) <= LongestExthdr

(* Mutant: the protocol is not looked at after the walk.                   *)
ReachesAnything(f) ==
  \/ f.type = "v4" /\ f.ihl * 4 >= Ipv4Header
  \/ /\ f.type = "v6"
     /\ Len(f.exts) <= MaxExthdrs
     /\ \A i \in DOMAIN f.exts : Skips(f.exts[i])
(* Mutant: the walk gives up one header early.                             *)
ReachesOneLess(f) ==
  /\ f.upper = "tcp"
  /\ \/ f.type = "v4" /\ f.ihl * 4 >= Ipv4Header
     \/ /\ f.type = "v6"
        /\ Len(f.exts) < MaxExthdrs
        /\ \A i \in DOMAIN f.exts : Skips(f.exts[i])
(* The TCP header is reached: IPv4 by the header length, whatever the      *)
(* fragment offset; IPv6 by at most MaxExthdrs steps over the chain.       *)
ReachesTcp(f) ==
  /\ f.upper = "tcp"
  /\ \/ f.type = "v4" /\ f.ihl * 4 >= Ipv4Header
     \/ /\ f.type = "v6"
        /\ Len(f.exts) <= MaxExthdrs
        /\ \A i \in DOMAIN f.exts : Skips(f.exts[i])

Complete(f) == UpperAt(f) + TcpHeader <= f.len

Matches(f) == ReachesTcp(f) /\ Complete(f) /\ f.dport = "probe"

(* Mutant: tcp_flags is left as memset wrote it.                           *)
EventWithoutFlags(f) ==
  [key |-> [ver |-> f.type, from |-> f.from, ack |-> f.ack], flags |-> "none"]
EventOf(f) ==
  [key |-> [ver |-> f.type, from |-> f.from, ack |-> f.ack], flags |-> f.flags]

(* Mutant: a reply is dropped before a slot is reserved for its event.     *)
HasRoomOrNot == TRUE
(* bpf_ringbuf_reserve returns a slot.                                     *)
HasRoom == Len(ring) < RingSlots
Submit(f) ==
  ring' = IF Len(ring) < RingSlots THEN Append(ring, EventOf(f)) ELSE ring

Catch(f) ==
  /\ Matches(f) /\ HasRoom
  /\ Submit(f)
  /\ dropped' = Append(dropped, f)
  /\ UNCHANGED passed

Let(f) ==
  /\ ~(Matches(f) /\ HasRoom)
  /\ passed' = Append(passed, f)
  /\ UNCHANGED <<ring, dropped>>

Arrive ==
  /\ phase \in {"attached", "running", "freed"}
  /\ Len(dropped) + Len(passed) < MaxArrivals
  /\ \E f \in Frames : Catch(f) \/ Let(f)
  /\ UNCHANGED <<phase, handled, matched, rows>>

-----------------------------------------------------------------------------
(* The daemon.                                                             *)

Init ==
  /\ phase = "down"
  /\ ring = << >>
  /\ dropped = << >>
  /\ passed = << >>
  /\ handled = << >>
  /\ matched = {}
  /\ rows = << >>

(* bpf_setup: the program is attached before the ring buffer has a reader; *)
(* bpf_teardown: the reader goes before the program.                       *)
Move(from, to) ==
  /\ phase = from /\ phase' = to
  /\ UNCHANGED <<ring, dropped, passed, handled, matched, rows>>

Attach   == Move("down", "attached")
OpenRing == Move("attached", "running")
FreeRing == Move("running", "freed")
Detach   == Move("freed", "detached")

(* Mutant: the address family is left out of the key.                      *)
KeysOfAnyVersion(e) == {k \in Probes : k.from = e.key.from /\ k.ack = e.key.ack}
(* The pending entries an event finds: the one with its key.               *)
KeysOf(e) == {k \in Probes : k = e.key}

(* Mutant: the flag of the entry is not looked at.                         *)
UnansweredOrNot(k) == TRUE
(* A repeated reply finds its entry matched and is only counted.           *)
Unanswered(k) == k \notin matched

(* ring_buffer__poll hands the oldest event to _on_event.                  *)
OnEvent ==
  /\ phase = "running"
  /\ ring # << >>
  /\ LET e == Head(ring)
     IN  /\ ring' = Tail(ring)
         /\ handled' = Append(handled, e)
         /\ \/ \E k \in KeysOf(e) :
                 /\ Unanswered(k)
                 /\ matched' = matched \cup {k}
                 /\ rows' = Append(rows, k)
            \/ /\ \A k \in KeysOf(e) : ~Unanswered(k)
               /\ UNCHANGED <<matched, rows>>
  /\ UNCHANGED <<phase, dropped, passed>>

Over ==
  /\ phase = "detached"
  /\ UNCHANGED vars

Next == Arrive \/ Attach \/ OpenRing \/ OnEvent \/ FreeRing \/ Detach \/ Over

Spec == Init /\ [][Next]_vars

-----------------------------------------------------------------------------
(* What a frame is, by the formats of IP: a chain of headers of any length *)
(* and kind, and a TCP header where the datagram is not cut before it.     *)
IsReply(f) ==
  /\ f.type \in {"v4", "v6"}
  /\ f.type = "v4" => f.ihl * 4 >= Ipv4Header
  /\ \A i \in DOMAIN f.exts : f.exts[i].kind # "other"
  /\ f.upper = "tcp"
  /\ f.fragment # "later"
  /\ (IF f.type = "v4" THEN 4 * f.ihl
      ELSE 40 + FoldSeq(LAMBDA h, n : n + 8 * (h.hdrlen + 1), 0, f.exts))
       + 20 <= f.len
  /\ f.dport = "probe"

(* Events carry the flags of the segment they were made from, and the ring *)
(* never holds more than it has room for.                                  *)
TypeOK ==
  /\ phase \in {"down", "attached", "running", "freed", "detached"}
  /\ ring \in Seq([key : Keys, flags : {"SA", "RA"}]) /\ Len(ring) <= RingSlots
  /\ dropped \in Seq(Frames)
  /\ passed \in Seq(Frames)
  /\ matched \subseteq Probes
  /\ rows \in Seq(Probes)

(* A frame taken from the hub's stack is an event in the ring buffer or    *)
(* was one handed to the callback, in the order of arrival: no drop is     *)
(* silent, also when the ring is full or its reader gone.                  *)
NoSilentDrop ==
  handled \o ring = [i \in DOMAIN dropped |-> EventOf(dropped[i])]

(* Only frames to the probe port are taken from the stack; the hub's other *)
(* traffic is untouched by the bounded, unrolled walk of the headers.      *)
HostTrafficSpared == \A i \in DOMAIN dropped : IsReply(dropped[i])

(* The hub's stack is left a reply only for want of room in the ring, or   *)
(* when the reply comes in fragments or behind more, longer or other       *)
(* extension headers than the program walks over.                          *)
Ordinary(f) ==
  /\ f.fragment = "no"
  /\ Len(f.exts) <= MaxExthdrs
  /\ \A i \in DOMAIN f.exts :
       f.exts[i].kind # "fragment" /\ 8 * (f.exts[i].hdrlen + 1) <= 256
LeftOnlyWhenFull ==
  [][ passed' # passed =>
        LET f == Last(passed')
        IN  IsReply(f) /\ Ordinary(f) => Len(ring) = RingSlots ]_vars

(* A leaf that sends its SYN-ACK again, before or after the first was      *)
(* handled, gives its probe one row.                                       *)
OneRowPerProbe ==
  \A i, j \in DOMAIN rows : rows[i] = rows[j] => i = j

(* An ok row is for a probe whose own reply the program caught; "v4 and v6 *)
(* keys are disjoint".                                                     *)
OkWasCaught ==
  \A i \in DOMAIN rows :
    \E j \in DOMAIN dropped : EventOf(dropped[j]).key = rows[i]

=============================================================================
