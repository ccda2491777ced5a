-------------------------------- MODULE HostPhy --------------------------------
(***************************************************************************)
(* The bridge to a host interface of src/generic/host_phy.cpp.  The        *)
(* simulation thread sends the model's frames through a raw socket; a host *)
(* thread receives, filters and queues the frames of the interface, and a  *)
(* process of the simulation takes them from the queue.  The two threads   *)
(* share model_mac without synchronisation: who reads it while it is       *)
(* written sees any mixture of its old and its new bytes.                  *)
(***************************************************************************)
EXTENDS Naturals, SequencesExt, Ipv4Checksum

CONSTANTS
  Macs,         \* addresses the model uses; an address is a pair of halves
  hw_mac,       \* the address of the host interface
  Packets,      \* contents of frames
  QueBound      \* bound on the frames in the queue

Broadcast == <<255, 255>>
Zero      == <<0, 0>>    \* what the uninitialised model_mac happens to hold

VARIABLES
  map_mac_addr, ipv4_checksum_fix,   \* parameters
  model_mac, model_mac_init,
  copying,       \* the address being copied into model_mac, if any
  buf,           \* the frame in the hands of the host thread, if any, and how far it is
  listening,     \* the host thread has not met an error
  que, data_event,
  rx_busy,       \* rx_thread: does not wait for data_event
  learned        \* the address the peers know the model by, if any

phyVars == <<map_mac_addr, ipv4_checksum_fix, model_mac, model_mac_init, copying, buf, listening,
             que, data_event, rx_busy, learned>>

params == <<map_mac_addr, ipv4_checksum_fix>>
tx     == <<model_mac, model_mac_init, copying, learned>>
rx     == <<que, data_event, rx_busy>>

Init ==
  /\ map_mac_addr \in BOOLEAN /\ ipv4_checksum_fix \in BOOLEAN
  /\ model_mac = Zero /\ model_mac_init = FALSE /\ copying = {}
  /\ buf = {} /\ listening = TRUE
  /\ que = <<>> /\ data_event = FALSE /\ rx_busy = FALSE
  /\ learned = {}

-----------------------------------------------------------------------------
(* Mutant of FirstFrame: the address counts as known before it is copied. *)
MutFlagFirst(source) ==
  /\ ~model_mac_init /\ copying = {}
  /\ copying' = {source} /\ model_mac_init' = TRUE
  /\ UNCHANGED <<params, model_mac, learned, buf, listening, rx>>

(* The model sends a frame: the source of the first is remembered, ... *)
FirstFrame(source) ==
  /\ ~model_mac_init /\ copying = {}
  /\ copying' = {source}
  /\ UNCHANGED <<params, model_mac, model_mac_init, learned, buf, listening, rx>>

Copied ==
  /\ copying # {} /\ copying' = {}
  /\ model_mac' \in copying /\ model_mac_init' = TRUE
  /\ learned' = {hw_mac}
  /\ UNCHANGED <<params, buf, listening, rx>>

(* ... and every frame leaves under the address of the host. *)
LaterFrame ==
  /\ model_mac_init /\ learned' = {hw_mac}
  /\ UNCHANGED <<params, model_mac, model_mac_init, copying, buf, listening, rx>>

-----------------------------------------------------------------------------
(* What the host thread may find in model_mac. *)
SeenMacs ==
  LET all == {model_mac} \cup copying
  IN  {<<a[1], b[2]>> : a \in all, b \in all}

(* The interface hears the frames of everybody. *)
recvfrom(dest, packet) ==
  /\ listening /\ buf = {} /\ Len(que) < QueBound
  /\ buf' = {[at |-> "received", dest |-> dest, packet |-> packet]}
  /\ UNCHANGED <<params, tx, listening, rx>>

recvfrom_fails ==
  /\ listening /\ buf = {} /\ listening' = FALSE
  /\ UNCHANGED <<params, tx, buf, rx>>

(* The host thread compares the address, copies another over it and queues   *)
(* the frame; the simulation thread may write model_mac between any two.     *)
Accepts(dest, seen) == dest = Broadcast \/ dest = IF map_mac_addr THEN hw_mac ELSE seen

NotForUs ==
  /\ \E frame \in buf, seen \in SeenMacs :
       frame.at = "received" /\ ~Accepts(frame.dest, seen)
  /\ buf' = {}
  /\ UNCHANGED <<params, tx, listening, rx>>

ForUs ==
  /\ \E frame \in buf, seen \in SeenMacs :
       /\ frame.at = "received" /\ Accepts(frame.dest, seen)
       /\ buf' = {[frame EXCEPT !.at = IF map_mac_addr THEN "accepted" ELSE "addressed"]}
  /\ UNCHANGED <<params, tx, listening, rx>>

(* With the mapping even a broadcast gets the address of the model. *)
MapAddress ==
  /\ \E frame \in buf, seen \in SeenMacs :
       /\ frame.at = "accepted"
       /\ buf' = {[frame EXCEPT !.at = "addressed", !.dest = seen]}
  /\ UNCHANGED <<params, tx, listening, rx>>

Push ==
  /\ \E frame \in buf :
       /\ frame.at = "addressed"
       /\ que' = Append(que,
                   [dest   |-> frame.dest,
                    packet |-> IF ipv4_checksum_fix THEN fix_ipv4_checksums(frame.packet) ELSE frame.packet])
  /\ buf' = {} /\ data_event' = TRUE
  /\ UNCHANGED <<params, tx, listening, rx_busy>>

-----------------------------------------------------------------------------
(* Mutant of TakeFrame: one frame for every event. *)
MutOneFrame ==
  /\ rx_busy
  /\ que # <<>> /\ que' = Tail(que) /\ rx_busy' = FALSE
  /\ UNCHANGED <<params, tx, buf, listening, data_event>>

(* rx_thread hands over frame after frame before it waits for the next event. *)
TakeFrame ==
  /\ rx_busy
  /\ \/ que # <<>> /\ que' = Tail(que) /\ UNCHANGED rx_busy
     \/ que = <<>> /\ rx_busy' = FALSE /\ UNCHANGED que
  /\ UNCHANGED <<params, tx, buf, listening, data_event>>

(* The event of a push wakes rx_thread if it waits, and is lost if not. *)
Notified ==
  /\ data_event /\ data_event' = FALSE
  /\ rx_busy' = TRUE
  /\ UNCHANGED <<params, tx, buf, listening, que>>

Next ==
  \/ \E source \in Macs : FirstFrame(source)
  \/ Copied \/ LaterFrame
  \/ \E dest \in Macs \cup {hw_mac, Broadcast}, packet \in Packets : recvfrom(dest, packet)
  \/ recvfrom_fails \/ NotForUs \/ ForUs \/ MapAddress \/ Push \/ TakeFrame \/ Notified

Spec == Init /\ [][Next]_phyVars

-----------------------------------------------------------------------------
(* The types, and that no frame lies in the queue unless rx_thread is at it *)
(* or will be.                                                              *)
NoneStranded ==
  /\ {map_mac_addr, ipv4_checksum_fix, model_mac_init, listening, data_event, rx_busy} \subseteq BOOLEAN
  /\ Len(que) <= QueBound /\ copying \subseteq Macs /\ model_mac \in Macs \cup {Zero}
  /\ que # <<>> => (rx_busy \/ data_event)

Pushed  == Len(que') > Len(que)
Dropped == buf # {} /\ buf' = {} /\ ~Pushed

(* From the model's first frame on, frames arrive under the address of that  *)
(* frame (or, not mapped, as broadcasts), whatever the model sends under      *)
(* later, and none to the address the peers know is lost but where addresses  *)
(* are not mapped.  The one exception is the frame the host thread has in     *)
(* hand when the address is first copied: it may go astray, but no frame the  *)
(* thread compares or addresses after that does.                              *)
Astray(frame) ==
  /\ frame.at = "addressed"
  /\ frame.dest \notin {model_mac} \cup (IF map_mac_addr THEN {} ELSE {Broadcast})

AddressedFromFirstFrameOn ==
  model_mac_init =>
    /\ (\E frame \in buf : Astray(frame))' => buf' = buf
    /\ Pushed => \E frame \in buf : frame.dest = Last(que').dest /\ frame.at = "addressed"
    /\ (Dropped /\ map_mac_addr) => \A frame \in buf : frame.dest \notin learned
    /\ (Dropped /\ ~map_mac_addr) => \A frame \in buf : frame.dest # model_mac

(* A checksum that was left to the hardware is right after the repair, one   *)
(* that was right stays right, and nothing else is touched.                  *)
ChecksumsAreRepaired ==
  Pushed => \A frame \in buf :
    LET p == frame.packet
        q == Last(que').packet
    IN  /\ (ipv4_checksum_fix /\ Repairable(p)) \/ Verifies(p) => Verifies(q)
        /\ ~(ipv4_checksum_fix /\ Repairable(p)) => q = p
        /\ [q EXCEPT !.checksum = p.checksum] = p
=============================================================================
