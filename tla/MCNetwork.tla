------------------------------ MODULE MCNetwork ------------------------------
(***************************************************************************)
(* The Ethernet MAC, and the bridge that connects it to a host interface.  *)
(* What they share are whole frames, which the MAC counts in words and the *)
(* bridge tells apart by their addresses and checksums; so one runs while  *)
(* the other rests, and `bridging' says which.                             *)
(***************************************************************************)
EXTENDS MinresEthmac

CONSTANTS Macs, hw_mac, Packets, QueBound, Base

(* Addresses are pairs of halves, packets and their words as Ipv4Checksum    *)
(* describes them.                                                           *)
ASSUME NetworkAssumption ==
  /\ \A mac \in Macs : mac = <<mac[1], mac[2]>>
  /\ Base \in Nat /\ Base > 1 /\ QueBound \in Nat
  /\ \A p \in Packets :
       p \in [well_formed : BOOLEAN, fragment : BOOLEAN, protocol : STRING,
              pseudo : Seq(Nat), segment : Seq(Nat), checksum : Nat]

VARIABLES
  bridging,
  map_mac_addr, ipv4_checksum_fix, model_mac, model_mac_init, copying, buf, listening,
  que, data_event, rx_busy, learned

phyVars == <<map_mac_addr, ipv4_checksum_fix, model_mac, model_mac_init, copying, buf, listening,
             que, data_event, rx_busy, learned>>
netVars == <<bridging, vars, phyVars>>

Phy == INSTANCE HostPhy

NetInit ==
  /\ bridging \in BOOLEAN /\ Init /\ Phy!Init
  /\ ~bridging => map_mac_addr /\ ipv4_checksum_fix

NetNext ==
  /\ UNCHANGED bridging
  /\ \/ bridging  /\ Phy!Next /\ UNCHANGED vars
     \/ ~bridging /\ Next     /\ UNCHANGED phyVars

NetSpec == NetInit /\ [][NetNext]_netVars

-----------------------------------------------------------------------------
MCMacs  == {<<1, 2>>, <<3, 4>>}
MCHwMac == <<5, 6>>

(* Both protocols, with sums that carry and sums that vanish, and checksums   *)
(* that are none, the seed, and another; a fragment, and a broken packet.     *)
MCPackets ==
  {[well_formed |-> TRUE, fragment |-> FALSE, protocol |-> protocol, pseudo |-> <<2, 1>>,
    segment |-> <<word>>, checksum |-> checksum] :
      protocol \in {"tcp", "udp"}, word \in {0, 2}, checksum \in {0, 1, 3}}
  \cup
  {[well_formed |-> sound, fragment |-> sound, protocol |-> "tcp", pseudo |-> <<2, 1>>,
    segment |-> <<2>>, checksum |-> 3] : sound \in BOOLEAN}

(* The MAC keeps its types, rings and counters within bounds, and no frame is *)
(* stranded between the host thread and the simulation.                       *)
NoneStranded == TypeOK /\ Phy!NoneStranded

(* Frames pass the bridge under the addresses that their receivers expect,   *)
(* from the model's first frame on, but for the one the host thread has in    *)
(* hand at that moment.                                                       *)
BridgeIsFaithful == [][Phy!AddressedFromFirstFrameOn]_netVars

(* Frames leave the bridge with the checksums that their receivers expect. *)
ChecksumsVerify == [][Phy!ChecksumsAreRepaired]_netVars
=============================================================================
