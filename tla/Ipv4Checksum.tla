------------------------------ MODULE Ipv4Checksum ------------------------------
(***************************************************************************)
(* The transport checksum as src/generic/host_phy.cpp computes and repairs *)
(* it.  A packet is what the code tells apart: whether every length is in  *)
(* bounds, the protocol, whether it is a fragment, the words of the pseudo *)
(* header and of the segment without its checksum, and the checksum.       *)
(***************************************************************************)
EXTENDS Naturals, Sequences

CONSTANT Base   \* a word is in 0..Base-1; 2^16 in the code

(* checksum_add_bytes over whole words; 2^32 is out of a packet's reach. *)
Total(words) ==
  LET sum[i \in 0..Len(words)] == IF i = 0 THEN 0 ELSE sum[i - 1] + words[i]
  IN  sum[Len(words)]

(* checksum_fold: carries are added back in until none is left. *)
checksum_fold(total) ==
  LET fold[sum \in 0..total] == IF sum < Base THEN sum ELSE fold[(sum % Base) + (sum \div Base)]
  IN  fold[total]

(* Mutant of checksum_finish: the sum is not complemented. *)
MutNotComplemented(sum) == checksum_fold(sum)

checksum_finish(sum) == Base - 1 - checksum_fold(sum)

seed(p) == checksum_fold(Total(p.pseudo))

(* A checksum of zero means none to UDP. *)
calculate_transport_checksum(p) ==
  LET checksum == checksum_finish(Total(p.pseudo \o p.segment))
  IN  IF p.protocol = "udp" /\ checksum = 0 THEN Base - 1 ELSE checksum

(* fix_ipv4_checksums: only a seed is replaced. *)
fix_ipv4_checksums(p) ==
  IF /\ p.well_formed /\ ~p.fragment /\ p.protocol \in {"tcp", "udp"}
     /\ ~(p.protocol = "udp" /\ p.checksum = 0)
     /\ p.checksum = seed(p)
  THEN [p EXCEPT !.checksum = calculate_transport_checksum(p)]
  ELSE p

-----------------------------------------------------------------------------
(* What a receiver accepts: the ones' complement sum of everything is zero. *)
Verifies(p) ==
  \/ p.protocol = "udp" /\ p.checksum = 0
  \/ (Total(p.pseudo \o p.segment) + p.checksum) % (Base - 1) = 0

Repairable(p) == p.well_formed /\ ~p.fragment /\ p.protocol \in {"tcp", "udp"} /\ p.checksum = seed(p)
=============================================================================
