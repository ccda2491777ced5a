---------------------------- MODULE PlicGateway ----------------------------
(***************************************************************************)
(* What a claim/complete interrupt controller promises its sources and its *)
(* harts, without registers, priorities or outputs: every accepted         *)
(* interrupt is handed to exactly one hart, and its source is not accepted *)
(* again until that hart has completed it.  Only a reset breaks the rule:  *)
(* a source that had been accepted before it stays shut.                   *)
(***************************************************************************)
EXTENDS FiniteSets

CONSTANTS Sources, Contexts

VARIABLES
  accepted,   \* sources waiting to be claimed
  owned,      \* per context: the sources it claimed and has not completed
  shut        \* sources a reset left unable to interrupt

gwVars == <<accepted, owned, shut>>

Busy == accepted \cup shut \cup UNION {owned[c] : c \in Contexts}

GwInit ==
  /\ accepted = {}
  /\ owned = [c \in Contexts |-> {}]
  /\ shut = {}

(* Idle sources are accepted, one or several at a time. *)
Accept(S) ==
  /\ S \cap Busy = {}
  /\ accepted' = accepted \cup S
  /\ UNCHANGED <<owned, shut>>

Claim(c, s) ==
  /\ s \in accepted
  /\ accepted' = accepted \ {s}
  /\ owned' = [owned EXCEPT ![c] = @ \cup {s}]
  /\ UNCHANGED shut

Complete(c, s) ==
  /\ s \in owned[c]
  /\ owned' = [owned EXCEPT ![c] = @ \ {s}]
  /\ UNCHANGED <<accepted, shut>>

Restart ==
  /\ accepted' = {}
  /\ owned' = [c \in Contexts |-> {}]
  /\ shut' = Busy

GwNext ==
  \/ \E S \in SUBSET Sources : Accept(S)
  \/ \E c \in Contexts, s \in Sources : Claim(c, s) \/ Complete(c, s)
  \/ Restart

GwSpec == GwInit /\ [][GwNext]_gwVars

=============================================================================
