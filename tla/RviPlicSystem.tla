--------------------------- MODULE RviPlicSystem ---------------------------
(***************************************************************************)
(* The controller of RviPlic among harts that follow the claim/complete    *)
(* handshake: a hart claims while its interrupt output is high, services   *)
(* what the claim returned (several interrupts may nest) and completes     *)
(* each one once.  Software configures the controller once after power-up  *)
(* and after every system reset, which also restarts the harts.            *)
(***************************************************************************)
EXTENDS RviPlic

CONSTANTS
  Configs,     \* the configurations software may choose at boot
  MaxResets    \* bound on the number of system resets

ASSUME SystemAssumption ==
  /\ Configs \subseteq [priority  : [PrioritySources -> Priorities],
                        enabled   : [Contexts -> SUBSET Sources],
                        threshold : [Contexts -> Priorities]]
  /\ MaxResets \in Nat

VARIABLES
  servicing,   \* per hart: the interrupts claimed and not yet completed
  booted,      \* software has configured the controller
  resets       \* system resets so far

hartVars == <<servicing, booted, resets>>
sysVars == <<vars, servicing, booted, resets>>

SysInit ==
  /\ Init
  /\ servicing = [c \in Contexts |-> {}]
  /\ booted = FALSE
  /\ resets = 0

(* The boot code's register writes, taken together. *)
Boot(cfg) ==
  /\ ~booted
  /\ booted' = TRUE
  /\ priority' = cfg.priority
  /\ enabled' = cfg.enabled
  /\ threshold' = cfg.threshold
  /\ UNCHANGED <<pending, claim_complete, src_irq_cleared, interrupts_o,
                 lineVars, servicing, resets>>

SourceEvent ==
  /\ \/ \E s \in Sources : SourceIrq(s)
     \/ \E levels \in [Sources -> BOOLEAN] : LinesChange(levels)
     \/ SourceIrqScan
  /\ UNCHANGED hartVars

HartClaim(c) ==
  /\ booted
  /\ interrupts_o[c]
  /\ ClaimRead(c)
  /\ servicing' = [servicing EXCEPT ![c] = @ \cup ({claim_complete'[c]} \ {0})]
  /\ UNCHANGED <<booted, resets>>

HartComplete(c, s) ==
  /\ s \in servicing[c]
  /\ CompleteWrite(c, s)
  /\ servicing' = [servicing EXCEPT ![c] = @ \ {s}]
  /\ UNCHANGED <<booted, resets>>

SystemReset ==
  /\ booted
  /\ resets < MaxResets
  /\ Reset
  /\ servicing' = [c \in Contexts |-> {}]
  /\ booted' = FALSE
  /\ resets' = resets + 1

SysNext ==
  \/ \E cfg \in Configs : Boot(cfg)
  \/ SourceEvent
  \/ \E c \in Contexts : HartClaim(c)
  \/ \E c \in Contexts, s \in Sources : HartComplete(c, s)
  \/ SystemReset

SysSafety == SysInit /\ [][SysNext]_sysVars

(* A hart whose interrupt line is high takes the trap, and a handler that   *)
(* was entered finishes.  Nothing forces a source to fire.                  *)
Fairness ==
  /\ \A c \in Contexts : WF_sysVars(HartClaim(c))
  /\ \A c \in Contexts, s \in Sources : WF_sysVars(HartComplete(c, s))
  /\ WF_sysVars(SourceIrqScan /\ UNCHANGED hartVars)

SysSpec == SysSafety /\ Fairness

-----------------------------------------------------------------------------
SysTypeOK ==
  /\ TypeOK
  /\ servicing \in [Contexts -> SUBSET Sources]
  /\ booted \in BOOLEAN
  /\ resets \in 0..MaxResets

(* No interrupt is serviced by two harts at once, although both read it as  *)
(* pending and both outputs were raised for it.                             *)
OneOwner ==
  \A c, d \in Contexts : c # d => servicing[c] \cap servicing[d] = {}

(* The gateway of a source is shut from its acceptance until its completion *)
(* has been written, and a source in service is not pending a second time,  *)
(* whichever harts claim and complete around it.                            *)
GatewayShut ==
  /\ \A s \in pending : ~src_irq_cleared[s]
  /\ \A c \in Contexts : \A s \in servicing[c] :
       s \notin pending /\ ~src_irq_cleared[s]

(* What a hart services stays enabled for it, so that the test at plic.h:343 *)
(* never swallows its completion; before boot nothing is in service.         *)
CompletionIsHeard ==
  \A c \in Contexts :
    /\ servicing[c] \subseteq enabled[c]
    /\ ~booted => servicing[c] = {}

(* The inductive invariant of the controller and its harts. *)
SysInv == SysTypeOK /\ OneOwner /\ GatewayShut /\ CompletionIsHeard

(* A source nobody can hear again: its gateway is shut, it is not pending,  *)
(* and no hart is going to complete it.                                     *)
Dead(s) ==
  /\ ~src_irq_cleared[s]
  /\ s \notin pending
  /\ \A c \in Contexts : s \notin servicing[c]

(* Only a reset kills a source: it clears the pending bits and restarts the *)
(* harts but leaves src_irq_cleared false (plic.h:252).  No interleaving of *)
(* events, claims and completions of several harts does.                    *)
DeadOnlyByReset ==
  [][\A s \in Sources : ~Dead(s) /\ Dead(s)' => SystemReset]_sysVars

(* An interrupt that beats all others enabled for a signalled hart, above   *)
(* its threshold, is claimed, however often the others fire.                *)
Foremost(s) ==
  /\ s \in pending /\ s \in PrioritySources
  /\ \E c \in Contexts :
       /\ interrupts_o[c] /\ s \in enabled[c] /\ priority[s] > threshold[c]
       /\ \A stray \in Strays : \A t \in enabled[c] : Beats(stray, s, t)

ForemostIsClaimed ==
  \A s \in Sources : Foremost(s) ~> (s \notin pending \/ ~booted)

(* A spurious output, left high by the claim of another hart, is taken back *)
(* by the claim it provokes.                                                *)
SpuriousIsTakenBack ==
  \A c \in Contexts : Spurious(c) /\ booted ~> (~Spurious(c) \/ ~booted)

(* The controller and its harts implement the gateway of PlicGateway.       *)
Gateway == INSTANCE PlicGateway WITH
  accepted <- pending,
  owned    <- servicing,
  shut     <- {s \in Sources : Dead(s)}

ImplementsGateway == Gateway!GwSpec

=============================================================================
