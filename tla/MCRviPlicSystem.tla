-------------------------- MODULE MCRviPlicSystem --------------------------
(* Boot configurations for TLC: ascending and equal priorities, every        *)
(* context enabling everything or the contexts sharing only one source, and  *)
(* a threshold that masks the low priorities of one context.                 *)
EXTENDS RviPlicSystem

MCConfigs ==
  [priority  : {[s \in PrioritySources |-> s], [s \in PrioritySources |-> 1]},
   enabled   : {[c \in Contexts |-> Sources],
                [c \in Contexts |-> Sources \cap {1, c + 2}]},
   threshold : {[c \in Contexts |-> 0], [c \in Contexts |-> c]}]

=============================================================================
