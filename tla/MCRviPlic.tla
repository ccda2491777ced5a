------------------------------ MODULE MCRviPlic ------------------------------
(***************************************************************************)
(* RviPlic in both its builds: `build' is chosen once and tells which of   *)
(* the two callbacks hears the sources.  The properties are those of       *)
(* RviPlic, which do not depend on the build.                              *)
(***************************************************************************)
EXTENDS RviPlic

VARIABLE build

Tlm    == INSTANCE RviPlic WITH SC_SIGNAL_IF <- FALSE
Signal == INSTANCE RviPlic WITH SC_SIGNAL_IF <- TRUE

BothInit == Init /\ build \in {"tlm", "sc_signal"}

BothNext ==
  /\ UNCHANGED build
  /\ \/ build = "tlm"       /\ Tlm!Next
     \/ build = "sc_signal" /\ Signal!Next

BothSpec == BothInit /\ [][BothNext]_<<vars, build>>

=============================================================================
