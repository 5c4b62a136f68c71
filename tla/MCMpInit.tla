------------------------------ MODULE MCMpInit ------------------------------
(* TLC instance of MpInit. *)
EXTENDS MpInit

Config(p, m, s, b, e) ==
  [parallel |-> p, microcode |-> m, serial |-> s, backup |-> b, smm |-> e]

\* Each setting is met with both values.  Microcode is loaded in the
\* configuration without SMM, so that the two long phases do not multiply.
MCConfigs ==
  {Config(TRUE, FALSE, TRUE, TRUE, TRUE), Config(FALSE, FALSE, FALSE, TRUE, TRUE),
   Config(TRUE, TRUE, FALSE, FALSE, FALSE)}

\* The platform does not allow parallel microcode loading.
SerialMicrocode == {c \in AllConfigs : c.microcode /\ ~c.parallel}
=============================================================================
