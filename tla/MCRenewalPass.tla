--------------------------- MODULE MCRenewalPass ----------------------------
(* Values of the RenewalPass constants for TLC.                            *)
EXTENDS RenewalPass

Everything == AllPassFaults

\* An instance that can be renewed among three or more blind ones, at and
\* beyond the most that cannot end every pass.
BlindFleets ==
  {h \in [Instances -> {"ok", "blind", "stuck"}] :
     /\ \E i \in Instances : h[i] = "ok"
     /\ Cardinality({i \in Instances : h[i] = "blind"}) > 2}
=============================================================================
