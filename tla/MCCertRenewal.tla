--------------------------- MODULE MCCertRenewal ---------------------------
(* Values of the CertRenewal constants for TLC.                            *)
EXTENDS CertRenewal

AllFaults == {"disk", "gateway", "blind"}
=============================================================================
