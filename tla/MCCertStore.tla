---------------------------- MODULE MCCertStore ----------------------------
(***************************************************************************)
(* Instance of CertStore for TLC: liveness is checked, so no symmetry.     *)
(***************************************************************************)
EXTENDS CertStore

CONSTANTS f1, f2, f3, h1, h2
=============================================================================
