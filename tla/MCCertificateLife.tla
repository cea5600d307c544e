------------------------- MODULE MCCertificateLife -------------------------
(* CertificateLife for TLC: three interchangeable requests.                  *)
EXTENDS CertificateLife, TLC

Symmetry == Permutations(Handlers)
=============================================================================
