-------------------------- MODULE MCCertificateChain --------------------------
(* Constants of the model-checked instance of CertificateChain. *)
EXTENDS CertificateChain

CONSTANTS o1, a1, a2

MCChainOf == [c \in Call |-> o1]
=============================================================================
