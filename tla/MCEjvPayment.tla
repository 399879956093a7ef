---------------------------- MODULE MCEjvPayment ----------------------------
(* Instances of EjvPayment for TLC.                                        *)
EXTENDS EjvPayment

CONSTANTS i1, i2
=============================================================================
