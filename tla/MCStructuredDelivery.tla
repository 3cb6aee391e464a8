-------------------------- MODULE MCStructuredDelivery --------------------------
(* Small instances of StructuredDelivery.                                     *)
EXTENDS StructuredDelivery

allPolicies == {"queue", "steer-if-active", "interrupt-active"}
=============================================================================
