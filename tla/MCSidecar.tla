----------------------------- MODULE MCSidecar -----------------------------
(* TLC instances of Sidecar. *)
EXTENDS Sidecar

AnyOp    == Ops \ {"CONNECT"}
Anything == FailureKinds
=============================================================================
