----------------------------- MODULE MCAcpRunner -----------------------------
(***************************************************************************)
(* Small instances of AcpRunner for TLC: how the children answer.          *)
(***************************************************************************)
EXTENDS AcpRunner

Obliging == {"ok"}
Arbitrary == {"ok", "bad", "error"}

=============================================================================
