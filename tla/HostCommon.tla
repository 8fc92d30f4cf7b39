----------------------------- MODULE HostCommon -----------------------------
(* What the modules of the host's tools share: the absence of a value, the *)
(* None of their sources.                                                  *)
CONSTANT None
=============================================================================
