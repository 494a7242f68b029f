---------------------------- MODULE MCStallRecovery ----------------------------
(***************************************************************************)
(* StallRecovery in steps of five minutes, which divide every threshold of *)
(* the code; a minute more or less than a threshold is then five.          *)
(***************************************************************************)
EXTENDS StallRecovery
=============================================================================
