--------------------------- MODULE MCComposeKeys ---------------------------
(* Model-checking instance of ComposeKeys.                                *)
EXTENDS ComposeKeys
=============================================================================
