----------------------------- MODULE MCCliAdapter -----------------------------
(* An instance of CliAdapter for TLC.                                        *)
EXTENDS CliAdapter
=============================================================================
