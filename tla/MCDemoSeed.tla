----------------------------- MODULE MCDemoSeed -----------------------------
(* An instance of DemoSeed for TLC.                                        *)
EXTENDS DemoSeed
=============================================================================
