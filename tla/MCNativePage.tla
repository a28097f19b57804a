---------------------------- MODULE MCNativePage ----------------------------
(* Small instances of NativePage for TLC.                                    *)
EXTENDS NativePage

CONSTANTS s, a, b
=============================================================================
