------------------------------ MODULE MCSender ------------------------------
(* Model-checking instances of Sender.                                      *)
EXTENDS Sender
=============================================================================
