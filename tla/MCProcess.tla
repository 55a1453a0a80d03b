------------------------------ MODULE MCProcess ------------------------------
(***************************************************************************)
(* Bounds for model checking Process.                                      *)
(***************************************************************************)
EXTENDS Process

\* Two signals, lost sessions or crashes, and a decision.
SomeBounds == [stops |-> 2, requests |-> 1]
=============================================================================
