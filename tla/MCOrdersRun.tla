----------------------------- MODULE MCOrdersRun -----------------------------
(***************************************************************************)
(* Two calls, one without a body and one with.                             *)
(***************************************************************************)
EXTENDS OrdersRun

Get == [body |-> FALSE, keepAlive |-> TRUE, fault |-> "none"]
Put == [body |-> TRUE, keepAlive |-> TRUE, fault |-> "none"]

TwoCalls == <<Get, Put>>
MCSendable == {Get, Put}
=============================================================================
