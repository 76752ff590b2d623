-------------------------- MODULE MCNestedRequests --------------------------
(***************************************************************************)
(* Items for NestedRequests.                                                *)
(***************************************************************************)
EXTENDS NestedRequests

MCScripts == <<"prerequest", "request", "test">>
MCTwoScripts == <<"prerequest", "prerequest", "request">>

=============================================================================
