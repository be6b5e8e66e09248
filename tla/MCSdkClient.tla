---------------------------- MODULE MCSdkClient ----------------------------
(***************************************************************************)
(* Instances of SdkClient for TLC.                                         *)
(***************************************************************************)
EXTENDS SdkClient

\* A path with a query, and one that is a whole URL.
MCPaths == {[name |-> "/api/ai/summarize", query |-> "?v=1", absolute |-> FALSE],
            [name |-> "/api/ai/summarize", query |-> None, absolute |-> TRUE]}
=============================================================================
