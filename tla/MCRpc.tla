------------------------------- MODULE MCRpc -------------------------------
(* Instances of Rpc for TLC: the MCP frontend, whose calls have deadlines, *)
(* and a command of the CLI, whose calls mostly have none.                 *)
EXTENDS RpcChannel

=============================================================================
