-------------------------------- MODULE MCMcpRpc --------------------------------
(* Small instance of the calls of an MCP server. *)
EXTENDS McpRpc
================================================================================
