----------------------------- MODULE MCMCPManager -----------------------------
(* Small instance of the MCP manager. *)
EXTENDS MCPManager, TLC

CONSTANTS fs, web, search, fetch

MCNames == {search, fetch}
MCConfigs == {[on |-> TRUE, offers |-> {search}], [on |-> FALSE, offers |-> {search}]}
MCYaml == fs :> [on |-> TRUE, offers |-> {search, fetch}]

MCSymmetry == Permutations(Ops)
================================================================================
