--------------------------- MODULE MCPlatformReg ---------------------------
(* PlatformReg on small instances: see the configuration.                 *)
EXTENDS PlatformReg
=============================================================================
