------------------------------- MODULE MCPart --------------------------------
(* Which of the modules side by side in MCShell a behaviour is one of.      *)
VARIABLE part
==============================================================================
