------------------------------- MODULE MCMCP -------------------------------
EXTENDS MCP
CONSTANTS s1, q1
=============================================================================
