--------------------------- MODULE MCServerCommand ---------------------------
EXTENDS ServerCommand

MCProcTypes == {"worker", "reactor"}
=============================================================================
