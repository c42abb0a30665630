--------------------------- MODULE MCPolicyIntake ---------------------------
EXTENDS PolicyIntake
=============================================================================
