----------------------------- MODULE MCPreflight -----------------------------
EXTENDS Preflight

MCServerMajors == {15, 16}
MCClientMajors == {0, 14, 16}

=============================================================================
