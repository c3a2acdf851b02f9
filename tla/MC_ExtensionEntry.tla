-------------------------- MODULE MC_ExtensionEntry --------------------------
EXTENDS ExtensionEntry, TLC

CONSTANTS p1, p2, p3, p4, p5, p6

\* Six PPs, so that the PPs bootstrap in every order and any subset of them
\* runs a VPS when a dispatch returns.
MCPps == {p1, p2, p3, p4, p5, p6}

=============================================================================
