---------------------------- MODULE MC_DomainUart ----------------------------
EXTENDS DomainUart, TLC

CONSTANTS v1, v2, v3, x3F8, x2F8, x3E8, x2E8

\* Three vCPUs: the pass-through UART is made again for each one.
MCVcpus == {v1, v2, v3}

MCComOrder == <<x3F8, x2F8, x3E8, x2E8>>

=============================================================================
