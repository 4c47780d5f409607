---------------------------- MODULE MCUsageLedger ----------------------------
EXTENDS UsageLedger

=============================================================================
