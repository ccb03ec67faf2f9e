---------------------------- MODULE MCIovSample ----------------------------
EXTENDS IovSample

Budgets == <<2, 1, 1, 0>>
=============================================================================
