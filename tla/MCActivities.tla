---------------------------- MODULE MCActivities ----------------------------
EXTENDS NewTransactionStarts
=============================================================================
