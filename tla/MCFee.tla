------------------------------- MODULE MCFee -------------------------------
EXTENDS Fee
=============================================================================
