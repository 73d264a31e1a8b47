------------------------------- MODULE MCExtInfo -------------------------------
EXTENDS ExtInfo
=============================================================================
