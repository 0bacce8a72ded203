------------------------------ MODULE MCOneSync ------------------------------
EXTENDS OneSync

CONSTANTS A, B, x, y

Every == Entry
=============================================================================
