------------------------------ MODULE MCService ------------------------------
EXTENDS Service
=============================================================================
