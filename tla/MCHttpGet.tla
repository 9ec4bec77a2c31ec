----------------------------- MODULE MCHttpGet ------------------------------
EXTENDS HttpGet
=============================================================================
