----------------------------- MODULE MCOutbound -----------------------------
EXTENDS Outbound
=============================================================================
