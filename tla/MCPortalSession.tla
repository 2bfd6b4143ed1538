-------------------------- MODULE MCPortalSession --------------------------
\* One portal session on a small instance.
EXTENDS PortalSession
=============================================================================
