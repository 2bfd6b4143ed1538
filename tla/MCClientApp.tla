---------------------------- MODULE MCClientApp ----------------------------
\* The browser application on a small instance.
EXTENDS ClientApp
=============================================================================
