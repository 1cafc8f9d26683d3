---------------------------- MODULE MCLifecycle ----------------------------
\* The Gateway client through three faults, with sessions of a few dispatches.
EXTENDS GatewayLifecycle
=============================================================================
