---------------------------- MODULE MCHeartbeat ----------------------------
\* The heartbeats over four intervals, with as many as three in flight.
EXTENDS Heartbeat
=============================================================================
