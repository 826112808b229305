--------------------------- MODULE MCRealtimeCore ---------------------------
EXTENDS RealtimeCore
=============================================================================
