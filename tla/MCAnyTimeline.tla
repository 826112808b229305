--------------------------- MODULE MCAnyTimeline ---------------------------
EXTENDS DownTime
=============================================================================
