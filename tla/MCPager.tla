------------------------------ MODULE MCPager ------------------------------
\* Two channels and three requests, whose ids wrap around; a queue of two places
\* and a ring of one, so that both overflow.
EXTENDS HistoryPager
=============================================================================
