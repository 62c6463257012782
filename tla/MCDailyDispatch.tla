--------------------------- MODULE MCDailyDispatch ---------------------------
\* A day of two hours: both messages are due in the first; the retry of the
\* briefing and the alert about the evening brief belong to the second.
EXTENDS DailyDispatch
=============================================================================
