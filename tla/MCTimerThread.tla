--------------------------- MODULE MCTimerThread ---------------------------
\* The timer thread with two Ruby threads.
EXTENDS TimerThread
=============================================================================
