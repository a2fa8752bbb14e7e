------------------------------- MODULE Unread -------------------------------
\* What a page of the web client has not read, has not been told or does not wait for, and
\* what the calculations have no value for.
CONSTANT None
=============================================================================
