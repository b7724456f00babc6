---------------------------- MODULE ServiceValues ----------------------------
\* What the services share: the value that stands for an absent one.
CONSTANT None  \* Python's None, Go's nil, a JSON null, or no such file
=============================================================================
