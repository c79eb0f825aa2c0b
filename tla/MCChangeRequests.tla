---------------------------- MODULE MCChangeRequests ----------------------------
\* Nothing to add: every constant is given its value in the cfg.
EXTENDS ChangeRequests
=================================================================================
