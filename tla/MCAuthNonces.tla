---------------------------- MODULE MCAuthNonces ----------------------------
EXTENDS AuthNonces

CONSTANTS h1, h2, e
=============================================================================
