------------------------------- MODULE MCConsent ------------------------------
\* One pair of users.
EXTENDS Consent

CONSTANTS u1, u2
================================================================================
