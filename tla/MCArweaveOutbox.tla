-------------------------- MODULE MCArweaveOutbox --------------------------
EXTENDS ArweaveOutbox
=============================================================================
