----------------------------- MODULE MCAutodump -----------------------------
EXTENDS Autodump, TLC
=============================================================================
