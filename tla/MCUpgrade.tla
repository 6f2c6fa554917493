----------------------------- MODULE MCUpgrade ------------------------------
EXTENDS Upgrade
=============================================================================
