------------------------------- MODULE MCCtl --------------------------------
EXTENDS Ctl
=============================================================================
