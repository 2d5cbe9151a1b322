---------------------------- MODULE MCBanditArms ----------------------------
EXTENDS BanditArms
=============================================================================
