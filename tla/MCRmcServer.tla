---------------------------- MODULE MCRmcServer ----------------------------
EXTENDS RmcServer

CONSTANTS ana, ben

MCNames == {ana, ben}

=============================================================================
