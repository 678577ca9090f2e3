------------------------------ MODULE MCFederate ------------------------------
EXTENDS FederateController
=============================================================================
