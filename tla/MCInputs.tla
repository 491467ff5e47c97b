------------------------------ MODULE MCInputs ------------------------------
EXTENDS Inputs
=============================================================================
