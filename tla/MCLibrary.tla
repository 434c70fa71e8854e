------------------------------ MODULE MCLibrary ------------------------------
EXTENDS Library
=============================================================================
