-------------------------- MODULE MCStructRegistry --------------------------
\* The constants are given by the configurations.
EXTENDS StructRegistry
=============================================================================
