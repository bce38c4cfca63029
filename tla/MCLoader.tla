------------------------------ MODULE MCLoader ------------------------------
\* The other constants are given by the configurations.
EXTENDS Loader

TwoFiles == [k \in {"b", "c"} |-> k]
\* c is the directory of a package, b the dotted name of its entry file.
PackageAndEntry == [k \in {"b", "c"} |-> "c/main.cat"]
=============================================================================
