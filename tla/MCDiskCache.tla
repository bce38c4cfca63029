---------------------------- MODULE MCDiskCache -----------------------------
\* Two sizes of entry: one of "big" and one of "small" exceed a limit of 2.
EXTENDS DiskCache

Sizes == [v \in Values |-> IF v = "big" THEN 2 ELSE 1]
=============================================================================
