----------------------------- MODULE MCSourceSync -----------------------------
EXTENDS SourceSync, TLC

Symmetric == Permutations(Device) \cup Permutations(Source)
================================================================================
