----------------------------- MODULE MCPagination -----------------------------
EXTENDS Pagination, TLC

Rows3 == Permutations(Row)
================================================================================
