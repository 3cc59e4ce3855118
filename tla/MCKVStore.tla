----------------------------- MODULE MCKVStore -----------------------------
\* Pages of four records, memory pages of two: as in the program, a memory page
\* divides half an index page.
EXTENDS KVStore
=============================================================================
