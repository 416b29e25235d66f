--------------------------- MODULE MCSortedArray ---------------------------
EXTENDS SortedArray

MCItems == 1 .. 3

=============================================================================
