------------------------ MODULE MCSimpleMemAllocator ------------------------
EXTENDS SimpleMemAllocator

\* A word, an odd size, and a block with a coarser boundary.
MCRequests == {<<8, 8>>, <<8, 3>>, <<16, 16>>}
=============================================================================
