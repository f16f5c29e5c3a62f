------------------------- MODULE MCThreadSafeQueue -------------------------
EXTENDS ThreadSafeQueue
=============================================================================
