---------------------------- MODULE MCContribute ----------------------------
EXTENDS Contribute
=============================================================================
