---------------------------- MODULE MCThreadPool ----------------------------
EXTENDS ThreadPool
=============================================================================
