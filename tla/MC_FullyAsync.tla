----------------------------- MODULE MC_FullyAsync -----------------------------
EXTENDS FullyAsync
===============================================================================
