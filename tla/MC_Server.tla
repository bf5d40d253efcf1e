------------------------------ MODULE MC_Server ------------------------------
\* The worker count and the useCurThreadServer values are plain numbers in the cfgs.
EXTENDS Server
====
