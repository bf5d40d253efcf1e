------------------------------- MODULE MC_WRR -------------------------------
EXTENDS WRR

\* three backends; the second is configured with weight 0, which add_backend raises to 1
MC_ConfWeight == <<2, 0, 1>>
====
