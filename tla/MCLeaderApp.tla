---- MODULE MCLeaderApp ----
EXTENDS LeaderApp
====
