---- MODULE MCBaSession ----
EXTENDS BaSession
====
