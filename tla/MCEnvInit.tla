---- MODULE MCEnvInit ----
EXTENDS EnvInit
====
