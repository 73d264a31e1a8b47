---- MODULE MCIpc ----
EXTENDS Ipc
====
