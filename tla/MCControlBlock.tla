---------------------------- MODULE MCControlBlock ----------------------------
EXTENDS ControlBlock

CONSTANTS t1, t2

MCThreads == {t1, t2}
====
