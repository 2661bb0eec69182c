------------------------------ MODULE MCDbManager ------------------------------
EXTENDS DbManager
CONSTANTS m1, m2, f1, b1
OneBlock == [b \in Block |-> f1]
===============================================================================
