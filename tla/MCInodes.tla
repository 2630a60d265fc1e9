------------------------------ MODULE MCInodes ------------------------------
EXTENDS Inodes
CONSTANTS t1, t2
MCPrivate == [t \in {t1, t2} |-> IF t = t1 THEN {3} ELSE {}]
MCOps == [t \in {t1, t2} |-> IF t = t1 THEN {"lookup", "create", "unlink", "mount", "umount", "sync"}
                                        ELSE {"lookup"}]
=============================================================================
