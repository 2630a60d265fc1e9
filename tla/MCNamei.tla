------------------------------- MODULE MCNamei ------------------------------
EXTENDS Namei
CONSTANTS t1, t2
MCPaths == [t \in {t1, t2} |-> IF t = t1 THEN {<<"/", "d">>, <<"/", "d", "a">>}
                                         ELSE {<<"/", "d">>, <<"a">>, <<"/", "d", "">>}]
MCOps == [t \in {t1, t2} |-> IF t = t1 THEN {"creat", "mkdir", "rmdir", "unlink", "fork"}
                             ELSE {"mknod", "link", "unlink", "rmdir", "chdir", "dup", "close", "exit"}]
=============================================================================
