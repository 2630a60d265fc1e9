----------------------------- MODULE MCFileData -----------------------------
EXTENDS FileData
MCLimit == <<8, 2>>
MCOps == <<{"lseek", "read", "write"}, {"append"}>>
=============================================================================
