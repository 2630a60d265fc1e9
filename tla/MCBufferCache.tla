--------------------------- MODULE MCBufferCache ---------------------------
EXTENDS BufferCache

CONSTANTS b1, b2, t1

Order2 == <<b1, b2>>

(* Two blocks of a file system and one of a raw device. *)
ThreeBlocks == {<<1, 1>>, <<1, 2>>, <<2, 1>>}

AheadAndWrite ==
  [t \in Tasks |-> IF t = t1 THEN {"breada", "sync_dev", "sys_sync"}
                   ELSE {"bread", "block_write"}]
=============================================================================
