--------------------------- MODULE MCWebdavFile ---------------------------
(* WebdavFile for TLC: two handles that write different chunks, a file of  *)
(* two chunks on the server (RemoveAll makes it missing), and Seeks to the *)
(* start, to the last chunk and one back from the position.                *)
EXTENDS WebdavFile

CONSTANTS w1, w2

MCWriters == {w1, w2}
MCChunks == [w \in MCWriters |-> IF w = w1 THEN {1} ELSE {2}]
MCPrevious == {Stored(<<1, 2>>)}
MCSeeks == {<<0, 0>>, <<-1, 1>>, <<-1, 2>>}
=============================================================================
