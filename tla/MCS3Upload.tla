----------------------------- MODULE MCS3Upload -----------------------------
(***************************************************************************)
(* Small instances of S3Upload: two handles on one object, bytes 0 to 2    *)
(* with 0 the byte of the placeholder, and Writes of nothing and of two    *)
(* bytes, so that a reader can stop in the middle of one.  One handle      *)
(* makes two Writes, beside one that makes a single Write.                 *)
(***************************************************************************)
EXTENDS S3Upload

CONSTANTS h1, h2

MCHandles == {h1, h2}
MCMaxWrites == [h \in Handles |-> IF h = h1 THEN 2 ELSE 1]
MCPayloads == {<<>>, <<2, 0>>}
MCPrevious == {NoObject, Object(<<1>>)}
=============================================================================
