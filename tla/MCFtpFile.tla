------------------------------ MODULE MCFtpFile ------------------------------
(***************************************************************************)
(* Small instances of FtpFile: a file of no, one or three bytes, Writes of *)
(* nothing, one byte and two, a word of 16 values, and Seeks to the middle *)
(* and the end of the file, back by one, and past its end.                 *)
(***************************************************************************)
EXTENDS FtpFile

MCPayloads == {<<>>, <<1>>, <<2, 0>>}
MCPrevious == {NoFile, Stored(<<1, 2, 0>>)}
MCSeeks == {<<1, 0>>, <<-1, 1>>, <<1, 2>>, <<-1, 2>>}
MCFewPayloads == {<<>>, <<2, 0>>}
MCFewSeeks == {<<1, 0>>}
=============================================================================
