----------------------------- MODULE MCFileReader -----------------------------
(***************************************************************************)
(* Values for the constants of FileReader.                                 *)
(***************************************************************************)
EXTENDS FileReader

\* Nothing, part of a record, files that fill a header buffer of 8 or buffers of 6
\* just so, one byte less and one more, and files around the span of 32: with 33 and
\* 35 bytes the wrapped offset of a log gets unaligned, with 32 and 38 it does not.
MCLengths == {0, 1, 6, 8, 9, 11, 12, 13, 31, 32, 33, 35, 38}

=============================================================================
