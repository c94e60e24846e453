---------------------------- MODULE MCPrintUtils ----------------------------
(* Model-checking instance of the buffered output.  EvenLines fill the     *)
(* buffers without remainder, as 32-byte lines fill 4096 bytes; OddLines   *)
(* do not, as the 33-byte lines of lock_tests.c do not.                    *)
EXTENDS PrintUtils

MCEvenLines == [n : {4}, m : {2, 3, 4}]
MCOddLines == [n : {3}, m : {2}]
=============================================================================
