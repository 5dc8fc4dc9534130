-------------------------------- MODULE MCBackup --------------------------------
(* Model checking Backup: files of two chunks, so that a transfer can stop *)
(* in the middle of one, and a second connection to go on with it.         *)
EXTENDS Backup

CONSTANTS save1, save2

TwoFiles  == {save1, save2}
OneOfTwo  == {save2}
TheOther  == {save1}
================================================================================
