---------------------------- MODULE MCSabfsFile -----------------------------
(* One direct block, two under the indirect block and two of the double    *)
(* indirect ones: every path of allocBlockForFile, with few enough         *)
(* data blocks that each of its allocations can be the one that fails.     *)
EXTENDS SabfsFile

CONSTANTS w1, w2, f1, f2

(* Every file has one writer.                                              *)
OwnFile == {w1} \X {f1} \X {1, 2} \union {w2} \X {f2} \X {0, 3, 4}

(* Every file has one writer, and both may need three blocks for a write.  *)
OwnDeepFile == {w1} \X {f1} \X {1, 2, 3} \union {w2} \X {f2} \X {0, 3}

(* Two workers write different blocks of the same file.                    *)
SharedFile == {<<w1, f1, 1>>, <<w2, f1, 2>>}

BeforeABA == ~aba
=============================================================================
