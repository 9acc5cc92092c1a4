---------------------------- MODULE MCSabfsNames ----------------------------
(* Names "a" and "b": files in the root and in a directory "a".            *)
EXTENDS SabfsNames

Plain    == {<<0, <<"a">>>>, <<0, <<"b">>>>, <<0, <<"a", "b">>>>}
Spelled  == Plain \union {<<1, <<"a", "b">>>>}      \* and "/a//b"
NoLinks  == {}
LinkToB  == {[abs |-> FALSE, parts |-> <<"b">>]}

(* The view of a state: no step and no property of the run depends on     *)
(* what the last call returned, on whether the root is in the cache, or on *)
(* the link count of a directory.                                          *)
Matters ==
    <<kind, [i \in Ino |-> IF kind[i] = "dir" THEN 0 ELSE nlink[i]], target,
      slots, freeInode, freeBlocks, ghosts,
      [w \in Workers |-> [p \in Keys \ {<<0, <<>>>>} |-> cache[w][p]]]>>
=============================================================================
