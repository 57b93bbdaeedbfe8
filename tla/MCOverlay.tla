------------------------------- MODULE MCOverlay -------------------------------
(***************************************************************************)
(* Instances of OverlayFs: two directories that may each hold a file, over *)
(* one lower layer that has one of them or over two lower layers that have *)
(* both, and one directory with two names beside it for hard links.        *)
(***************************************************************************)
EXTENDS OverlayFs

TwoDirs == {<<"a">>, <<"a", "x">>, <<"b">>, <<"b", "x">>}
LinkPaths == {<<"a">>, <<"a", "x">>, <<"b">>, <<"c">>}
AllPaths == TwoDirs \cup LinkPaths
TheFiles == {<<"a", "x">>, <<"b", "x">>}

LayerA == [p \in {<<"a">>, <<"a", "x">>} |-> IF p = <<"a">> THEN DirEntry ELSE FileEntry(<<"l">>)]
LayerB == [p \in {<<"b">>} |-> DirEntry]

OneLayer == {<<LayerA>>}
Stacks == OneLayer \cup {<<LayerB, LayerA>>}

OverlayLinkNext ==
    \/ \E old, new \in LinkPaths : PairCall(old, new)
    \/ \E p \in LinkPaths, v \in OvValues : WriteFile(p, v) \/ RemoveFile(p)
================================================================================
