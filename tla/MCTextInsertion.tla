-------------------------- MODULE MCTextInsertion --------------------------
(* Instances of TextInsertion for TLC: "a b" is streamed; the stop commits   *)
(* it as it is, or without the space.                                       *)
EXTENDS TextInsertion

Said == <<"a", " ", "b">>
Committed == {Said, <<"a", "b">>}
=============================================================================
