--------------------------- MODULE MCGCMessageCodec ---------------------------
(* Two ids (one is all zeros), names of up to two bytes, payloads of none and    *)
(* of two bytes, nothing, a zero or two bytes behind a message.                  *)
EXTENDS GCMessageCodec

MCIdBytes == {[i \in 1..8 |-> 0], [i \in 1..8 |-> i]}
MCNames == {<<>>, <<65>>, <<65, 66>>}
MCPayloads == {<<>>, <<5, 0>>}
MCTails == {<<>>, <<0>>, <<3, 1>>}
MCSizeLimit == 2^20
=============================================================================
