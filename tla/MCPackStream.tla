---------------------------- MODULE MCPackStream ----------------------------
(* An instance of PackStream for TLC. *)
EXTENDS PackStream

\* Lines of no, one and two characters, up to two of them.
Lines == UNION {[1..n -> {<<>>, <<0>>, <<5, NotHex>>}] : n \in 0..2}

\* A flush packet, none, part of one, a length below four, a length beyond the
\* end of the body, no number at all, and a flush packet with something after it.
Tails == {Flush, <<>>, <<0, 0>>, <<0, 0, 0, 3>>, <<15, 0, 0, 0>>, <<0, 0, NotHex, 4>>,
          <<0, 0, 0, 0, 7>>}

Small == {[typeName |-> t, size |-> s, base |-> 2, stream |-> n] :
             t \in {"commit", "ofs_delta", "ref_delta"}, s \in 0..1, n \in 1..4}

\* Packs of up to two objects, the second one small.
Packs == UNION {[1..n -> Small] : n \in 0..1}
         \union {<<a, b>> : a \in Small,
                            b \in {o \in Small : o.size = 0 /\ o.stream \in 1..2}}

NoObjects == <<>>

\* Everything that may follow the lines, before an empty pack or none; and every
\* pack, cut off anywhere near its end, after one line.
LinePushes ==
    {[lines |-> l, tail |-> t, pack |-> b, objects |-> NoObjects, claimed |-> 0, lost |-> 0] :
        l \in Lines, t \in Tails, b \in BOOLEAN}

PackPushes ==
    {[lines |-> <<<<1, NotHex>>>>, tail |-> Flush, pack |-> TRUE,
      objects |-> p, claimed |-> c, lost |-> k] : p \in Packs, c \in 0..3, k \in 0..6}

AllPushes ==
    LinePushes
    \union {p \in PackPushes : p.lost <= Len(EncodeObjects(p.objects)) + ShaLength}
=============================================================================
