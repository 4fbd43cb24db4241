----------------------------- MODULE MCRangeDecoder ----------------------------
(* Instances of RangeDecoder for TLC. *)
EXTENDS RangeDecoder, SequencesExt

\* The engine's encoding, as the decoder reads it.
Word(n) == <<n % Base, n \div Base>>
Text(s) == Word(Len(s)) \o s
EncodePair(p) == Text(p.key) \o Text(p.value)
Encode(ps) == Word(Len(ps)) \o FlattenSeq([i \in DOMAIN ps |-> EncodePair(ps[i])])

\* Lists of at most two pairs; the long ones make answers of Uint32s bytes and more.
Texts == {<<>>, <<1>>, <<3, 0>>, <<2, 2, 2, 2, 2>>}
Pairs == [key : Texts, value : Texts]
Lists == {<<>>} \cup {<<p>> : p \in Pairs} \cup {<<p, q>> : p \in Pairs, q \in Pairs}

Starts(ps) == [i \in 1..(Len(ps) + 1) |-> Len(Encode(SubSeq(ps, 1, i - 1)))]

Answer(buf, rest, ps, kind) ==
  [buf |-> buf, rest |-> rest, pairs |-> ps, starts |-> Starts(ps), kind |-> kind]
Whole == {Answer(Encode(ps), <<>>, ps, "whole") : ps \in Lists}
Cut ==
  UNION {{Answer(SubSeq(a.buf, 1, n), SubSeq(a.buf, n + 1, Len(a.buf)), a.pairs, "cut") :
            n \in 0..(Len(a.buf) - 1)} : a \in Whole}
Garbage ==
  {Answer(b, <<>>, <<>>, "other") : b \in UNION {[1..n -> Byte] : n \in 0..6}}

MCAnswers == Whole \cup Cut \cup Garbage
================================================================================
