------------------------------ MODULE RangeDecoder -----------------------------
(***************************************************************************)
(* Reading the engine's answer to a range (server/engine_cgo.go): a count, *)
(* and for each pair the length and the bytes of its key and of its value. *)
(*                                                                         *)
(* The code's words are four bytes; here they are two, of any Base, which  *)
(* tells their order and lets lengths wrap around at sizes TLC can reach.  *)
(* What is left of the buffer is told by how much of it has been taken.    *)
(***************************************************************************)
EXTENDS Integers, Sequences

CONSTANTS
  Base,      \* the number of bytes there are
  Answers    \* what the engine may answer: the bytes, and what they were to stand for

WordLen == 2
Uint32s == Base * Base
Byte == 0..(Base - 1)

\* The word, or n bytes, behind the first bytes of a buffer.
le32(b, at) == b[at + 1] + Base * b[at + 2]
Bytes(b, at, n) == SubSeq(b, at + 1, at + n)

\* The bytes are the engine's encoding of ps, with the i-th pair behind starts[i] bytes.
Encodes(b, ps, starts) ==
  /\ ps \in Seq([key : Seq(Byte), value : Seq(Byte)])
  /\ starts \in [1..(Len(ps) + 1) -> 0..Len(b)]
  /\ starts[1] = WordLen /\ le32(b, 0) = Len(ps) /\ starts[Len(ps) + 1] = Len(b)
  /\ \A i \in 1..Len(ps) :
       LET p == ps[i]
           key == starts[i] + WordLen
           value == key + Len(p.key) + WordLen
       IN  /\ le32(b, starts[i]) = Len(p.key) /\ Bytes(b, key, Len(p.key)) = p.key
           /\ le32(b, value - WordLen) = Len(p.value)
           /\ Bytes(b, value, Len(p.value)) = p.value
           /\ starts[i + 1] = value + Len(p.value)

\* An answer is whole, cut short by the rest of it, or anything else.
ASSUME DecoderAssumption ==
  /\ Base \in Nat \ {0}
  /\ \A a \in Answers :
       /\ a.buf \in Seq(Byte) /\ a.rest \in Seq(Byte)
       /\ a.kind \in {"whole", "cut", "other"}
       /\ a.kind = "whole" => a.rest = <<>>
       /\ a.kind = "cut" => a.rest # <<>>
       /\ a.kind # "other" => Encodes(a.buf \o a.rest, a.pairs, a.starts)

VARIABLES
  answer,       \* the answer being read
  pc, taken,    \* the next step; how many bytes of the answer are behind it
  left,         \* pairs still to come
  length, key,  \* the length just read; the key whose value is to come
  pairs

vars == <<answer, pc, taken, left, length, key, pairs>>

Remaining == Len(answer.buf) - taken
uint32(n) == n % Uint32s
NextWord == le32(answer.buf, taken)
NextBytes(n) == Bytes(answer.buf, taken, n)

Init ==
  /\ answer \in Answers
  /\ pc = "count" /\ taken = 0 /\ left = 0 /\ length = 0 /\ key = <<>> /\ pairs = <<>>

Fail == pc' = "error" /\ UNCHANGED <<taken, left, length, key, pairs>>

\* Mutant: the loop runs once more than there are pairs.
OneMore(n) == IF n < 0 THEN "ok" ELSE "keyLength"
PairsLeft(n) == IF n = 0 THEN "ok" ELSE "keyLength"

ReadCount ==
  /\ pc = "count"
  /\ \/ Remaining < WordLen /\ Fail
     \/ /\ Remaining >= WordLen
        /\ left' = NextWord /\ taken' = taken + WordLen /\ pc' = PairsLeft(NextWord)
        /\ UNCHANGED <<length, key, pairs>>
  /\ UNCHANGED answer

ReadLength(at, next) ==
  /\ pc = at
  /\ \/ Remaining < WordLen /\ Fail
     \/ /\ Remaining >= WordLen
        /\ length' = NextWord /\ taken' = taken + WordLen /\ pc' = next
        /\ UNCHANGED <<left, key, pairs>>
  /\ UNCHANGED answer

\* Mutant: the last bytes of the buffer are not used up.
NoneToSpare == uint32(Remaining) <= length
\* Mutant: lengths are believed.
NoCheck == FALSE
TooShort == uint32(Remaining) < length

\* Slicing past the end of the buffer panics.
Take(at) ==
  /\ pc = at
  /\ \/ TooShort /\ Fail
     \/ ~TooShort /\ length > Remaining /\ pc' = "panic"
        /\ UNCHANGED <<taken, left, length, key, pairs>>
     \/ /\ ~TooShort /\ length <= Remaining
        /\ taken' = taken + length /\ UNCHANGED length
        /\ IF at = "key"
           THEN key' = NextBytes(length) /\ pc' = "valueLength" /\ UNCHANGED <<left, pairs>>
           ELSE /\ pairs' = Append(pairs, [key |-> key, value |-> NextBytes(length)])
                /\ left' = left - 1 /\ pc' = PairsLeft(left - 1) /\ UNCHANGED key
  /\ UNCHANGED answer

Next ==
  \/ ReadCount \/ ReadLength("keyLength", "key") \/ Take("key")
  \/ ReadLength("valueLength", "value") \/ Take("value")

Spec == Init /\ [][Next]_vars

-------------------------------------------------------------------------------
TypeOK ==
  /\ pc \in {"count", "keyLength", "key", "valueLength", "value", "ok", "error", "panic"}
  /\ taken \in 0..Len(answer.buf)
  /\ left \in Nat /\ length \in Nat

\* No answer, whatever its bytes and lengths, and however long, makes decodeRangeBuf
\* slice past its end, though the length left is compared modulo 2^32
\* (server/engine_cgo.go:117, 128).
NoPanic == pc # "panic"

\* An answer is decoded to the pairs it stands for or not at all: one that was cut
\* short is an error, never a shorter list, and a whole one is an error only when it
\* is too long for uint32 (server/engine_cgo.go:103-137).
ExactOrError ==
  /\ pc = "ok" /\ answer.kind # "other" => answer.kind = "whole" /\ pairs = answer.pairs
  /\ pc = "error" /\ answer.kind = "whole" => Len(answer.buf) >= Uint32s
================================================================================
