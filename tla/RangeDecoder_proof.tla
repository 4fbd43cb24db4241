--------------------------- MODULE RangeDecoder_proof --------------------------
(***************************************************************************)
(* Proofs about RangeDecoder, for any number of bytes and any answers:     *)
(* decodeRangeBuf stays within its buffer, and what it returns is what the *)
(* buffer stands for.                                                      *)
(***************************************************************************)
EXTENDS RangeDecoder, TLAPS

DecoderInv ==
  /\ TypeOK
  /\ answer \in Answers
  /\ pc \in {"key", "valueLength", "value", "keyLength"} => left > 0
  /\ pc # "panic"

\* What passes the comparison modulo 2^32 is there: a length is cut down by wrapping
\* around, never stretched.
LEMMA WrapIsLess == \A n \in Nat : uint32(n) \in Nat /\ uint32(n) <= n
  BY DecoderAssumption DEF uint32, Uint32s

\* A word that lies in the buffer is a number.
LEMMA WordsAreNatural ==
  ASSUME answer \in Answers, taken \in Nat, taken + 2 <= Len(answer.buf)
  PROVE  NextWord \in Nat
<1>1. answer.buf \in Seq(0..(Base - 1)) /\ Base \in Nat \ {0}
  BY DecoderAssumption DEF Byte
<1>2. Len(answer.buf) \in Nat /\ DOMAIN answer.buf = 1..Len(answer.buf)
  BY <1>1
<1>3. answer.buf[taken + 1] \in 0..(Base - 1) /\ answer.buf[taken + 2] \in 0..(Base - 1)
  BY <1>1, <1>2
<1>4. answer.buf[taken + 1] + Base * answer.buf[taken + 2] \in Nat
  <2> DEFINE low == answer.buf[taken + 1]
             high == answer.buf[taken + 2]
  <2>1. low \in Nat /\ high \in Nat /\ Base \in Nat
    BY <1>1, <1>3
  <2> HIDE DEF low, high
  <2>2. low + Base * high \in Nat
    BY <2>1
  <2> QED
    BY <2>2 DEF low, high
<1> QED
  BY <1>4 DEF NextWord, le32

\* Every step stays within the buffer.
LEMMA DecoderStep ==
  ASSUME DecoderInv, [Next]_vars
  PROVE  DecoderInv'
<1> USE DEF DecoderInv, TypeOK, Fail, PairsLeft, Remaining, WordLen
<1>1. Len(answer.buf) \in Nat /\ taken \in Nat /\ taken <= Len(answer.buf)
  BY DecoderAssumption
<1>2. ASSUME Remaining >= WordLen PROVE NextWord \in Nat
  <2>1. taken + 2 <= Len(answer.buf)
    BY <1>1, <1>2
  <2> QED
    BY <1>1, <2>1, WordsAreNatural
<1>3. CASE ReadCount
  BY <1>1, <1>2, <1>3 DEF ReadCount
<1>4. CASE ReadLength("keyLength", "key") \/ ReadLength("valueLength", "value")
  BY <1>1, <1>2, <1>4 DEF ReadLength
<1>5. CASE Take("key") \/ Take("value")
  <2>1. Remaining \in Nat /\ uint32(Remaining) \in Nat /\ uint32(Remaining) <= Remaining
    <3>1. Remaining \in Nat
      BY <1>1
    <3> QED
      BY <3>1, WrapIsLess
  <2>2. ~TooShort => length <= Remaining
    BY <2>1 DEF TooShort
  <2> QED
    BY <1>1, <1>5, <2>1, <2>2 DEF Take
<1>6. CASE UNCHANGED vars
  BY <1>6 DEF vars
<1> QED
  BY <1>3, <1>4, <1>5, <1>6 DEF Next

\* The invariant holds before the count is read.
LEMMA DecoderInit == Init => DecoderInv
<1> SUFFICES ASSUME Init PROVE DecoderInv
  OBVIOUS
<1>1. Len(answer.buf) \in Nat
  BY DecoderAssumption DEF Init
<1> QED
  BY <1>1 DEF Init, DecoderInv, TypeOK

\* decodeRangeBuf stays within its buffer.
THEOREM TypeCorrect == Spec => []TypeOK
<1>1. DecoderInv /\ [Next]_vars => DecoderInv'
  BY DecoderStep
<1>2. DecoderInv => TypeOK
  BY DEF DecoderInv
<1> QED
  BY <1>1, <1>2, DecoderInit, PTL DEF Spec

\* However long an answer is, and whatever is in it, decodeRangeBuf does not panic.
THEOREM NeverPanics == Spec => []NoPanic
<1>1. DecoderInv /\ [Next]_vars => DecoderInv'
  BY DecoderStep
<1>2. DecoderInv => NoPanic
  BY DEF DecoderInv, NoPanic
<1> QED
  BY <1>1, <1>2, DecoderInit, PTL DEF Spec

-------------------------------------------------------------------------------
\* What is read of an encoding of pairs, whole or cut short: some of the pairs, in their
\* order, and the part of the next one that the step says.
Whole(a) == a.buf \o a.rest
Reading ==
  LET n == Len(pairs)
      at == answer.starts[n + 1]
      p == answer.pairs[n + 1]
  IN  /\ pairs \in Seq([key : Seq(Byte), value : Seq(Byte)])
      /\ n <= Len(answer.pairs) /\ \A i \in 1..n : pairs[i] = answer.pairs[i]
      /\ pc = "count" => n = 0 /\ taken = 0
      /\ pc # "count" => left = Len(answer.pairs) - n
      /\ pc \in {"keyLength", "ok"} => taken = at
      /\ pc = "ok" => n = Len(answer.pairs)
      /\ pc = "key" => taken = at + WordLen /\ length = Len(p.key)
      /\ pc \in {"valueLength", "value"} => key = p.key
      /\ pc = "valueLength" => taken = at + WordLen + Len(key)
      /\ pc = "value" => taken = at + WordLen + Len(key) + WordLen /\ length = Len(p.value)

ReadingInv ==
  /\ DecoderInv
  /\ answer.kind # "other" /\ pc # "error" => Reading
  /\ answer.kind = "whole" /\ pc = "error" => Len(answer.buf) >= Uint32s

\* Only a length that does not fit in a word is changed by the comparison's conversion.
LEMMA ShortIsKept == \A n \in Nat : n < Uint32s => uint32(n) = n
  BY DecoderAssumption DEF uint32, Uint32s

\* What the buffer has is what the whole answer has there.
LEMMA PrefixReads ==
  ASSUME NEW a \in Answers, NEW at \in Nat, NEW n \in Nat, at + n <= Len(a.buf)
  PROVE  /\ Bytes(a.buf, at, n) = Bytes(Whole(a), at, n)
         /\ n = WordLen => le32(a.buf, at) = le32(Whole(a), at)
<1>1. a.buf \in Seq(Byte) /\ a.rest \in Seq(Byte)
  BY DecoderAssumption
<1> DEFINE b == a.buf
           w == Whole(a)
<1>2. /\ b \in Seq(Byte) /\ w \in Seq(Byte) /\ Len(b) \in Nat /\ Len(b) <= Len(w)
      /\ \A i \in 1..Len(b) : w[i] = b[i]
  <2> DEFINE r == a.rest
  <2>1. b \in Seq(Byte) /\ r \in Seq(Byte) /\ w = b \o r
    BY <1>1 DEF Whole
  <2> HIDE DEF b, r, w
  <2>2. w \in Seq(Byte) /\ Len(w) = Len(b) + Len(r) /\ Len(b) \in Nat /\ Len(r) \in Nat
    BY <2>1
  <2>3. \A i \in 1..Len(b) : w[i] = b[i]
    BY <2>1
  <2> QED
    BY <2>1, <2>2, <2>3
<1>3. at + n <= Len(b)
  OBVIOUS
<1> HIDE DEF b, w
<1>4. SubSeq(b, at + 1, at + n) = SubSeq(w, at + 1, at + n)
  <2> DEFINE s == SubSeq(b, at + 1, at + n)
             t == SubSeq(w, at + 1, at + n)
  <2>1. /\ Len(s) = n /\ Len(t) = n
        /\ \A i \in 1..n : s[i] = b[at + i] /\ t[i] = w[at + i] /\ at + i \in 1..Len(b)
    BY <1>2, <1>3
  <2>2. s = [i \in 1..Len(s) |-> s[i]] /\ t = [i \in 1..Len(t) |-> t[i]]
    BY <1>2, <1>3
  <2>3. \A i \in 1..n : s[i] = t[i]
    BY <1>2, <2>1
  <2> HIDE DEF s, t
  <2>4. s = t
    BY <2>1, <2>2, <2>3
  <2> QED
    BY <2>4 DEF s, t
<1>5. n = WordLen => b[at + 1] = w[at + 1] /\ b[at + 2] = w[at + 2]
  BY <1>2, <1>3 DEF WordLen
<1> QED
  BY <1>4, <1>5 DEF Bytes, le32, b, w

\* The pair p is encoded in b, from the place at to the place next.
PairAt(b, p, at, next) ==
  LET keyAt == at + WordLen
      valueAt == keyAt + Len(p.key) + WordLen
  IN  /\ at \in Nat /\ next \in 0..Len(b)
      /\ Len(p.key) \in Nat /\ Len(p.value) \in Nat
      /\ le32(b, at) = Len(p.key) /\ Bytes(b, keyAt, Len(p.key)) = p.key
      /\ le32(b, keyAt + Len(p.key)) = Len(p.value)
      /\ Bytes(b, valueAt, Len(p.value)) = p.value
      /\ next = valueAt + Len(p.value)

\* Every pair of an encoding is encoded where the one before ends.
LEMMA PairEncoded ==
  ASSUME NEW b \in Seq(Byte), NEW ps, NEW starts, Encodes(b, ps, starts), NEW i \in 1..Len(ps)
  PROVE  /\ PairAt(b, ps[i], starts[i], starts[i + 1])
         /\ ps[i] \in [key : Seq(Byte), value : Seq(Byte)]
<1> DEFINE p == ps[i]
           keyAt == starts[i] + WordLen
           valueAt == keyAt + Len(p.key) + WordLen
<1>1. /\ ps \in Seq([key : Seq(Byte), value : Seq(Byte)])
      /\ starts \in [1..(Len(ps) + 1) -> 0..Len(b)]
  BY DEF Encodes
<1>2. /\ le32(b, starts[i]) = Len(p.key) /\ Bytes(b, keyAt, Len(p.key)) = p.key
      /\ le32(b, valueAt - WordLen) = Len(p.value)
      /\ Bytes(b, valueAt, Len(p.value)) = p.value
      /\ starts[i + 1] = valueAt + Len(p.value)
  BY DEF Encodes
<1>3. Len(ps) \in Nat /\ i \in 1..(Len(ps) + 1) /\ i + 1 \in 1..(Len(ps) + 1)
  BY <1>1
<1>4. starts[i] \in Nat /\ starts[i + 1] \in 0..Len(b)
  <2>1. \A j \in 1..(Len(ps) + 1) : starts[j] \in 0..Len(b)
    BY <1>1
  <2>2. starts[i] \in 0..Len(b) /\ starts[i + 1] \in 0..Len(b)
    BY <1>3, <2>1
  <2> QED
    BY <2>2
<1>5. p \in [key : Seq(Byte), value : Seq(Byte)]
  <2> DEFINE T == [key : Seq(Byte), value : Seq(Byte)]
  <2>1. ps \in Seq(T)
    BY <1>1
  <2> HIDE DEF T
  <2>2. ps[i] \in T
    BY <2>1
  <2> QED
    BY <2>2 DEF T
<1>6. Len(p.key) \in Nat /\ Len(p.value) \in Nat
  BY <1>5
<1> HIDE DEF p
<1>7. valueAt - WordLen = keyAt + Len(p.key)
  BY <1>4, <1>6 DEF WordLen
<1>8. PairAt(b, p, starts[i], starts[i + 1])
  BY <1>2, <1>4, <1>6, <1>7 DEF PairAt
<1> QED
  BY <1>5, <1>8 DEF p

\* What is read of an answer that was whole or cut is an encoding.
LEMMA AnswerEncodes ==
  ASSUME NEW a \in Answers, a.kind # "other"
  PROVE  /\ Whole(a) \in Seq(Byte) /\ Encodes(Whole(a), a.pairs, a.starts)
         /\ Len(a.buf) \in Nat /\ Len(a.rest) \in Nat
         /\ Len(Whole(a)) = Len(a.buf) + Len(a.rest)
         /\ a.kind = "whole" => Len(a.rest) = 0
         /\ Len(a.rest) = 0 => a.kind = "whole"
<1>1. /\ a.buf \in Seq(Byte) /\ a.rest \in Seq(Byte)
      /\ a.kind \in {"whole", "cut", "other"}
      /\ a.kind = "whole" => a.rest = <<>>
      /\ a.kind = "cut" => a.rest # <<>>
      /\ Encodes(Whole(a), a.pairs, a.starts)
  BY DecoderAssumption DEF Whole
<1>2. Len(a.rest) = 0 <=> a.rest = <<>>
  BY <1>1
<1> QED
  BY <1>1, <1>2 DEF Whole

\* Where the decoder is in the next pair, while it is in one.
LEMMA NextPair ==
  ASSUME ReadingInv, answer.kind # "other",
         pc \in {"keyLength", "key", "valueLength", "value"}
  PROVE  LET n == Len(pairs)
         IN  /\ n \in Nat /\ n + 1 \in 1..Len(answer.pairs)
             /\ PairAt(Whole(answer), answer.pairs[n + 1], answer.starts[n + 1],
                       answer.starts[n + 2])
             /\ answer.pairs[n + 1] \in [key : Seq(Byte), value : Seq(Byte)]
<1> DEFINE n == Len(pairs)
<1>1. answer \in Answers /\ Reading /\ left > 0 /\ left \in Nat
  BY DEF ReadingInv, DecoderInv, TypeOK
<1>2. Whole(answer) \in Seq(Byte) /\ Encodes(Whole(answer), answer.pairs, answer.starts)
  BY <1>1, AnswerEncodes
<1>3. n \in Nat /\ left = Len(answer.pairs) - n /\ n <= Len(answer.pairs)
  BY <1>1 DEF Reading
<1>4. Len(answer.pairs) \in Nat
  BY <1>2 DEF Encodes
<1>5. n + 1 \in 1..Len(answer.pairs) /\ (n + 1) + 1 = n + 2
  BY <1>1, <1>3, <1>4
<1> HIDE DEF n
<1> QED
  BY <1>2, <1>3, <1>5, PairEncoded DEF n

\* A step that fails fails on a whole answer only if it is too long for uint32.
LEMMA FailOnlyLong ==
  ASSUME ReadingInv, answer.kind = "whole", Next, pc' = "error"
  PROVE  Len(answer.buf) >= Uint32s
<1> DEFINE n == Len(pairs)
           p == answer.pairs[n + 1]
           at == answer.starts[n + 1]
           next == answer.starts[n + 2]
           w == Whole(answer)
           len == Len(answer.buf)
<1>1. /\ answer \in Answers /\ Len(w) = len /\ len \in Nat
      /\ Encodes(w, answer.pairs, answer.starts)
  <2>1. answer \in Answers
    BY DEF ReadingInv, DecoderInv
  <2>2. /\ Encodes(w, answer.pairs, answer.starts)
        /\ len \in Nat /\ Len(answer.rest) = 0 /\ Len(w) = len + Len(answer.rest)
    BY <2>1, AnswerEncodes
  <2> QED
    BY <2>1, <2>2
<1>2. DecoderInv /\ (pc # "error" => Reading)
  BY DEF ReadingInv
<1>3. pc \in {"keyLength", "key", "valueLength", "value"} =>
        /\ at \in Nat /\ Len(p.key) \in Nat /\ Len(p.value) \in Nat /\ next \in 0..len
        /\ next = at + WordLen + Len(p.key) + WordLen + Len(p.value)
  BY <1>1, NextPair DEF PairAt
<1> HIDE DEF n, p, at, next, w, len
<1>4. CASE ReadCount
  <2>1. taken = 0 /\ Remaining < WordLen
    BY <1>2, <1>4 DEF ReadCount, Reading, PairsLeft
  <2>2. answer.starts[1] = WordLen /\ answer.starts[1] \in 0..len
    <3>1. /\ answer.starts \in [1..(Len(answer.pairs) + 1) -> 0..Len(w)]
          /\ Len(answer.pairs) \in Nat /\ answer.starts[1] = WordLen
      BY <1>1 DEF Encodes
    <3>2. answer.starts[1] \in 0..Len(w)
      BY <3>1
    <3> QED
      BY <1>1, <3>1, <3>2
  <2> QED
    BY <1>1, <2>1, <2>2 DEF Remaining, WordLen, len
<1>5. CASE ReadLength("keyLength", "key")
  <2>1. pc = "keyLength" /\ Remaining < WordLen
    BY <1>5 DEF ReadLength
  <2>2. taken = at
    BY <1>2, <2>1 DEF Reading, n, at
  <2> QED
    BY <1>1, <1>3, <2>1, <2>2 DEF Remaining, WordLen, len
<1>6. CASE ReadLength("valueLength", "value")
  <2>1. pc = "valueLength" /\ Remaining < WordLen
    BY <1>6 DEF ReadLength
  <2>2. taken = at + WordLen + Len(p.key)
    BY <1>2, <2>1 DEF Reading, n, p, at
  <2> QED
    BY <1>1, <1>3, <2>1, <2>2 DEF Remaining, WordLen, len
<1>7. CASE Take("key") \/ Take("value")
  <2>1. pc \in {"key", "value"} /\ TooShort
    BY <1>7 DEF Take, PairsLeft
  <2>2. /\ at \in Nat /\ Len(p.key) \in Nat /\ Len(p.value) \in Nat
        /\ next = at + WordLen + Len(p.key) + WordLen + Len(p.value)
    BY <1>3, <2>1
  <2>3. taken + length <= next /\ taken \in Nat /\ length \in Nat
    <3> DEFINE keyLen == Len(p.key)
               valueLen == Len(p.value)
    <3>1. taken \in Nat /\ length \in Nat
      BY <1>2 DEF DecoderInv, TypeOK
    <3>2. \/ taken = at + 2 /\ length = keyLen
          \/ taken = at + 2 + keyLen + 2 /\ length = valueLen
      BY <1>2, <2>1 DEF Reading, n, p, at, WordLen
    <3>3. /\ at \in Nat /\ keyLen \in Nat /\ valueLen \in Nat
          /\ next = at + 2 + keyLen + 2 + valueLen
      BY <2>2 DEF WordLen
    <3> HIDE DEF keyLen, valueLen
    <3>4. taken + length <= next
      BY <3>1, <3>2, <3>3
    <3> QED
      BY <3>1, <3>4
  <2>4. next \in 0..len
    BY <1>3, <2>1
  <2>5. Remaining \in Nat /\ length <= Remaining /\ Remaining <= len
    BY <1>1, <2>3, <2>4 DEF Remaining, len
  <2>6. uint32(Remaining) < length
    BY <2>1 DEF TooShort
  <2>7. Uint32s \in Nat
    BY DecoderAssumption DEF Uint32s
  <2>8. ~(Remaining < Uint32s)
    BY <2>3, <2>5, <2>6, <2>7, ShortIsKept
  <2> QED
    BY <1>1, <2>5, <2>7, <2>8 DEF len
<1> QED
  BY <1>4, <1>5, <1>6, <1>7 DEF Next

\* A step that does not fail reads the next part of the encoding.
LEMMA ReadsOn ==
  ASSUME ReadingInv, answer.kind # "other", Next, pc' # "error"
  PROVE  Reading'
<1> DEFINE n == Len(pairs)
           p == answer.pairs[n + 1]
           at == answer.starts[n + 1]
           next == answer.starts[n + 2]
           w == Whole(answer)
           buf == answer.buf
<1>1. answer \in Answers /\ Encodes(w, answer.pairs, answer.starts) /\ Len(buf) \in Nat
  BY AnswerEncodes DEF ReadingInv, DecoderInv
<1>2. DecoderInv /\ DecoderInv' /\ (pc # "error" => Reading) /\ UNCHANGED answer
  BY DecoderStep DEF ReadingInv, Next, ReadCount, ReadLength, Take
<1>3. pc \in {"keyLength", "key", "valueLength", "value"} =>
        /\ PairAt(w, p, at, next)
        /\ n \in Nat /\ n + 1 \in 1..Len(answer.pairs)
        /\ p \in [key : Seq(Byte), value : Seq(Byte)]
  BY NextPair
<1>4. pc' # "panic" /\ taken \in Nat /\ length \in Nat /\ left \in Nat
  BY <1>2 DEF DecoderInv, TypeOK
<1>5. \A i, k \in Nat : i + k <= Len(buf) =>
        /\ Bytes(buf, i, k) = Bytes(w, i, k)
        /\ k = WordLen => le32(buf, i) = le32(w, i)
  BY <1>1, PrefixReads
<1> HIDE DEF n, p, at, next, w, buf
<1>6. CASE ReadCount
  <2>1. /\ pc = "count" /\ Remaining >= WordLen
        /\ left' = NextWord /\ taken' = taken + WordLen /\ pc' = PairsLeft(NextWord)
        /\ UNCHANGED <<length, key, pairs>>
    BY <1>6 DEF ReadCount, Fail
  <2>2. Reading /\ n = 0 /\ taken = 0
    BY <1>2, <2>1 DEF Reading, n
  <2>3. NextWord = Len(answer.pairs) /\ answer.starts[1] = WordLen
    <3>1. WordLen <= Len(buf)
      BY <1>1, <2>1, <2>2 DEF Remaining, buf, WordLen
    <3>2. le32(buf, 0) = le32(w, 0)
      BY <1>5, <3>1 DEF WordLen
    <3> QED
      BY <1>1, <2>2, <3>2 DEF NextWord, Encodes, buf
  <2>4. left' = Len(answer'.pairs) - Len(pairs')
    BY <1>1, <1>2, <2>1, <2>2, <2>3 DEF n, Encodes
  <2>5. taken' = answer'.starts[Len(pairs') + 1]
    BY <1>2, <2>1, <2>2, <2>3 DEF n, WordLen
  <2>6. pc' \in {"ok", "keyLength"} /\ (pc' = "ok" => NextWord = 0)
    BY <2>1 DEF PairsLeft
  <2> QED
    BY <1>2, <2>1, <2>2, <2>3, <2>4, <2>5, <2>6 DEF Reading, n
<1>7. CASE ReadLength("keyLength", "key")
  <2>1. /\ pc = "keyLength" /\ Remaining >= WordLen
        /\ length' = NextWord /\ taken' = taken + WordLen /\ pc' = "key"
        /\ UNCHANGED <<left, key, pairs>>
    BY <1>7 DEF ReadLength, Fail
  <2>2. Reading /\ taken = at /\ PairAt(w, p, at, next)
    BY <1>2, <1>3, <2>1 DEF Reading, n, at
  <2>3. length' = Len(p.key)
    <3>1. taken + WordLen <= Len(buf)
      BY <1>1, <1>4, <2>1 DEF Remaining, buf, WordLen
    <3>2. le32(buf, taken) = le32(w, taken)
      BY <1>4, <1>5, <3>1 DEF WordLen
    <3> QED
      BY <2>1, <2>2, <3>2 DEF NextWord, PairAt, buf
  <2> QED
    BY <1>2, <2>1, <2>2, <2>3 DEF Reading, n, p, at
<1>8. CASE ReadLength("valueLength", "value")
  <2>1. /\ pc = "valueLength" /\ Remaining >= WordLen
        /\ length' = NextWord /\ taken' = taken + WordLen /\ pc' = "value"
        /\ UNCHANGED <<left, key, pairs>>
    BY <1>8 DEF ReadLength, Fail
  <2>2. Reading /\ key = p.key /\ taken = at + WordLen + Len(key) /\ PairAt(w, p, at, next)
    BY <1>2, <1>3, <2>1 DEF Reading, n, p, at
  <2>3. length' = Len(p.value)
    <3>1. taken + WordLen <= Len(buf)
      BY <1>1, <1>4, <2>1 DEF Remaining, buf, WordLen
    <3>2. le32(buf, taken) = le32(w, taken)
      BY <1>4, <1>5, <3>1 DEF WordLen
    <3> QED
      BY <2>1, <2>2, <3>2 DEF NextWord, PairAt, buf
  <2> QED
    BY <1>2, <2>1, <2>2, <2>3 DEF Reading, n, p, at
<1>9. CASE Take("key")
  <2>1. /\ pc = "key" /\ length <= Remaining
        /\ taken' = taken + length /\ key' = NextBytes(length) /\ pc' = "valueLength"
        /\ UNCHANGED <<left, length, pairs>>
    BY <1>4, <1>9 DEF Take, Fail
  <2>2. /\ Reading /\ taken = at + WordLen /\ length = Len(p.key)
        /\ PairAt(w, p, at, next)
    BY <1>2, <1>3, <2>1 DEF Reading, n, p, at
  <2>3. key' = p.key
    <3>1. taken + length <= Len(buf)
      BY <1>1, <1>4, <2>1 DEF Remaining, buf
    <3>2. Bytes(buf, taken, length) = Bytes(w, taken, length)
      BY <1>4, <1>5, <3>1
    <3> QED
      BY <2>1, <2>2, <3>2 DEF NextBytes, PairAt, buf
  <2> QED
    BY <1>2, <2>1, <2>2, <2>3 DEF Reading, n, p, at
<1>10. CASE Take("value")
  <2>1. /\ pc = "value" /\ length <= Remaining /\ taken' = taken + length
        /\ pairs' = Append(pairs, [key |-> key, value |-> NextBytes(length)])
        /\ left' = left - 1 /\ pc' = PairsLeft(left - 1)
    BY <1>4, <1>10 DEF Take, Fail
  <2>2. /\ Reading /\ key = p.key /\ taken = at + WordLen + Len(key) + WordLen
        /\ length = Len(p.value) /\ PairAt(w, p, at, next)
        /\ n \in Nat /\ n + 1 \in 1..Len(answer.pairs)
        /\ p \in [key : Seq(Byte), value : Seq(Byte)]
    BY <1>2, <1>3, <2>1 DEF Reading, n, p, at
  <2>3. NextBytes(length) = p.value
    <3>1. taken + length <= Len(buf)
      BY <1>1, <1>4, <2>1 DEF Remaining, buf
    <3>2. Bytes(buf, taken, length) = Bytes(w, taken, length)
      BY <1>4, <1>5, <3>1
    <3> QED
      BY <2>1, <2>2, <3>2 DEF NextBytes, PairAt, buf
  <2>4. pairs' = Append(pairs, p)
    BY <2>1, <2>2, <2>3
  <2>5. /\ pairs \in Seq([key : Seq(Byte), value : Seq(Byte)]) /\ Len(pairs) = n
        /\ \A i \in 1..n : pairs[i] = answer.pairs[i]
        /\ left = Len(answer.pairs) - n
    BY <2>1, <2>2 DEF Reading, n
  <2>6. /\ pairs' \in Seq([key : Seq(Byte), value : Seq(Byte)]) /\ Len(pairs') = n + 1
        /\ \A i \in 1..(n + 1) : pairs'[i] = answer.pairs[i]
    <3> DEFINE T == [key : Seq(Byte), value : Seq(Byte)]
    <3>1. p \in T /\ pairs \in Seq(T)
      BY <2>2, <2>5
    <3> HIDE DEF T
    <3>2. /\ pairs' \in Seq(T) /\ Len(pairs') = n + 1 /\ pairs'[n + 1] = p
          /\ \A i \in 1..n : pairs'[i] = pairs[i]
      BY <2>4, <2>5, <3>1
    <3>3. p = answer.pairs[n + 1]
      BY DEF p
    <3>4. \A i \in 1..(n + 1) : i \in 1..n \/ i = n + 1
      BY <2>2
    <3>5. \A i \in 1..(n + 1) : pairs'[i] = answer.pairs[i]
      BY <2>5, <3>2, <3>3, <3>4
    <3> QED
      BY <3>2, <3>5 DEF T
  <2>7. left' = Len(answer.pairs) - (n + 1)
    BY <1>1, <1>4, <2>1, <2>2, <2>5 DEF Encodes
  <2>8. taken' = next
    BY <2>1, <2>2 DEF PairAt, WordLen
  <2>9. pc' \in {"ok", "keyLength"} /\ (pc' = "ok" => n + 1 = Len(answer.pairs))
    <3>1. pc' = "ok" => left' = 0
      BY <2>1 DEF PairsLeft
    <3> QED
      BY <1>1, <2>1, <2>2, <2>7, <3>1 DEF PairsLeft, Encodes
  <2>10. taken' = answer.starts[Len(pairs') + 1]
    BY <2>2, <2>6, <2>8 DEF next
  <2> QED
    BY <1>2, <2>2, <2>6, <2>7, <2>9, <2>10 DEF Reading
<1> QED
  BY <1>6, <1>7, <1>8, <1>9, <1>10 DEF Next

\* Before the count is read nothing is behind the decoder.
LEMMA ReadingInit == Init => ReadingInv
<1> SUFFICES ASSUME Init PROVE ReadingInv
  OBVIOUS
<1>1. ASSUME answer.kind # "other" PROVE Len(answer.pairs) \in Nat
  BY <1>1, AnswerEncodes DEF Init, Encodes
<1>2. answer.kind # "other" => Reading
  BY <1>1 DEF Init, Reading
<1> QED
  BY <1>2, DecoderInit DEF Init, ReadingInv

\* Every step keeps the invariant.
LEMMA ReadingStep == ReadingInv /\ [Next]_vars => ReadingInv'
<1> SUFFICES ASSUME ReadingInv, [Next]_vars PROVE ReadingInv'
  OBVIOUS
<1>1. DecoderInv'
  BY DecoderStep DEF ReadingInv
<1>2. CASE Next
  <2>1. answer' = answer
    BY <1>2 DEF Next, ReadCount, ReadLength, Take
  <2> QED
    BY <1>1, <1>2, <2>1, ReadsOn, FailOnlyLong DEF ReadingInv
<1>3. CASE UNCHANGED vars
  BY <1>1, <1>3 DEF vars, ReadingInv, Reading
<1> QED
  BY <1>2, <1>3

\* When the last pair is read all of the encoding is behind the decoder, so that nothing of
\* it was cut off.
LEMMA ReadingIsExact == ReadingInv => ExactOrError
<1> SUFFICES ASSUME ReadingInv, pc = "ok", answer.kind # "other"
             PROVE  answer.kind = "whole" /\ pairs = answer.pairs
  BY DEF ReadingInv, ExactOrError
<1> DEFINE ps == answer.pairs
           len == Len(answer.buf)
<1>1. /\ answer \in Answers /\ Reading /\ taken <= len
      /\ Len(pairs) = Len(ps) /\ taken = answer.starts[Len(ps) + 1]
  BY DEF ReadingInv, DecoderInv, TypeOK, Reading
<1>2. /\ Encodes(Whole(answer), ps, answer.starts) /\ Len(answer.rest) \in Nat /\ len \in Nat
      /\ Len(Whole(answer)) = len + Len(answer.rest)
      /\ Len(answer.rest) = 0 => answer.kind = "whole"
  BY <1>1, AnswerEncodes
<1>3. taken = len + Len(answer.rest)
  BY <1>1, <1>2 DEF Encodes
<1>4. answer.kind = "whole"
  <2> HIDE DEF len
  <2> QED
    BY <1>1, <1>2, <1>3
<1>5. pairs = ps
  <2> DEFINE T == [key : Seq(Byte), value : Seq(Byte)]
  <2>1. pairs \in Seq(T) /\ ps \in Seq(T) /\ \A i \in 1..Len(pairs) : pairs[i] = ps[i]
    BY <1>1, <1>2 DEF Reading, Encodes
  <2> HIDE DEF T, ps
  <2>2. pairs = [i \in 1..Len(pairs) |-> pairs[i]] /\ ps = [i \in 1..Len(ps) |-> ps[i]]
    BY <2>1
  <2> QED
    BY <1>1, <2>1, <2>2
<1> QED
  BY <1>4, <1>5

\* decodeRangeBuf returns the pairs that the engine's answer stands for, in their order, or
\* an error: the error whenever the answer was cut short, anywhere, and on a whole answer
\* only when its length does not fit in the uint32 it is compared as
\* (server/engine_cgo.go:103-137).
THEOREM DecodesExactly == Spec => []ExactOrError
  BY ReadingInit, ReadingStep, ReadingIsExact, PTL DEF Spec
================================================================================
