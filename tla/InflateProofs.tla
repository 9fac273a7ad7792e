--------------------------- MODULE InflateProofs ---------------------------
(***************************************************************************)
(* For any alphabets, tables and streams: the decoder stays inside its     *)
(* tables and its output, and never returns the text of a stream cut off.  *)
(***************************************************************************)
EXTENDS Inflate, FiniteSetTheorems, SequenceTheorems, WellFoundedInduction, TLAPS

-----------------------------------------------------------------------------
(* Codes. *)

LEMMA VectorIsCode ==
  ASSUME NEW n \in Nat, NEW L \in [0 .. n - 1 -> 0 .. MAXBITS]
  PROVE  IsCode(L)
<1>1. DOMAIN L = 0 .. n - 1
  OBVIOUS
<1>2. Cardinality(0 .. n - 1) = n
  BY FS_Interval
<1>3. IsFiniteSet(DOMAIN L)
  BY <1>1, FS_Interval
<1>4. QED
  BY <1>1, <1>2, <1>3 DEF IsCode

LEMMA NoCodeIsCode == IsCode(NoCode)
<1>1. DOMAIN NoCode = 0 .. 0 - 1
  BY DEF NoCode
<1>2. NoCode \in [0 .. 0 - 1 -> 0 .. MAXBITS]
  BY <1>1 DEF NoCode
<1>3. QED
  BY <1>2, VectorIsCode

\* The symbols of a code are finitely many naturals, and so are those of a
\* length; the ones up to a length are those below it and those of it.
LEMMA CodedFinite ==
  ASSUME NEW L, IsCode(L), NEW len \in Nat
  PROVE  /\ Coded(L) \subseteq Nat
         /\ IsFiniteSet(Coded(L)) /\ Cardinality(Coded(L)) \in Nat
         /\ Count(L, len) \in Nat
         /\ LET Below(k) == {x \in Coded(L) : L[x] < k}
            IN  /\ Cardinality(Below(len)) \in Nat
                /\ Cardinality(Below(len + 1)) = Cardinality(Below(len)) + Count(L, len)
                /\ Cardinality(Below(len + 1)) <= Cardinality(Coded(L))
<1> DEFINE Below(k) == {x \in Coded(L) : L[x] < k}
<1>1. IsFiniteSet(Coded(L)) /\ Coded(L) \subseteq Nat
  <2>1. Coded(L) \subseteq DOMAIN L
    BY DEF Coded
  <2>2. DOMAIN L \subseteq Nat /\ IsFiniteSet(DOMAIN L)
    BY FS_CardinalityType DEF IsCode
  <2>3. QED
    BY <2>1, <2>2, FS_Subset
<1>2. \A x \in Coded(L) : L[x] \in Nat
  <2>1. MAXBITS \in Nat
    BY TableAssumption
  <2>2. \A D : L \in [D -> 0 .. MAXBITS] => \A x \in DOMAIN L : L[x] \in Nat
    BY <2>1
  <2>3. \A x \in DOMAIN L : L[x] \in Nat
    BY <2>2 DEF IsCode
  <2>4. QED
    BY <2>3 DEF Coded
<1>3. /\ IsFiniteSet(Below(len)) /\ IsFiniteSet(Below(len + 1))
      /\ IsFiniteSet(OfLength(L, len))
      /\ Cardinality(Below(len + 1)) <= Cardinality(Coded(L))
  <2>1. /\ Below(len) \in SUBSET Coded(L) /\ Below(len + 1) \in SUBSET Coded(L)
        /\ OfLength(L, len) \in SUBSET Coded(L)
    BY DEF OfLength
  <2>2. QED
    BY <1>1, <2>1, FS_Subset
<1>4. /\ Below(len + 1) = Below(len) \cup OfLength(L, len)
      /\ Below(len) \cap OfLength(L, len) = {}
  BY <1>2 DEF OfLength
<1> HIDE DEF Below
<1>5. /\ Cardinality(Below(len)) \in Nat /\ Count(L, len) \in Nat
      /\ Cardinality(Coded(L)) \in Nat
  BY <1>1, <1>3, FS_CardinalityType DEF Count
<1>6. Cardinality(Below(len + 1)) = Cardinality(Below(len)) + Count(L, len)
  <2>1. Cardinality(Below(len) \cap OfLength(L, len)) = 0
    BY <1>4, FS_EmptySet
  <2>2. Cardinality(Below(len) \cup OfLength(L, len))
          = Cardinality(Below(len)) + Count(L, len) - 0
    BY <1>3, <2>1, FS_Union DEF Count
  <2>3. Cardinality(Below(len + 1))
          = Cardinality(Below(len)) + Count(L, len) - 0
    BY <1>4, <2>2, Zenon
  <2>4. \A a, b \in Nat : a + b - 0 = a + b
    OBVIOUS
  <2>5. QED
    BY <1>5, <2>3, <2>4, Zenon
<1>7. QED
  BY <1>1, <1>3, <1>5, <1>6 DEF Below

-----------------------------------------------------------------------------
(* Types. *)

LEMMA Constants ==
  /\ NLit \in Nat /\ MAXBITS \in Nat \ {0} /\ CAP \in Nat
  /\ \A i \in 1 .. Len(LEN_BASE) : LEN_BASE[i] \in Nat
  /\ \A i \in 1 .. 3 : RUN_BASE[i] \in Nat
  /\ Len(LEN_BASE) \in Nat /\ Len(DIST_BASE) \in Nat
<1>1. NLit \in Nat /\ MAXBITS \in Nat /\ CAP \in Nat /\ MAXBITS > 0
  BY TableAssumption
<1>2. LEN_BASE \in Seq(Nat) /\ DIST_BASE \in Seq(Nat) /\ RUN_BASE \in Seq(Nat)
  BY TableAssumption
<1>3. /\ \A i \in 1 .. Len(LEN_BASE) : LEN_BASE[i] \in Nat
      /\ \A i \in 1 .. Len(RUN_BASE) : RUN_BASE[i] \in Nat
      /\ Len(LEN_BASE) \in Nat /\ Len(DIST_BASE) \in Nat
  BY <1>2, ElementOfSeq
<1>4. Len(RUN_BASE) = 3
  BY TableAssumption
<1>5. QED
  BY <1>1, <1>3, <1>4

LEMMA ReadTypes ==
  ASSUME TypeOK, NEW n, NEW v, Reads(n, v)
  PROVE  v \in Nat /\ bad' \in BOOLEAN
<1>1. \A m : v \in 0 .. m => v \in Nat
  OBVIOUS
<1>2. QED
  BY <1>1 DEF Reads, TypeOK

LEMMA FreshType == Fresh \in [code : Nat, first : Nat, index : Nat, len : 1 .. MAXBITS]
  BY Constants DEF Fresh

LEMMA NoCodesType ==
  ASSUME codes' = [x \in Decoding |-> NoCode]
  PROVE  DOMAIN codes' = Decoding /\ \A x \in Decoding : IsCode(codes'[x])
  BY NoCodeIsCode

LEMMA DecType ==
  ASSUME TypeOK
  PROVE  /\ dec.len \in Nat /\ dec.code \in Nat
         /\ dec.first \in Nat /\ dec.index \in Nat
<1>1. \A m \in Nat : 1 .. m \subseteq Nat
  OBVIOUS
<1>2. QED
  BY <1>1, Constants DEF TypeOK

LEMMA FailType ==
  ASSUME TypeOK, Fail, bad' \in BOOLEAN
  PROVE  TypeOK'
<1>1. DOMAIN codes' = Decoding /\ \A x \in Decoding : IsCode(codes'[x])
  BY NoCodesType DEF Fail
<1>2. lens' \in Seq(0 .. MAXBITS) /\ Len(lens') = 0
  BY EmptySeq DEF Fail
<1>3. counts' \in [lit : Nat, dist : Nat] /\ counts'.lit + counts'.dist = 0
  BY DEF Fail
<1>4. QED
  BY <1>1, <1>2, <1>3, FreshType DEF Fail, TypeOK

LEMMA InitType == Init => TypeOK
<1> SUFFICES ASSUME Init PROVE TypeOK
  OBVIOUS
<1>1. DOMAIN codes = Decoding /\ \A x \in Decoding : IsCode(codes[x])
  BY NoCodeIsCode DEF Init
<1>2. /\ lens \in Seq(0 .. MAXBITS) /\ Len(lens) = 0
      /\ out \in Seq(Byte) /\ Len(out) <= CAP
  BY EmptySeq, Constants DEF Init
<1>3. counts \in [lit : Nat, dist : Nat] /\ counts.lit + counts.dist = 0
  BY DEF Init
<1>4. /\ at \in {"block", "fail"} /\ final \in BOOLEAN /\ bad \in BOOLEAN
      /\ s \in Nat /\ length \in Nat
  BY DEF Init
<1>5. Len(lens) <= counts.lit + counts.dist
  BY <1>2, <1>3
<1>6. dec \in [code : Nat, first : Nat, index : Nat, len : 1 .. MAXBITS]
  BY FreshType DEF Init
<1>7. QED
  BY <1>1, <1>2, <1>3, <1>4, <1>5, <1>6 DEF TypeOK

LEMMA DecodeBitType ==
  ASSUME TypeOK, DecodeBit
  PROVE  TypeOK'
<1>1. PICK b \in {0, 1} : Reads(1, b) /\ (Hit(dec.code + b) \/ Miss(dec.code + b))
  BY DEF DecodeBit
<1> DEFINE c == dec.code + b
<1>2. c \in Nat /\ bad' \in BOOLEAN /\ IsCode(codes[at]) /\ dec.len \in Nat
  <2>1. bad' \in BOOLEAN
    BY <1>1, ReadTypes
  <2>2. IsCode(codes[at])
    BY DEF TypeOK, DecodeBit
  <2>3. c \in Nat /\ dec.len \in Nat
    <3>1. dec.code \in Nat /\ dec.len \in Nat
      BY DecType
    <3>2. b \in Nat
      OBVIOUS
    <3>3. QED
      BY <3>1, <3>2
  <2>4. QED
    BY <2>1, <2>2, <2>3
<1>3. CASE Fail
  BY <1>2, <1>3, FailType
<1>4. CASE Hit(c) /\ ~Fail
  <2>1. s' \in Nat
    BY <1>2, <1>4, CodedFinite DEF Hit
  <2>2. at' \in {"clsym", "litsym", "distsym"}
    BY <1>4 DEF Hit, Got, DecodeBit, Decoding
  <2>3. dec' \in [code : Nat, first : Nat, index : Nat, len : 1 .. MAXBITS]
    BY <1>2, <1>4 DEF Hit, TypeOK
  <2>4. QED
    BY <1>2, <1>4, <2>1, <2>2, <2>3 DEF Hit, TypeOK
<1>5. CASE Miss(c) /\ ~Fail
  <2>1. Count(codes[at], dec.len) \in Nat
    BY <1>2, CodedFinite
  <2>2. dec' \in [code : Nat, first : Nat, index : Nat, len : 1 .. MAXBITS]
    <3>1. dec' = Longer(c, Count(codes[at], dec.len)) /\ dec.len # MAXBITS
      BY <1>5 DEF Miss, Longest
    <3>2. /\ dec.first \in Nat /\ dec.index \in Nat
          /\ dec.len \in 1 .. MAXBITS /\ MAXBITS \in Nat
      BY Constants DEF TypeOK
    <3>3. dec.len + 1 \in 1 .. MAXBITS
      BY <3>1, <3>2
    <3>4. QED
      BY <1>2, <2>1, <3>1, <3>2, <3>3 DEF Longer
  <2>3. QED
    BY <1>2, <1>5, <2>2 DEF Miss, TypeOK
<1>6. QED
  BY <1>1, <1>3, <1>4, <1>5

LEMMA BlockHeaderType ==
  ASSUME TypeOK, BlockHeader
  PROVE  TypeOK'
<1>1. bad' \in BOOLEAN
  BY DEF BlockHeader, TypeOK
<1>2. CASE Fail
  BY <1>1, <1>2, FailType
<1>3. CASE ~Fail
  <2>1. PICK f \in BOOLEAN :
          \/ /\ at' \in {"stored", "counts"}
             /\ final' = f
             /\ UNCHANGED <<codes, dec, s, length, counts, lens, out>>
          \/ /\ Decode("lit")
             /\ final' = f
             /\ codes' = [codes EXCEPT !["lit"] = FixedLit, !["dist"] = FixedDist]
             /\ UNCHANGED <<s, length, counts, lens, out>>
    BY <1>3 DEF BlockHeader
  <2>2. at' \in {"stored", "counts", "lit"} /\ final' \in BOOLEAN
    BY <2>1 DEF Decode
  <2>3. DOMAIN codes' = Decoding /\ \A x \in Decoding : IsCode(codes'[x])
    BY <2>1, CodeAssumption DEF TypeOK, Decoding
  <2>4. dec' \in [code : Nat, first : Nat, index : Nat, len : 1 .. MAXBITS]
    BY <2>1, FreshType DEF Decode, TypeOK
  <2>5. UNCHANGED <<s, length, counts, lens, out>>
    BY <2>1
  <2>6. QED
    BY <1>1, <2>2, <2>3, <2>4, <2>5 DEF TypeOK, Decoding
<1>4. QED
  BY <1>2, <1>3

LEMMA EndBlockType ==
  ASSUME TypeOK, EndBlock, bad' \in BOOLEAN, out' \in Seq(Byte), Len(out') <= CAP
  PROVE  TypeOK'
<1>1. DOMAIN codes' = Decoding /\ \A x \in Decoding : IsCode(codes'[x])
  BY NoCodesType DEF EndBlock
<1>2. at' \in {"done", "fail", "block"}
  BY DEF EndBlock
<1>3. QED
  BY <1>1, <1>2, FreshType DEF EndBlock, TypeOK

LEMMA StoredType ==
  ASSUME TypeOK, Stored
  PROVE  TypeOK'
<1>1. bad' \in BOOLEAN
  BY DEF Stored, TypeOK
<1>2. CASE Fail
  BY <1>1, <1>2, FailType
<1>3. ASSUME NEW n \in 0 .. CAP - Len(out), NEW bytes \in [1 .. n -> Byte],
             out' = out \o bytes, EndBlock
      PROVE  TypeOK'
  <2>1. out \in Seq(Byte) /\ Len(out) \in Nat /\ CAP \in Nat /\ n \in Nat
    BY Constants DEF TypeOK
  <2>2. bytes \in Seq(Byte) /\ Len(bytes) = n
    BY <2>1, SeqDef, LenProperties
  <2>3. out' \in Seq(Byte) /\ Len(out') = Len(out) + n
    BY <1>3, <2>1, <2>2, ConcatProperties
  <2>4. QED
    BY <1>1, <1>3, <2>1, <2>3, EndBlockType
<1>4. QED
  BY <1>2, <1>3 DEF Stored

LEMMA CountsType ==
  ASSUME TypeOK, Counts
  PROVE  TypeOK'
<1>1. bad' \in BOOLEAN
  BY DEF Counts
<1>2. CASE Fail
  BY <1>1, <1>2, FailType
<1>3. ASSUME NEW hlit \in NLit + 1 .. NLit + 1 + Len(LEN_BASE),
             NEW hdist \in 1 .. Len(DIST_BASE), NEW cl \in CodeLengths,
             counts' = [lit |-> hlit, dist |-> hdist],
             codes' = [codes EXCEPT !["cl"] = cl],
             lens' = <<>>, Decode("cl"), UNCHANGED <<final, s, length, out>>
      PROVE  TypeOK'
  <2>1. hlit \in Nat /\ hdist \in Nat
    BY Constants
  <2>2. counts' \in [lit : Nat, dist : Nat] /\ counts'.lit + counts'.dist \in Nat
    BY <1>3, <2>1
  <2>3. lens' \in Seq(0 .. MAXBITS) /\ Len(lens') = 0
    BY <1>3, EmptySeq
  <2>4. Len(lens') <= counts'.lit + counts'.dist
    BY <2>2, <2>3
  <2>5. DOMAIN codes' = Decoding /\ \A x \in Decoding : IsCode(codes'[x])
    BY <1>3, CodeAssumption DEF TypeOK, Decoding
  <2>6. at' \in Decoding
    BY <1>3 DEF Decode, Decoding
  <2>7. dec' \in [code : Nat, first : Nat, index : Nat, len : 1 .. MAXBITS]
    BY <1>3, FreshType DEF Decode
  <2>8. QED
    BY <1>1, <1>3, <2>2, <2>3, <2>4, <2>5, <2>6, <2>7 DEF TypeOK
<1>4. QED
  BY <1>2, <1>3 DEF Counts

\* n more lengths of a value, clipped to what was asked for.
LEMMA AddLengthsType ==
  ASSUME TypeOK, NEW len \in 0 .. MAXBITS, NEW n \in Nat, AddLengths(len, n),
         bad' \in BOOLEAN
  PROVE  TypeOK'
<1> DEFINE k == Clipped(n)
           all == lens \o [i \in 1 .. k |-> len]
<1>1. /\ lens \in Seq(0 .. MAXBITS) /\ Len(lens) \in Nat
      /\ counts.lit \in Nat /\ counts.dist \in Nat /\ Len(lens) <= Total
  BY DEF TypeOK, Total
<1>2. k \in Nat /\ Len(lens) + k <= Total
  BY <1>1 DEF Clipped, Total
<1>3. all \in Seq(0 .. MAXBITS) /\ Len(all) = Len(lens) + k
  <2>1. \A m \in Nat : [i \in 1 .. m |-> len] \in [1 .. m -> 0 .. MAXBITS]
    OBVIOUS
  <2>2. \A m \in Nat : /\ [i \in 1 .. m |-> len] \in Seq(0 .. MAXBITS)
                      /\ Len([i \in 1 .. m |-> len]) = m
    BY <2>1, SeqDef, LenProperties
  <2>3. [i \in 1 .. k |-> len] \in Seq(0 .. MAXBITS) /\ Len([i \in 1 .. k |-> len]) = k
    BY <1>2, <2>2
  <2>4. QED
    BY <1>1, <2>3, ConcatProperties
<1> HIDE DEF all, k
<1>4. UNCHANGED <<final, length, out>> /\ s' = 0
  BY DEF AddLengths
<1>5. CASE Len(all) < Total
  <2>1. lens' = all /\ Decode("cl") /\ UNCHANGED <<codes, counts>>
    BY <1>5 DEF AddLengths, all, k
  <2>2. QED
    BY <1>2, <1>3, <1>4, <2>1, FreshType DEF Decode, TypeOK, Decoding, Total
<1>6. CASE ~(Len(all) < Total)
  <2>1. /\ codes' = [cl |-> NoCode, lit |-> PartOf(all, 0, counts.lit),
                     dist |-> PartOf(all, counts.lit, counts.dist)]
        /\ lens' = <<>> /\ counts' = [lit |-> 0, dist |-> 0]
        /\ Decode("lit")
    BY <1>6 DEF AddLengths, all, k
  <2>2. Len(all) = Total
    BY <1>1, <1>2, <1>3, <1>6 DEF Total
  <2>3. \A i \in 1 .. Total : all[i] \in 0 .. MAXBITS
    BY <1>3, <2>2, ElementOfSeq
  <2>4. ASSUME NEW from \in Nat, NEW m \in Nat, from + m <= Total
        PROVE  IsCode(PartOf(all, from, m))
    <3>1. \A x \in 0 .. m - 1 : from + x + 1 \in 1 .. Total
      BY <1>1, <2>4 DEF Total
    <3>2. PartOf(all, from, m) \in [0 .. m - 1 -> 0 .. MAXBITS]
      BY <2>3, <3>1 DEF PartOf
    <3>3. QED
      BY <3>2, VectorIsCode
  <2>5. IsCode(PartOf(all, 0, counts.lit)) /\ IsCode(PartOf(all, counts.lit, counts.dist))
    BY <1>1, <2>4 DEF Total
  <2>6. DOMAIN codes' = Decoding /\ \A x \in Decoding : IsCode(codes'[x])
    BY <2>1, <2>5, NoCodeIsCode DEF Decoding
  <2>7. lens' \in Seq(0 .. MAXBITS) /\ Len(lens') = 0
    BY <2>1, EmptySeq
  <2>8. counts' \in [lit : Nat, dist : Nat] /\ counts'.lit + counts'.dist = 0
    BY <2>1
  <2>9. Len(lens') <= counts'.lit + counts'.dist
    BY <2>7, <2>8
  <2>10. at' \in Decoding
         /\ dec' \in [code : Nat, first : Nat, index : Nat, len : 1 .. MAXBITS]
    BY <2>1, FreshType DEF Decode, Decoding
  <2>11. QED
    BY <1>4, <2>6, <2>7, <2>8, <2>9, <2>10 DEF TypeOK
<1>7. QED
  BY <1>5, <1>6

LEMMA LengthsType ==
  ASSUME TypeOK, OneLength \/ RepeatLength \/ RepeatZero
  PROVE  TypeOK'
<1>1. CASE OneLength
  <2>1. s \in 0 .. MAXBITS /\ bad' \in BOOLEAN
    BY <1>1, Constants DEF OneLength, TypeOK
  <2>2. QED
    BY <1>1, <2>1, AddLengthsType DEF OneLength
<1>2. CASE RepeatLength
  <2>1. CASE Fail /\ bad' = bad
    BY <2>1, FailType DEF TypeOK
  <2>2. CASE ~(Fail /\ bad' = bad)
    <3>1. PICK v \in 0 .. 2 ^ RUN_EXTRA[1] - 1 :
            Reads(RUN_EXTRA[1], v) /\ AddLengths(lens[Len(lens)], RUN_BASE[1] + v)
      BY <1>2, <2>2 DEF RepeatLength
    <3>2. lens[Len(lens)] \in 0 .. MAXBITS
      <4>1. lens \in Seq(0 .. MAXBITS) /\ lens # <<>>
        BY <1>2, <2>2 DEF RepeatLength, TypeOK
      <4>2. Len(lens) \in 1 .. Len(lens)
        BY <4>1, EmptySeq
      <4>3. QED
        BY <4>1, <4>2, ElementOfSeq
    <3>3. RUN_BASE[1] + v \in Nat /\ bad' \in BOOLEAN
      BY <3>1, ReadTypes, Constants
    <3>4. QED
      BY <3>1, <3>2, <3>3, AddLengthsType
  <2>3. QED
    BY <2>1, <2>2
<1>3. CASE RepeatZero
  <2>1. PICK k \in {IF s = MAXBITS + 2 THEN 2 ELSE 3} :
          \E v \in 0 .. 2 ^ RUN_EXTRA[k] - 1 :
            Reads(RUN_EXTRA[k], v) /\ AddLengths(0, RUN_BASE[k] + v)
    BY <1>3 DEF RepeatZero
  <2>2. PICK v \in 0 .. 2 ^ RUN_EXTRA[k] - 1 :
          Reads(RUN_EXTRA[k], v) /\ AddLengths(0, RUN_BASE[k] + v)
    BY <2>1
  <2>3. k \in 1 .. 3
    OBVIOUS
  <2>4. RUN_BASE[k] + v \in Nat /\ bad' \in BOOLEAN /\ 0 \in 0 .. MAXBITS
    BY <2>2, <2>3, ReadTypes, Constants
  <2>5. QED
    BY <2>2, <2>4, AddLengthsType
<1>4. QED
  BY <1>1, <1>2, <1>3

LEMMA LiteralType ==
  ASSUME TypeOK, Literal \/ EndOfBlock
  PROVE  TypeOK'
<1>1. bad' \in BOOLEAN /\ out \in Seq(Byte) /\ Len(out) \in Nat /\ CAP \in Nat
  BY Constants DEF Literal, EndOfBlock, TypeOK
<1>2. CASE Fail
  BY <1>1, <1>2, FailType
<1>3. CASE Literal /\ ~Fail
  <2>1. s \in Byte
    BY <1>3, Constants DEF Literal, TypeOK, Byte
  <2>2. out' \in Seq(Byte) /\ Len(out') <= CAP
    BY <1>1, <1>3, <2>1, AppendProperties DEF Literal
  <2>3. at' = "lit" /\ dec' = Fresh /\ s' = 0 /\ UNCHANGED <<final, codes, length, counts, lens>>
    BY <1>3 DEF Literal, Decode
  <2>4. QED
    BY <1>1, <2>2, <2>3, FreshType DEF TypeOK, Decoding
<1>4. CASE EndOfBlock
  BY <1>1, <1>4, EndBlockType DEF EndOfBlock, TypeOK
<1>5. QED
  BY <1>2, <1>3, <1>4

LEMMA MatchLengthType ==
  ASSUME TypeOK, MatchLength
  PROVE  TypeOK'
<1>1. CASE Fail /\ bad' = bad
  BY <1>1, FailType DEF TypeOK
<1>2. CASE ~(Fail /\ bad' = bad)
  <2>1. PICK v \in 0 .. 2 ^ LEN_EXTRA[s - NLit] - 1 :
          Reads(LEN_EXTRA[s - NLit], v) /\ length' = LEN_BASE[s - NLit] + v
    BY <1>2 DEF MatchLength
  <2>2. s - NLit \in 1 .. Len(LEN_BASE)
    BY <1>2, Constants DEF MatchLength, TypeOK
  <2>3. length' \in Nat /\ bad' \in BOOLEAN
    BY <2>1, <2>2, ReadTypes, Constants
  <2>4. at' = "dist" /\ dec' = Fresh /\ s' = 0 /\ UNCHANGED <<final, codes, counts, lens, out>>
    BY <1>2 DEF MatchLength, Decode
  <2>5. QED
    BY <2>3, <2>4, FreshType DEF TypeOK, Decoding
<1>3. QED
  BY <1>1, <1>2

LEMMA MatchType ==
  ASSUME TypeOK, Match
  PROVE  TypeOK'
<1>1. PICK v \in 0 .. 2 ^ DIST_EXTRA[s + 1] - 1 :
        /\ Reads(DIST_EXTRA[s + 1], v)
        /\ LET d == DIST_BASE[s + 1] + v
           IN \/ ~Fits(d) /\ Fail
              \/ /\ Fits(d)
                 /\ out' \in [1 .. Len(out) + length -> Byte] /\ Copies(d, out')
                 /\ Decode("lit") /\ s' = 0 /\ length' = 0
                 /\ UNCHANGED <<final, codes, counts, lens>>
  BY DEF Match
<1>2. bad' \in BOOLEAN
  BY <1>1, ReadTypes
<1>3. CASE Fail
  BY <1>2, <1>3, FailType
<1>4. CASE ~Fail
  <2>1. /\ out' \in [1 .. Len(out) + length -> Byte] /\ Len(out) + length <= CAP
        /\ at' = "lit" /\ dec' = Fresh /\ s' = 0 /\ length' = 0
        /\ UNCHANGED <<final, codes, counts, lens>>
    BY <1>1, <1>4 DEF Fits, Decode
  <2>2. Len(out) + length \in Nat
    BY DEF TypeOK
  <2>3. out' \in Seq(Byte) /\ Len(out') = Len(out) + length
    BY <2>1, <2>2, SeqDef, LenProperties
  <2>4. QED
    BY <1>2, <2>1, <2>3, FreshType DEF TypeOK, Decoding
<1>5. QED
  BY <1>3, <1>4

\* TypeOK is preserved by every step.
THEOREM TypeCorrect == Spec => []TypeOK
<1>1. TypeOK /\ [Next]_vars => TypeOK'
  <2> SUFFICES ASSUME TypeOK, [Next]_vars PROVE TypeOK'
    OBVIOUS
  <2>1. CASE UNCHANGED vars
    BY <2>1 DEF vars, TypeOK, Total
  <2>2. CASE Next
    BY <2>2, BlockHeaderType, StoredType, CountsType, LengthsType, DecodeBitType,
       LiteralType, MatchLengthType, MatchType DEF Next
  <2>3. QED
    BY <2>1, <2>2
<1>2. QED
  BY InitType, <1>1, PTL DEF Spec

-----------------------------------------------------------------------------
(* The table. *)

\* While a symbol is being decoded, index counts the symbols of the lengths
\* that were tried, and the code is not below the first of the length at hand.
Tried ==
  at \in Decoding =>
    /\ dec.code >= dec.first
    /\ dec.index = Cardinality({x \in Coded(codes[at]) : codes[at][x] < dec.len})

LEMMA FreshTried ==
  ASSUME TypeOK', dec' = Fresh
  PROVE  Tried'
<1> SUFFICES ASSUME at' \in Decoding PROVE Tried'
  BY DEF Tried
<1>1. \A x \in Coded(codes'[at']) : ~(codes'[at'][x] < 1)
  <2>1. IsCode(codes'[at'])
    BY DEF TypeOK
  <2>2. \A x \in Coded(codes'[at']) : codes'[at'][x] \in Nat \ {0}
    <3>1. \A L, D : L \in [D -> 0 .. MAXBITS] => \A x \in Coded(L) : L[x] \in Nat \ {0}
      BY Constants DEF Coded
    <3>2. QED
      BY <2>1, <3>1 DEF IsCode
  <2>3. QED
    BY <2>2
<1>2. {x \in Coded(codes'[at']) : codes'[at'][x] < dec'.len} = {}
  BY <1>1 DEF Fresh
<1>3. dec'.code >= dec'.first /\ dec'.index = 0
  BY DEF Fresh
<1>4. QED
  BY <1>2, <1>3, FS_EmptySet DEF Tried

\* Every step leaves the decoder as it is, starts it afresh, or takes a bit.
LEMMA TriedStep ==
  ASSUME TypeOK, TypeOK', Tried, [Next]_vars
  PROVE  Tried'
<1>1. CASE dec' = Fresh
  BY <1>1, FreshTried
<1>2. CASE at' \notin Decoding
  BY <1>2 DEF Tried
<1>3. CASE UNCHANGED <<at, dec, codes>>
  BY <1>3 DEF Tried
<1>4. CASE DecodeBit /\ dec' # Fresh /\ at' \in Decoding
  <2>1. PICK b \in {0, 1} : Hit(dec.code + b) \/ Miss(dec.code + b)
    BY <1>4 DEF DecodeBit
  <2> DEFINE c == dec.code + b
             n == Count(codes[at], dec.len)
             Below(k) == {x \in Coded(codes[at]) : codes[at][x] < k}
  <2>2. ~Hit(c)
    BY <1>4 DEF Hit, Fail, Got, DecodeBit, Decoding
  <2>3. /\ c - dec.first >= n /\ dec' = Longer(c, n)
        /\ UNCHANGED <<at, codes>>
    BY <1>4, <2>1, <2>2 DEF Miss, Fail
  <2>4. /\ IsCode(codes[at]) /\ dec.len \in Nat /\ c \in Nat
        /\ dec.first \in Nat /\ dec.index \in Nat
    <3>1. dec.len \in Nat
      BY DecType
    <3>2. QED
      BY <1>4, <3>1 DEF TypeOK, DecodeBit
  <2>5. n \in Nat /\ Cardinality(Below(dec.len + 1)) = Cardinality(Below(dec.len)) + n
    BY <2>4, CodedFinite
  <2>6. dec.index = Cardinality(Below(dec.len))
    BY <1>4 DEF Tried, DecodeBit
  <2> HIDE DEF n, Below
  <2>7. dec'.code >= dec'.first
    BY <2>3, <2>4, <2>5 DEF Longer
  <2>8. dec'.index = Cardinality(Below(dec.len + 1)) /\ dec'.len = dec.len + 1
    BY <2>3, <2>5, <2>6 DEF Longer
  <2>9. QED
    BY <2>3, <2>7, <2>8 DEF Tried, Below
<1>5. QED
  <2>1. CASE BlockHeader
    BY <1>1, <1>2, <2>1 DEF BlockHeader, Fail, Decode, Decoding
  <2>2. CASE Stored \/ EndOfBlock
    BY <1>1, <2>2 DEF Stored, EndOfBlock, EndBlock, Fail
  <2>3. CASE Counts \/ Literal \/ MatchLength \/ Match
    BY <1>1, <2>3 DEF Counts, Literal, MatchLength, Match, Decode, Fail
  <2>4. CASE OneLength \/ RepeatLength \/ RepeatZero
    BY <1>1, <2>4 DEF OneLength, RepeatLength, RepeatZero, AddLengths, Decode, Fail
  <2>5. QED
    BY <1>1, <1>2, <1>3, <1>4, <2>1, <2>2, <2>3, <2>4 DEF Next, vars

\* Whatever code lengths the stream gives, complete, incomplete or too many
\* for a code, a symbol is looked up where huff_build put one.
THEOREM InTable == Spec => []SymbolInTable
<1>1. Init => Tried
  BY DEF Init, Tried, Decoding
<1>2. TypeOK /\ TypeOK' /\ Tried /\ [Next]_vars => Tried'
  BY TriedStep
<1>3. TypeOK /\ Tried => SymbolInTable
  <2> SUFFICES ASSUME TypeOK, Tried, at \in Decoding, NEW b \in {0, 1},
                      dec.code + b - dec.first < Count(codes[at], dec.len)
               PROVE  dec.index + dec.code + b - dec.first
                        \in 0 .. Cardinality(Coded(codes[at])) - 1
    BY DEF SymbolInTable
  <2> DEFINE Below(k) == {x \in Coded(codes[at]) : codes[at][x] < k}
  <2>1. /\ IsCode(codes[at]) /\ dec.len \in Nat /\ dec.code \in Nat
        /\ dec.first \in Nat /\ dec.index \in Nat
    BY DecType DEF TypeOK
  <2>2. /\ Count(codes[at], dec.len) \in Nat /\ Cardinality(Coded(codes[at])) \in Nat
        /\ Cardinality(Below(dec.len + 1))
             = Cardinality(Below(dec.len)) + Count(codes[at], dec.len)
        /\ Cardinality(Below(dec.len + 1)) <= Cardinality(Coded(codes[at]))
    BY <2>1, CodedFinite
  <2>3. dec.index = Cardinality(Below(dec.len)) /\ dec.code >= dec.first
    BY DEF Tried
  <2> HIDE DEF Below
  <2>4. dec.index + Count(codes[at], dec.len) <= Cardinality(Coded(codes[at]))
    BY <2>2, <2>3
  <2>5. QED
    BY <2>1, <2>2, <2>3, <2>4
<1>4. QED
  BY <1>1, <1>2, <1>3, TypeCorrect, PTL DEF Spec

-----------------------------------------------------------------------------
(* The end of the stream. *)

\* Where no bit is outstanding that was not there.
Sound == at \in {"block", "stored", "litsym", "done"} => ~bad

\* tm_inflate returns a length only if every bit it used was in the source.
THEOREM RefusesTruncated == Spec => []TruncatedRefused
<1>1. Init => Sound
  BY DEF Init, Sound
<1>2. TypeOK /\ Sound /\ [Next]_vars => Sound'
  <2> SUFFICES ASSUME TypeOK, Sound, [Next]_vars PROVE Sound'
    OBVIOUS
  <2>1. CASE Fail
    BY <2>1 DEF Fail, Sound
  <2>2. CASE BlockHeader /\ ~Fail
    BY <2>2 DEF BlockHeader, Sound
  <2>3. CASE (Stored \/ EndOfBlock) /\ ~Fail
    BY <2>3 DEF Stored, EndOfBlock, Sound
  <2>4. CASE (Counts \/ Literal \/ MatchLength \/ Match) /\ ~Fail
    BY <2>4 DEF Counts, Literal, MatchLength, Match, Decode, Sound
  <2>5. CASE (OneLength \/ RepeatLength \/ RepeatZero) /\ ~Fail
    BY <2>5 DEF OneLength, RepeatLength, RepeatZero, AddLengths, Decode, Sound
  <2>6. CASE DecodeBit /\ ~Fail
    BY <2>6 DEF DecodeBit, Hit, Miss, Refuses, Got, Decoding, Sound
  <2>7. CASE UNCHANGED vars
    BY <2>7 DEF vars, Sound
  <2>8. QED
    BY <2>1, <2>2, <2>3, <2>4, <2>5, <2>6, <2>7 DEF Next
<1>3. Sound => TruncatedRefused
  BY DEF Sound, TruncatedRefused
<1>4. QED
  BY <1>1, <1>2, <1>3, TypeCorrect, PTL DEF Spec

-----------------------------------------------------------------------------
(* Induction over numbers, as a fact about sets of them: the library's     *)
(* principle in the form that needs no operator.                           *)

LEMMA LeastNumber ==
  ASSUME NEW T, T \subseteq Nat, T # {}
  PROVE  \E x \in T : \A y \in T : x <= y
<1> DEFINE R == {ss \in Nat \X Nat : ss[1] < ss[2]}
<1>1. IsWellFoundedOn(R, Nat)
  BY NatLessThanWellFounded, Zenon DEF OpToRel
<1>2. PICK x \in T : \A y \in T : ~(<<y, x>> \in R)
  <2> HIDE DEF R
  <2> QED
    BY <1>1, WFMin, Zenon
<1>3. \A y \in T : x <= y
  <2> SUFFICES ASSUME NEW y \in T PROVE x <= y
    OBVIOUS
  <2>1. <<y, x>> \in Nat \X Nat /\ <<y, x>>[1] = y /\ <<y, x>>[2] = x
    OBVIOUS
  <2>2. QED
    BY <1>2, <2>1
<1>4. QED
  BY <1>3

LEMMA Induction ==
  ASSUME NEW T, 0 \in T, \A n \in Nat : n \in T => n + 1 \in T
  PROVE  Nat \subseteq T
<1> SUFFICES ASSUME Nat \ T # {} PROVE FALSE
  OBVIOUS
<1>1. PICK x \in Nat \ T : \A y \in Nat \ T : x <= y
  BY LeastNumber
<1>2. x - 1 \in Nat /\ (x - 1) + 1 = x
  OBVIOUS
<1>3. QED
  BY <1>1, <1>2

\* Induction over the subsets of a finite set, each from the ones that lack one
\* of its elements.
LEMMA SubsetInduction ==
  ASSUME NEW S, IsFiniteSet(S), NEW T, {} \in T,
         \A t \in SUBSET S : t # {} /\ (\A x \in t : t \ {x} \in T) => t \in T
  PROVE  SUBSET S \subseteq T
<1> DEFINE N == {n \in Nat : \A t \in SUBSET S : Cardinality(t) = n => t \in T}
<1>1. \A t \in SUBSET S : IsFiniteSet(t) /\ Cardinality(t) \in Nat
  BY FS_Subset, FS_CardinalityType
<1>2. 0 \in N
  BY <1>1, FS_EmptySet
<1>3. ASSUME NEW n \in Nat, n \in N PROVE n + 1 \in N
  <2> SUFFICES ASSUME NEW t \in SUBSET S, Cardinality(t) = n + 1 PROVE t \in T
    OBVIOUS
  <2>1. t # {}
    <3>1. Cardinality({}) = 0
      BY FS_EmptySet
    <3>2. QED
      BY <3>1
  <2>2. ASSUME NEW x \in t PROVE t \ {x} \in T
    <3>1. Cardinality(t \ {x}) = n /\ t \ {x} \in SUBSET S
      BY <1>1, FS_RemoveElement
    <3>2. QED
      BY <1>3, <3>1
  <2>3. QED
    BY <2>1, <2>2
<1>4. Nat \subseteq N
  <2> HIDE DEF N
  <2>1. QED
    BY <1>2, <1>3, Induction
<1>5. QED
  BY <1>1, <1>4

-----------------------------------------------------------------------------
(* Powers of two. *)

LEMMA Doubles ==
  ASSUME NEW n \in Nat
  PROVE  2 ^ n \in Nat /\ 2 ^ n > 0 /\ 2 ^ (n + 1) = 2 * 2 ^ n
<1> DEFINE A == SUBSET (1 .. n)
           B == SUBSET (1 .. n + 1)
<1>1. /\ IsFiniteSet(1 .. n) /\ Cardinality(1 .. n) = n
      /\ IsFiniteSet(1 .. n + 1) /\ Cardinality(1 .. n + 1) = n + 1
  BY FS_Interval
<1>2. /\ IsFiniteSet(A) /\ Cardinality(A) = 2 ^ n
      /\ IsFiniteSet(B) /\ Cardinality(B) = 2 ^ (n + 1)
  <2>1. /\ IsFiniteSet(A) /\ Cardinality(A) = 2 ^ Cardinality(1 .. n)
        /\ IsFiniteSet(B) /\ Cardinality(B) = 2 ^ Cardinality(1 .. n + 1)
    BY <1>1, FS_SUBSET
  <2>2. QED
    BY <1>1, <2>1, Zenon
<1> DEFINE C == B \ A
           f == [t \in A |-> t \cup {n + 1}]
<1>3. f \in Bijection(A, C)
  <2>1. f \in [A -> C]
    OBVIOUS
  <2>2. \A t, u \in A : f[t] = f[u] => t = u
    <3> SUFFICES ASSUME NEW t \in A, NEW u \in A, t \cup {n + 1} = u \cup {n + 1}
                 PROVE  t = u
      OBVIOUS
    <3>1. n + 1 \notin t /\ n + 1 \notin u
      OBVIOUS
    <3>2. QED
      BY <3>1
  <2>3. \A v \in C : \E t \in A : f[t] = v
    <3> SUFFICES ASSUME NEW v \in C PROVE \E t \in A : f[t] = v
      OBVIOUS
    <3>1. n + 1 \in v /\ v \ {n + 1} \in A
      OBVIOUS
    <3>2. f[v \ {n + 1}] = v
      BY <3>1
    <3>3. QED
      BY <3>1, <3>2
  <2>4. QED
    BY <2>1, <2>2, <2>3 DEF Bijection, Injection, Surjection, IsInjective
<1>4. IsFiniteSet(C) /\ Cardinality(C) = Cardinality(A)
  BY <1>2, <1>3, FS_Bijection DEF ExistsBijection
<1>5. Cardinality(B) = Cardinality(A) + Cardinality(C)
  <2>1. A \cap C = {} /\ A \cup C = B
    OBVIOUS
  <2>2. Cardinality(A \cup C) = Cardinality(A) + Cardinality(C) - Cardinality(A \cap C)
    BY <1>2, <1>4, FS_Union
  <2>3. Cardinality(A) \in Nat /\ Cardinality(C) \in Nat
    BY <1>2, <1>4, FS_CardinalityType
  <2> HIDE DEF A, B, C
  <2>4. QED
    BY <2>1, <2>2, <2>3, FS_EmptySet
<1>6. Cardinality(A) \in Nat /\ Cardinality(A) > 0
  <2>1. Cardinality(A) \in Nat /\ {} \in A
    BY <1>2, FS_CardinalityType
  <2>2. A # {}
    BY <2>1
  <2> HIDE DEF A
  <2>3. Cardinality(A) # 0
    BY <1>2, <2>2, FS_EmptySet
  <2>4. QED
    BY <2>1, <2>3
<1>7. QED
  <2> HIDE DEF A, B, C
  <2>1. QED
    BY <1>2, <1>4, <1>5, <1>6

-----------------------------------------------------------------------------
(* What a set of symbols uses up of the codes of length m. Canonical and   *)
(* Used are such sums.                                                     *)

Chosen(t) == CHOOSE y \in t : TRUE
Weight(L, m, S) == MapThenSumSet(LAMBDA y : 2 ^ (m - L[y]), S)

\* The fold over the subsets of S: a function that satisfies its definition.
Running(L, m, S) ==
  LET iter[t \in SUBSET S] ==
        IF t = {} THEN 0
        ELSE LET x == CHOOSE x \in t : TRUE IN 2 ^ (m - L[x]) + iter[t \ {x}]
  IN  iter

Adds(L, m, f, t) == IF t = {} THEN 0 ELSE 2 ^ (m - L[Chosen(t)]) + f[t \ {Chosen(t)}]

LEMMA WeightRuns ==
  ASSUME NEW L, NEW m, NEW S
  PROVE  Weight(L, m, S) = Running(L, m, S)[S]
BY DEF Weight, Running, MapThenSumSet, MapThenFoldSet

LEMMA RunningIs ==
  ASSUME NEW L, NEW m, NEW S, IsFiniteSet(S)
  PROVE  \A t \in SUBSET S : Running(L, m, S)[t] = Adds(L, m, Running(L, m, S), t)
<1> DEFINE K == {k \in Nat : \E f : \A t \in SUBSET S :
                               Cardinality(t) <= k => f[t] = Adds(L, m, f, t)}
<1>1. \A t \in SUBSET S : /\ IsFiniteSet(t) /\ Cardinality(t) \in Nat
                         /\ Cardinality(t) <= Cardinality(S)
  BY FS_Subset, FS_CardinalityType
<1>2. ASSUME NEW t \in SUBSET S, t # {}
      PROVE  /\ Chosen(t) \in t /\ t \ {Chosen(t)} \in SUBSET S
             /\ Cardinality(t \ {Chosen(t)}) = Cardinality(t) - 1
  <2>1. Chosen(t) \in t
    BY <1>2 DEF Chosen
  <2>2. QED
    BY <1>1, <2>1, FS_RemoveElement
<1>3. 0 \in K
  <2> DEFINE f == [t \in SUBSET S |-> 0]
  <2>1. \A t \in SUBSET S : Cardinality(t) <= 0 => t = {} /\ f[t] = 0
    BY <1>1, FS_EmptySet
  <2> HIDE DEF f
  <2>2. \A t \in SUBSET S : Cardinality(t) <= 0 => f[t] = Adds(L, m, f, t)
    BY <2>1 DEF Adds
  <2>3. QED
    BY <2>2
<1>4. ASSUME NEW k \in Nat, k \in K PROVE k + 1 \in K
  <2>1. PICK f : \A t \in SUBSET S : Cardinality(t) <= k => f[t] = Adds(L, m, f, t)
    BY <1>4
  <2> DEFINE g == [t \in SUBSET S |-> IF Cardinality(t) <= k THEN f[t] ELSE Adds(L, m, f, t)]
  <2>2. \A t \in SUBSET S : g[t] = IF Cardinality(t) <= k THEN f[t] ELSE Adds(L, m, f, t)
    OBVIOUS
  <2>3. \A t \in SUBSET S : g[t] = Adds(L, m, f, t)
    BY <2>1, <2>2
  <2> HIDE DEF g
  <2>4. ASSUME NEW t \in SUBSET S, Cardinality(t) <= k + 1 PROVE g[t] = Adds(L, m, g, t)
    <3>1. CASE t = {}
      BY <2>3, <3>1 DEF Adds
    <3>2. CASE t # {}
      <4>1. Cardinality(t \ {Chosen(t)}) <= k /\ t \ {Chosen(t)} \in SUBSET S
        BY <1>1, <1>2, <2>4, <3>2
      <4>2. g[t \ {Chosen(t)}] = f[t \ {Chosen(t)}]
        BY <2>2, <4>1
      <4>3. QED
        BY <2>3, <4>2 DEF Adds
    <3>3. QED
      BY <3>1, <3>2
  <2>5. QED
    BY <2>4
<1>5. Cardinality(S) \in K
  <2> HIDE DEF K
  <2>1. Nat \subseteq K
    BY <1>3, <1>4, Induction
  <2>2. QED
    BY <1>1, <2>1, FS_CardinalityType
<1>6. PICK f : \A t \in SUBSET S : f[t] = Adds(L, m, f, t)
  BY <1>1, <1>5
<1> DEFINE g == [t \in SUBSET S |-> Adds(L, m, f, t)]
<1>7. \A t \in SUBSET S : g[t] = f[t]
  BY <1>6
<1>8. g = [t \in SUBSET S |-> Adds(L, m, g, t)]
  <2>1. ASSUME NEW t \in SUBSET S PROVE Adds(L, m, f, t) = Adds(L, m, g, t)
    <3> HIDE DEF g
    <3>1. QED
      BY <1>2, <1>7 DEF Adds
  <2>2. QED
    BY <2>1, Zenon
<1>9. \E h : h = [t \in SUBSET S |-> Adds(L, m, h, t)]
  BY <1>8
<1>10. Running(L, m, S) = [t \in SUBSET S |-> Adds(L, m, Running(L, m, S), t)]
  BY <1>9, Zenon DEF Running, Adds, Chosen
<1>11. QED
  <2> DEFINE r == Running(L, m, S)
             h == [t \in SUBSET S |-> Adds(L, m, r, t)]
  <2>1. r = h
    BY <1>10
  <2>2. \A t \in SUBSET S : h[t] = Adds(L, m, r, t)
    OBVIOUS
  <2> HIDE DEF r, h
  <2>3. \A t \in SUBSET S : r[t] = Adds(L, m, r, t)
    BY <2>1, <2>2
  <2>4. QED
    BY <2>3 DEF r

LEMMA RunningWithin ==
  ASSUME NEW L, NEW m, NEW S, IsFiniteSet(S), NEW U \in SUBSET S
  PROVE  \A t \in SUBSET U : Running(L, m, S)[t] = Running(L, m, U)[t]
<1> DEFINE T == {t \in SUBSET U : Running(L, m, S)[t] = Running(L, m, U)[t]}
<1>1. IsFiniteSet(U)
  BY FS_Subset
<1>2. \A t \in SUBSET U :
        /\ Running(L, m, S)[t] = Adds(L, m, Running(L, m, S), t)
        /\ Running(L, m, U)[t] = Adds(L, m, Running(L, m, U), t)
  BY <1>1, RunningIs
<1>3. {} \in T
  BY <1>2 DEF Adds
<1>4. ASSUME NEW t \in SUBSET U, t # {}, \A x \in t : t \ {x} \in T PROVE t \in T
  <2>1. Chosen(t) \in t
    BY <1>4 DEF Chosen
  <2>2. QED
    BY <1>2, <1>4, <2>1 DEF Adds
<1>5. SUBSET U \subseteq T
  <2> HIDE DEF T
  <2>1. QED
    BY <1>1, <1>3, <1>4, SubsetInduction
<1>6. QED
  BY <1>5

LEMMA WeightIs ==
  ASSUME NEW L, NEW m, NEW S, IsFiniteSet(S)
  PROVE  /\ Weight(L, m, {}) = 0
         /\ S # {} => /\ Chosen(S) \in S
                      /\ Weight(L, m, S) = 2 ^ (m - L[Chosen(S)]) + Weight(L, m, S \ {Chosen(S)})
<1>1. Weight(L, m, {}) = 0
  <2>1. IsFiniteSet({}) /\ {} \in SUBSET {}
    BY FS_EmptySet
  <2>2. Running(L, m, {})[{}] = Adds(L, m, Running(L, m, {}), {})
    BY <2>1, RunningIs
  <2>3. QED
    BY <2>2, WeightRuns DEF Adds
<1>2. ASSUME S # {}
      PROVE  /\ Chosen(S) \in S
             /\ Weight(L, m, S) = 2 ^ (m - L[Chosen(S)]) + Weight(L, m, S \ {Chosen(S)})
  <2> DEFINE U == S \ {Chosen(S)}
  <2>1. Chosen(S) \in S
    BY <1>2 DEF Chosen
  <2>2. Running(L, m, S)[S] = 2 ^ (m - L[Chosen(S)]) + Running(L, m, S)[U]
    <3>1. Running(L, m, S)[S] = Adds(L, m, Running(L, m, S), S)
      BY RunningIs
    <3>2. QED
      BY <1>2, <3>1 DEF Adds
  <2>3. Running(L, m, S)[U] = Running(L, m, U)[U]
    <3>1. U \in SUBSET S /\ U \in SUBSET U
      OBVIOUS
    <3> HIDE DEF U
    <3>2. QED
      BY <3>1, RunningWithin
  <2>4. QED
    BY <2>1, <2>2, <2>3, WeightRuns
<1>3. QED
  BY <1>1, <1>2

LEMMA WeightType ==
  ASSUME NEW L, NEW m, NEW S, IsFiniteSet(S), \A y \in S : m - L[y] \in Nat
  PROVE  Weight(L, m, S) \in Nat
<1> DEFINE W(t) == Weight(L, m, t)
           p(x) == 2 ^ (m - L[x])
           N == {t \in SUBSET S : W(t) \in Nat}
<1>1. \A x \in S : p(x) \in Nat
  BY Doubles
<1>2. \A t \in SUBSET S : t # {} => Chosen(t) \in t /\ W(t) = p(Chosen(t)) + W(t \ {Chosen(t)})
  BY FS_Subset, WeightIs
<1>3. W({}) = 0
  BY WeightIs
<1> HIDE DEF W, p
<1>4. {} \in N
  BY <1>3
<1>5. ASSUME NEW t \in SUBSET S, t # {}, \A x \in t : t \ {x} \in N PROVE t \in N
  <2>1. p(Chosen(t)) \in Nat /\ W(t \ {Chosen(t)}) \in Nat /\ W(t) = p(Chosen(t)) + W(t \ {Chosen(t)})
    BY <1>1, <1>2, <1>5
  <2>2. W(t) \in Nat
    BY <2>1
  <2>3. QED
    BY <2>2
<1>6. SUBSET S \subseteq N
  <2> HIDE DEF N
  <2>1. QED
    BY <1>4, <1>5, SubsetInduction
<1>7. QED
  BY <1>6 DEF W

\* Any symbol may be taken first.
LEMMA WeightOfOne ==
  ASSUME NEW L, NEW m, NEW S, IsFiniteSet(S), \A y \in S : m - L[y] \in Nat, NEW z \in S
  PROVE  Weight(L, m, S) = 2 ^ (m - L[z]) + Weight(L, m, S \ {z})
<1> DEFINE W(t) == Weight(L, m, t)
           p(x) == 2 ^ (m - L[x])
           T == {t \in SUBSET S : \A x \in t : W(t) = p(x) + W(t \ {x})}
<1>1. \A x \in S : p(x) \in Nat
  BY Doubles
<1>2. \A t \in SUBSET S : t # {} => Chosen(t) \in t /\ W(t) = p(Chosen(t)) + W(t \ {Chosen(t)})
  BY FS_Subset, WeightIs
<1>3. \A t \in SUBSET S : W(t) \in Nat
  BY FS_Subset, WeightType
<1> HIDE DEF W, p
<1>4. {} \in T
  OBVIOUS
<1>5. ASSUME NEW t \in SUBSET S, t # {}, \A x \in t : t \ {x} \in T PROVE t \in T
  <2> DEFINE c == Chosen(t)
  <2>1. c \in t /\ W(t) = p(c) + W(t \ {c})
    BY <1>2, <1>5
  <2> HIDE DEF c
  <2>2. ASSUME NEW x \in t, x # c PROVE W(t) = p(x) + W(t \ {x})
    <3>1. W(t \ {c}) = p(x) + W((t \ {c}) \ {x}) /\ W(t \ {x}) = p(c) + W((t \ {x}) \ {c})
      BY <1>5, <2>1, <2>2
    <3>2. (t \ {c}) \ {x} = (t \ {x}) \ {c} /\ (t \ {c}) \ {x} \in SUBSET S
      OBVIOUS
    <3>3. W((t \ {c}) \ {x}) \in Nat /\ p(x) \in Nat /\ p(c) \in Nat
      BY <1>1, <1>3, <2>1, <3>2
    <3> DEFINE u == (t \ {c}) \ {x}
    <3>4. W(t \ {c}) = p(x) + W(u) /\ W(t \ {x}) = p(c) + W(u)
      BY <3>1, <3>2, Zenon
    <3> HIDE DEF u
    <3>5. QED
      BY <2>1, <3>3, <3>4 DEF u
  <2>3. QED
    BY <2>1, <2>2
<1>6. SUBSET S \subseteq T
  <2> HIDE DEF T
  <2>1. QED
    BY <1>4, <1>5, SubsetInduction
<1>7. QED
  BY <1>6 DEF W, p

\* Codes one longer: twice as many.
LEMMA WeightDoubles ==
  ASSUME NEW L, NEW m \in Nat, NEW S, IsFiniteSet(S), \A y \in S : L[y] \in Nat /\ L[y] <= m
  PROVE  Weight(L, m, S) \in Nat /\ Weight(L, m + 1, S) = 2 * Weight(L, m, S)
<1> DEFINE T == {t \in SUBSET S : Weight(L, m + 1, t) = 2 * Weight(L, m, t)}
<1>1. \A x \in S : /\ m - L[x] \in Nat /\ (m + 1) - L[x] \in Nat
                  /\ 2 ^ (m - L[x]) \in Nat /\ 2 ^ ((m + 1) - L[x]) = 2 * 2 ^ (m - L[x])
  <2> SUFFICES ASSUME NEW x \in S
               PROVE  /\ m - L[x] \in Nat /\ (m + 1) - L[x] \in Nat
                      /\ 2 ^ (m - L[x]) \in Nat /\ 2 ^ ((m + 1) - L[x]) = 2 * 2 ^ (m - L[x])
    OBVIOUS
  <2>1. m - L[x] \in Nat /\ (m + 1) - L[x] = (m - L[x]) + 1
    OBVIOUS
  <2>2. QED
    BY <2>1, Doubles
<1>2. ASSUME NEW t \in SUBSET S PROVE Weight(L, m, t) \in Nat
  <2>1. IsFiniteSet(t) /\ \A y \in t : m - L[y] \in Nat
    BY <1>1, FS_Subset
  <2>2. QED
    BY <2>1, WeightType
<1>2a. ASSUME NEW t \in SUBSET S, NEW x \in t
      PROVE  /\ Weight(L, m, t) = 2 ^ (m - L[x]) + Weight(L, m, t \ {x})
             /\ Weight(L, m + 1, t) = 2 ^ ((m + 1) - L[x]) + Weight(L, m + 1, t \ {x})
  <2>1. IsFiniteSet(t) /\ \A y \in t : m - L[y] \in Nat /\ (m + 1) - L[y] \in Nat
    BY <1>1, FS_Subset
  <2>2. QED
    BY <2>1, WeightOfOne
<1>3. {} \in T
  <2>1. \A k : Weight(L, k, {}) = 0
    BY WeightIs
  <2>2. QED
    BY <2>1
<1>4. ASSUME NEW t \in SUBSET S, t # {}, \A x \in t : t \ {x} \in T PROVE t \in T
  <2>1. PICK x \in t : TRUE
    BY <1>4
  <2> DEFINE u == t \ {x}
  <2>2. u \in SUBSET S /\ Weight(L, m + 1, u) = 2 * Weight(L, m, u) /\ Weight(L, m, u) \in Nat
    BY <1>2, <1>4
  <2>3. /\ Weight(L, m, t) = 2 ^ (m - L[x]) + Weight(L, m, u)
        /\ Weight(L, m + 1, t) = 2 ^ ((m + 1) - L[x]) + Weight(L, m + 1, u)
    BY <1>2a
  <2> HIDE DEF u
  <2>4. QED
    BY <1>1, <2>2, <2>3
<1>5. SUBSET S \subseteq T
  <2> HIDE DEF T
  <2>1. QED
    BY <1>3, <1>4, SubsetInduction
<1>6. QED
  BY <1>2, <1>5

\* A symbol of length m uses up one.
LEMMA WeightJoins ==
  ASSUME NEW L, NEW m \in Nat, NEW A, NEW B, IsFiniteSet(A), IsFiniteSet(B), A \cap B = {},
         \A y \in A : L[y] \in Nat /\ L[y] <= m, \A y \in B : L[y] = m
  PROVE  Weight(L, m, A \cup B) = Weight(L, m, A) + Cardinality(B)
<1> DEFINE T == {t \in SUBSET B : Weight(L, m, A \cup t) = Weight(L, m, A) + Cardinality(t)}
<1>1. IsFiniteSet(A \cup B) /\ \A y \in A \cup B : m - L[y] \in Nat
  <2>1. IsFiniteSet(A \cup B)
    BY FS_Union
  <2>2. \A y \in A \cup B : L[y] \in Nat /\ L[y] <= m
    OBVIOUS
  <2>3. QED
    BY <2>1, <2>2
<1>2. ASSUME NEW t \in SUBSET (A \cup B)
      PROVE  /\ Weight(L, m, t) \in Nat
             /\ \A x \in t : Weight(L, m, t) = 2 ^ (m - L[x]) + Weight(L, m, t \ {x})
  <2>1. IsFiniteSet(t) /\ \A y \in t : m - L[y] \in Nat
    BY <1>1, FS_Subset
  <2>2. Weight(L, m, t) \in Nat
    BY <2>1, WeightType
  <2>3. ASSUME NEW x \in t PROVE Weight(L, m, t) = 2 ^ (m - L[x]) + Weight(L, m, t \ {x})
    BY <2>1, WeightOfOne
  <2>4. QED
    BY <2>2, <2>3
<1>3. \A x \in B : 2 ^ (m - L[x]) = 1
  <2>1. \A x \in B : m - L[x] = 0
    OBVIOUS
  <2>2. 2 ^ 0 = 1
    OBVIOUS
  <2>3. QED
    BY <2>1, <2>2
<1>4. {} \in T
  <2>1. A \cup {} = A /\ Cardinality({}) = 0 /\ Weight(L, m, A) \in Nat
    BY <1>2, FS_EmptySet
  <2>2. QED
    BY <2>1
<1>5. ASSUME NEW t \in SUBSET B, t # {}, \A x \in t : t \ {x} \in T PROVE t \in T
  <2>1. PICK x \in t : TRUE
    BY <1>5
  <2>2. (A \cup t) \ {x} = A \cup (t \ {x}) /\ A \cup t \in SUBSET (A \cup B)
    OBVIOUS
  <2>3. Weight(L, m, A \cup t) = 1 + Weight(L, m, A \cup (t \ {x}))
    BY <1>2, <1>3, <2>2
  <2>4. IsFiniteSet(t) /\ Cardinality(t) \in Nat /\ Cardinality(t \ {x}) = Cardinality(t) - 1
    BY FS_Subset, FS_CardinalityType, FS_RemoveElement
  <2>5. Weight(L, m, A \cup (t \ {x})) = Weight(L, m, A) + Cardinality(t \ {x})
    BY <1>5
  <2>6. Weight(L, m, A) \in Nat
    BY <1>2
  <2>7. QED
    BY <2>3, <2>4, <2>5, <2>6
<1>6. SUBSET B \subseteq T
  <2> HIDE DEF T
  <2>1. QED
    BY <1>4, <1>5, SubsetInduction
<1>7. QED
  BY <1>6

-----------------------------------------------------------------------------
(* The codes RFC 1951 assigns. *)

Shorter(L, len) == {x \in Coded(L) : L[x] < len}

\* While a symbol is being decoded, first is what the shorter codes use up of
\* the codes of the length at hand, and the bits so far are fewer than that.
Numbered ==
  at \in Decoding =>
    /\ dec.first = Weight(codes[at], dec.len, Shorter(codes[at], dec.len))
    /\ dec.code <= 2 ^ dec.len - 2

LEMMA CodedLengths ==
  ASSUME NEW L, IsCode(L)
  PROVE  \A x \in Coded(L) : L[x] \in Nat /\ 1 <= L[x] /\ L[x] <= MAXBITS
<1>1. \A M, D : M \in [D -> 0 .. MAXBITS] =>
        \A x \in Coded(M) : M[x] \in Nat /\ 1 <= M[x] /\ M[x] <= MAXBITS
  BY Constants DEF Coded
<1>2. QED
  BY <1>1 DEF IsCode

\* One length further, the codes used up are twice those and the ones of it.
LEMMA NextFirst ==
  ASSUME NEW L, IsCode(L), NEW len \in Nat
  PROVE  LET w == Weight(L, len, Shorter(L, len))
         IN  /\ w \in Nat
             /\ Weight(L, len, Shorter(L, len + 1)) = w + Count(L, len)
             /\ Weight(L, len + 1, Shorter(L, len + 1)) = 2 * (w + Count(L, len))
<1> DEFINE A == Shorter(L, len)
           B == OfLength(L, len)
           C == Shorter(L, len + 1)
<1>1. /\ IsFiniteSet(A) /\ IsFiniteSet(B) /\ IsFiniteSet(C)
      /\ \A y \in A : L[y] \in Nat /\ L[y] <= len
      /\ \A y \in B : L[y] = len
      /\ \A y \in C : L[y] \in Nat /\ L[y] <= len
  <2>1. IsFiniteSet(Coded(L)) /\ \A x \in Coded(L) : L[x] \in Nat
    BY CodedFinite, CodedLengths
  <2>2. A \in SUBSET Coded(L) /\ B \in SUBSET Coded(L) /\ C \in SUBSET Coded(L)
    BY DEF Shorter, OfLength
  <2>3. IsFiniteSet(A) /\ IsFiniteSet(B) /\ IsFiniteSet(C)
    BY <2>1, <2>2, FS_Subset
  <2>4. QED
    BY <2>1, <2>3 DEF Shorter, OfLength
<1>2. C = A \cup B /\ A \cap B = {}
  <2>1. \A x \in Coded(L) : L[x] \in Nat
    BY CodedLengths
  <2>2. QED
    BY <2>1 DEF Shorter, OfLength
<1> HIDE DEF A, B, C
<1>3. Weight(L, len, A \cup B) = Weight(L, len, A) + Cardinality(B)
  BY <1>1, <1>2, WeightJoins
<1>4. Weight(L, len, A) \in Nat
  BY <1>1, WeightDoubles
<1>5. Weight(L, len + 1, C) = 2 * Weight(L, len, C)
  BY <1>1, WeightDoubles
<1>6. Cardinality(B) = Count(L, len)
  BY DEF B, Count
<1>7. QED
  BY <1>2, <1>3, <1>4, <1>5, <1>6 DEF A, C

LEMMA FreshNumbered ==
  ASSUME TypeOK', dec' = Fresh
  PROVE  Numbered'
<1> SUFFICES ASSUME at' \in Decoding PROVE Numbered'
  BY DEF Numbered
<1>1. Shorter(codes'[at'], 1) = {}
  <2>1. IsCode(codes'[at'])
    BY DEF TypeOK
  <2>2. \A x \in Coded(codes'[at']) : codes'[at'][x] \in Nat /\ 1 <= codes'[at'][x]
    BY <2>1, CodedLengths
  <2>3. QED
    BY <2>2 DEF Shorter
<1>2. Weight(codes'[at'], 1, {}) = 0
  BY FS_EmptySet, WeightIs
<1>3. 0 <= 2 ^ 1 - 2
  <2>1. 2 ^ 0 = 1 /\ 2 ^ (0 + 1) = 2 * 2 ^ 0
    BY Doubles
  <2>2. QED
    BY <2>1
<1>4. QED
  BY <1>1, <1>2, <1>3 DEF Fresh, Numbered

LEMMA BitFits ==
  ASSUME TypeOK, Numbered, at \in Decoding, NEW b \in {0, 1}
  PROVE  /\ IsCode(codes[at]) /\ dec.len \in Nat /\ 2 ^ dec.len \in Nat
         /\ dec.code + b \in Nat /\ dec.code + b < 2 ^ dec.len
         /\ 2 ^ (dec.len + 1) = 2 * 2 ^ dec.len
<1>1. IsCode(codes[at]) /\ dec.len \in Nat /\ dec.code \in Nat
  BY DecType DEF TypeOK
<1>2. 2 ^ dec.len \in Nat /\ 2 ^ (dec.len + 1) = 2 * 2 ^ dec.len
  BY <1>1, Doubles
<1>3. dec.code <= 2 ^ dec.len - 2
  BY DEF Numbered
<1>4. QED
  BY <1>1, <1>2, <1>3

LEMMA NumberedStep ==
  ASSUME TypeOK, TypeOK', Numbered, [Next]_vars
  PROVE  Numbered'
<1>1. CASE dec' = Fresh
  BY <1>1, FreshNumbered
<1>2. CASE at' \notin Decoding
  BY <1>2 DEF Numbered
<1>3. CASE UNCHANGED <<at, dec, codes>>
  BY <1>3 DEF Numbered
<1>4. CASE DecodeBit /\ dec' # Fresh /\ at' \in Decoding
  <2>1. PICK b \in {0, 1} : Hit(dec.code + b) \/ Miss(dec.code + b)
    BY <1>4 DEF DecodeBit
  <2> DEFINE c == dec.code + b
             L == codes[at]
             n == Count(L, dec.len)
             p == 2 ^ dec.len
  <2>2. ~Hit(c)
    BY <1>4 DEF Hit, Fail, Got, DecodeBit, Decoding
  <2>3. dec' = Longer(c, n) /\ UNCHANGED <<at, codes>>
    BY <1>4, <2>1, <2>2 DEF Miss, Fail
  <2>4. /\ IsCode(L) /\ dec.len \in Nat /\ p \in Nat /\ c \in Nat /\ c < p
        /\ 2 ^ (dec.len + 1) = 2 * p
    BY <1>4, BitFits DEF DecodeBit
  <2>5. dec.first = Weight(L, dec.len, Shorter(L, dec.len))
    BY <1>4 DEF Numbered, DecodeBit
  <2>6. Weight(L, dec.len + 1, Shorter(L, dec.len + 1)) = 2 * (dec.first + n)
    BY <2>4, <2>5, NextFirst
  <2> HIDE DEF n, p, L
  <2>7. dec'.first = 2 * (dec.first + n) /\ dec'.len = dec.len + 1 /\ dec'.code = 2 * c
    BY <2>3 DEF Longer
  <2>8. codes'[at'] = L
    BY <2>3 DEF L
  <2>9. dec'.first = Weight(codes'[at'], dec'.len, Shorter(codes'[at'], dec'.len))
    BY <2>6, <2>7, <2>8
  <2>10. dec'.code <= 2 ^ dec'.len - 2
    BY <2>4, <2>7
  <2>11. QED
    BY <2>9, <2>10 DEF Numbered
<1>5. QED
  <2>1. CASE BlockHeader
    BY <1>1, <1>2, <2>1 DEF BlockHeader, Fail, Decode, Decoding
  <2>2. CASE Stored \/ EndOfBlock
    BY <1>1, <2>2 DEF Stored, EndOfBlock, EndBlock, Fail
  <2>3. CASE Counts \/ Literal \/ MatchLength \/ Match
    BY <1>1, <2>3 DEF Counts, Literal, MatchLength, Match, Decode, Fail
  <2>4. CASE OneLength \/ RepeatLength \/ RepeatZero
    BY <1>1, <2>4 DEF OneLength, RepeatLength, RepeatZero, AddLengths, Decode, Fail
  <2>5. QED
    BY <1>1, <1>2, <1>3, <1>4, <2>1, <2>2, <2>3, <2>4 DEF Next, vars

\* The symbol at a place among those of a length has that length, and its code
\* is as far from the first one.
LEMMA SymbolAt ==
  ASSUME NEW L, IsCode(L), NEW len \in Nat, NEW x \in Coded(L), NEW k \in Nat,
         Place(L, x) = Cardinality(Shorter(L, len)) + k, k < Count(L, len)
  PROVE  /\ L[x] = len
         /\ Canonical(L, x) = Weight(L, len, Shorter(L, len)) + k
<1> DEFINE A == Shorter(L, len)
           C == Shorter(L, len + 1)
           E == {y \in Coded(L) : Before(L, y, x)}
           D == {y \in OfLength(L, len) : y < x}
<1>1. /\ IsFiniteSet(Coded(L)) /\ Coded(L) \subseteq Nat
      /\ \A y \in Coded(L) : L[y] \in Nat
  BY CodedFinite, CodedLengths
<1>2. /\ IsFiniteSet(A) /\ IsFiniteSet(C) /\ IsFiniteSet(D) /\ IsFiniteSet(E)
      /\ Cardinality(A) \in Nat /\ Cardinality(D) \in Nat /\ Cardinality(E) \in Nat
  <2>1. /\ A \in SUBSET Coded(L) /\ C \in SUBSET Coded(L)
        /\ D \in SUBSET Coded(L) /\ E \in SUBSET Coded(L)
    BY DEF Shorter, OfLength
  <2> HIDE DEF A, C, D, E
  <2>2. IsFiniteSet(A) /\ IsFiniteSet(C) /\ IsFiniteSet(D) /\ IsFiniteSet(E)
    BY <1>1, <2>1, FS_Subset
  <2>3. QED
    BY <2>2, FS_CardinalityType
<1>3. Cardinality(C) = Cardinality(A) + Count(L, len) /\ Count(L, len) \in Nat
  BY CodedFinite DEF Shorter
<1>4. Cardinality(E) = Cardinality(A) + k
  BY DEF Place
<1>5. L[x] >= len
  <2> SUFFICES ASSUME L[x] < len PROVE FALSE
    BY <1>1
  <2>1. x \in A /\ E \in SUBSET (A \ {x})
    BY <1>1 DEF Shorter, Before
  <2> HIDE DEF A, E
  <2>2. IsFiniteSet(A \ {x}) /\ Cardinality(A \ {x}) = Cardinality(A) - 1
    BY <1>2, <2>1, FS_RemoveElement
  <2>3. Cardinality(E) <= Cardinality(A \ {x})
    BY <2>1, <2>2, FS_Subset
  <2>4. QED
    BY <1>2, <1>4, <2>2, <2>3
<1>6. L[x] <= len
  <2> SUFFICES ASSUME L[x] > len PROVE FALSE
    BY <1>1
  <2>1. C \in SUBSET E
    BY <1>1 DEF Shorter, Before
  <2> HIDE DEF A, C, E
  <2>2. Cardinality(C) <= Cardinality(E)
    BY <1>2, <2>1, FS_Subset
  <2>3. QED
    BY <1>2, <1>3, <1>4, <2>2
<1>7. L[x] = len
  BY <1>1, <1>5, <1>6
<1>8. /\ E = A \cup D /\ A \cap D = {}
      /\ \A y \in A : L[y] \in Nat /\ L[y] <= len
      /\ \A y \in D : L[y] = len
  BY <1>1, <1>7 DEF Shorter, OfLength, Before
<1>9. Canonical(L, x) = Weight(L, len, E)
  <2>1. Canonical(L, x) = Weight(L, L[x], E)
    BY DEF Canonical, Weight
  <2> HIDE DEF E
  <2>2. QED
    BY <1>7, <2>1
<1> HIDE DEF A, C, D, E
<1>10. Cardinality(E) = Cardinality(A) + Cardinality(D)
  <2>1. Cardinality(A \cup D) = Cardinality(A) + Cardinality(D) - Cardinality(A \cap D)
    BY <1>2, FS_Union
  <2>2. QED
    BY <1>2, <1>8, <2>1, FS_EmptySet
<1>11. Weight(L, len, A \cup D) = Weight(L, len, A) + Cardinality(D)
  BY <1>2, <1>8, WeightJoins
<1>12. Cardinality(D) = k
  BY <1>2, <1>4, <1>10
<1>13. QED
  BY <1>7, <1>8, <1>9, <1>11, <1>12 DEF A

LEMMA CanonicalStep ==
  ASSUME TypeOK, Tried, Numbered, CodeIsCanonical, [Next]_vars
  PROVE  CodeIsCanonical'
<1>1. CASE UNCHANGED vars
  BY <1>1 DEF vars, CodeIsCanonical
<1>2. CASE DecodeBit /\ at' \in {"clsym", "litsym", "distsym"}
  <2>1. PICK b \in {0, 1} : Hit(dec.code + b) \/ Miss(dec.code + b)
    BY <1>2 DEF DecodeBit
  <2> DEFINE c == dec.code + b
             L == codes[at]
  <2>2. at \in Decoding /\ Hit(c) /\ ~Fail
    BY <1>2, <2>1 DEF DecodeBit, Decoding, Miss, Fail
  <2>3. /\ c - dec.first < Count(L, dec.len)
        /\ s' \in Coded(L) /\ Place(L, s') = dec.index + c - dec.first
        /\ dec' = [dec EXCEPT !.code = c] /\ at' = Got[at] /\ codes' = codes
    BY <2>2 DEF Hit
  <2>4. /\ IsCode(L) /\ dec.len \in Nat /\ c \in Nat /\ dec.first \in Nat
        /\ dec.first <= c
    <3>1. dec.code >= dec.first
      BY <2>2 DEF Tried
    <3>2. dec.first \in Nat /\ dec.code \in Nat
      BY DecType
    <3>3. QED
      BY <2>2, <3>1, <3>2, BitFits
  <2>5. /\ dec.index = Cardinality(Shorter(L, dec.len)) /\ dec.index \in Nat
        /\ dec.first = Weight(L, dec.len, Shorter(L, dec.len))
    BY <2>2, DecType DEF Tried, Numbered, Shorter
  <2> DEFINE k == c - dec.first
  <2>6. k \in Nat /\ Place(L, s') = dec.index + k
    BY <2>3, <2>4, <2>5
  <2>7. L[s'] = dec.len /\ Canonical(L, s') = dec.first + k
    <3> HIDE DEF c, L, k
    <3>1. k < Count(L, dec.len)
      BY <2>3 DEF k
    <3>2. QED
      BY <2>3, <2>4, <2>5, <2>6, <3>1, SymbolAt
  <2>8. dec'.len = dec.len /\ dec'.code = dec.first + k
    <3>1. dec'.len = dec.len /\ dec'.code = c
      BY <2>3, DecType DEF TypeOK
    <3>2. QED
      BY <2>4, <3>1
  <2>9. ASSUME NEW x \in Decoding, at' = Got[x]
        PROVE  codes'[x][s'] = dec'.len /\ dec'.code = Canonical(codes'[x], s')
    <3>1. x = at
      BY <2>2, <2>3, <2>9 DEF Got, Decoding
    <3>2. codes'[x] = L
      BY <2>3, <3>1
    <3> HIDE DEF k, c, L
    <3>3. QED
      BY <2>7, <2>8, <3>2
  <2>10. (\A x \in Decoding : at' = Got[x] => codes'[x][s'] = dec'.len /\ dec'.code = Canonical(codes'[x], s'))
           => CodeIsCanonical'
    BY DEF CodeIsCanonical
  <2>11. QED
    BY <2>9, <2>10
<1>3. CASE at' \notin {"clsym", "litsym", "distsym"}
  BY <1>3 DEF CodeIsCanonical, Decoding, Got
<1>4. QED
  BY <1>1, <1>2, <1>3 DEF Next, BlockHeader, Stored, Counts, OneLength, RepeatLength, RepeatZero, AddLengths,
     Literal, EndOfBlock, EndBlock, MatchLength, Match, Fail, Decode

\* Whatever code lengths the stream gives, a symbol has the length that was
\* read and the code RFC 1951 assigns to it.
THEOREM SymbolsAreCanonical == Spec => []CodeIsCanonical
<1>1. Init => Tried /\ Numbered /\ CodeIsCanonical
  BY DEF Init, Tried, Numbered, CodeIsCanonical, Decoding, Got
<1>2. /\ TypeOK /\ TypeOK' /\ Tried /\ [Next]_vars => Tried'
      /\ TypeOK /\ TypeOK' /\ Numbered /\ [Next]_vars => Numbered'
      /\ TypeOK /\ Tried /\ Numbered /\ CodeIsCanonical /\ [Next]_vars => CodeIsCanonical'
  BY TriedStep, NumberedStep, CanonicalStep
<1>3. QED
  BY <1>1, <1>2, TypeCorrect, PTL DEF Spec

\* A code is given up on at a bit that was there only if its lengths leave
\* some codes unused.
THEOREM CompleteCodesGoOn == Spec => CompleteCodeDecodes
<1>1. Init => Tried /\ Numbered
  BY DEF Init, Tried, Numbered, Decoding
<1>2. /\ TypeOK /\ TypeOK' /\ Tried /\ [Next]_vars => Tried'
      /\ TypeOK /\ TypeOK' /\ Numbered /\ [Next]_vars => Numbered'
  BY TriedStep, NumberedStep
<1>3. TypeOK /\ Tried /\ Numbered /\ [Next]_vars =>
        [(at \in Decoding /\ at' = "fail" /\ ~bad') => Used(codes[at]) < 2 ^ MAXBITS]_vars
  <2> SUFFICES ASSUME TypeOK, Numbered, Next, at \in Decoding, at' = "fail", ~bad'
               PROVE  Used(codes[at]) < 2 ^ MAXBITS
    BY DEF vars
  <2> DEFINE L == codes[at]
             n == Count(L, dec.len)
             p == 2 ^ dec.len
  <2>1. DecodeBit
    BY DEF Next, BlockHeader, Stored, Counts, OneLength, RepeatLength, RepeatZero,
           Literal, EndOfBlock, MatchLength, Match, Decoding
  <2>2. PICK b \in {0, 1} : Hit(dec.code + b) \/ Miss(dec.code + b)
    BY <2>1 DEF DecodeBit
  <2> DEFINE c == dec.code + b
  <2>3. ~Hit(c)
    BY DEF Hit, Refuses, Got, Decoding
  <2>4. c - dec.first >= n /\ dec.len = MAXBITS
    BY <2>2, <2>3 DEF Miss, Longest, Decoding
  <2>5. /\ IsCode(L) /\ dec.len \in Nat /\ p \in Nat /\ c \in Nat /\ c < p
        /\ dec.first \in Nat
    BY BitFits, DecType
  <2>6. dec.first = Weight(L, dec.len, Shorter(L, dec.len))
    BY DEF Numbered
  <2>7. Coded(L) = Shorter(L, dec.len + 1)
    <3>1. \A x \in Coded(L) : L[x] \in Nat /\ L[x] <= MAXBITS
      BY <2>5, CodedLengths
    <3>2. QED
      BY <2>4, <3>1, Constants DEF Shorter
  <2>8. Used(L) = Weight(L, dec.len, Coded(L))
    <3>1. Used(L) = Weight(L, MAXBITS, Coded(L))
      BY DEF Used, Weight
    <3>2. QED
      BY <2>4, <3>1
  <2> HIDE DEF L, n, p, c
  <2>9. Weight(L, dec.len, Shorter(L, dec.len + 1)) = dec.first + n
    BY <2>5, <2>6, NextFirst DEF n
  <2>10. n \in Nat
    BY <2>5, CodedFinite DEF n
  <2>11. dec.first + n < p
    BY <2>4, <2>5, <2>10
  <2>12. QED
    BY <2>4, <2>7, <2>8, <2>9, <2>11 DEF L, p
<1>4. QED
  BY <1>1, <1>2, <1>3, TypeCorrect, PTL DEF Spec, CompleteCodeDecodes

-----------------------------------------------------------------------------
(* Matches. *)

LEMMA Division ==
  ASSUME NEW a \in Nat, NEW d \in Nat, d > 0
  PROVE  a = d * (a \div d) + (a % d) /\ a % d \in 0 .. d - 1 /\ a \div d \in Int
OBVIOUS

LEMMA OneRemainder ==
  ASSUME NEW d \in Nat, NEW p \in Int, NEW q \in Int,
         NEW r \in 0 .. d - 1, NEW t \in 0 .. d - 1, d * q + r = d * p + t
  PROVE  r = t
<1>1. \A x \in Int : x >= 1 => d * x >= d
  OBVIOUS
<1>2. d * q - d * p = t - r /\ d * (q - p) = d * q - d * p /\ d * (p - q) = d * p - d * q
  OBVIOUS
<1>3. q - p >= 1 => d * (q - p) >= d
  BY <1>1
<1>4. p - q >= 1 => d * (p - q) >= d
  BY <1>1
<1>5. CASE q = p
  BY <1>2, <1>5
<1>6. QED
  BY <1>2, <1>3, <1>4, <1>5

LEMMA Around ==
  ASSUME NEW a \in Nat, NEW d \in Nat, d > 0
  PROVE  (a + d) % d = a % d
<1> DEFINE q == a \div d
           p == (a + d) \div d
<1>1. /\ a = d * q + (a % d) /\ a + d = d * p + ((a + d) % d) /\ q \in Int /\ p \in Int
      /\ a % d \in 0 .. d - 1 /\ (a + d) % d \in 0 .. d - 1
  BY Division
<1>2. d * (q + 1) = d * q + d /\ q + 1 \in Int
  BY <1>1
<1>3. d * (q + 1) + (a % d) = d * p + ((a + d) % d)
  BY <1>1, <1>2
<1>4. QED
  BY <1>1, <1>2, <1>3, OneRemainder

\* What the copy loop writes, byte after byte, is the text it goes back to.
Copied(old, n, d, len, o) ==
  \A i \in 1 .. n + len : o[i] = IF i <= n THEN old[i] ELSE o[i - d]
Repeats(old, n, d, len, o) ==
  \A j \in Nat : j < len => o[n + 1 + j] = old[1 + n - d + (j % d)]

LEMMA CopyRepeats ==
  ASSUME NEW n \in Nat, NEW d \in 1 .. n, NEW len \in Nat, NEW old, NEW o,
         Copied(old, n, d, len, o)
  PROVE  Repeats(old, n, d, len, o)
<1> USE DEF Copied
<1> DEFINE G(k) == k < len => o[n + 1 + k] = old[1 + n - d + (k % d)]
           T == {j \in Nat : \A k \in 0 .. j : G(k)}
<1>1. \A k \in Nat : k < d /\ k < len => o[n + 1 + k] = old[1 + n - d + (k % d)]
  <2> SUFFICES ASSUME NEW k \in Nat, k < d, k < len
               PROVE  o[n + 1 + k] = old[1 + n - d + (k % d)]
    OBVIOUS
  <2>1. k % d = k /\ (n + 1 + k) - d = 1 + n - d + k
    OBVIOUS
  <2>2. n + 1 + k \in 1 .. n + len /\ ~(n + 1 + k <= n)
    OBVIOUS
  <2>3. o[n + 1 + k] = o[(n + 1 + k) - d]
    BY <2>2
  <2>4. 1 + n - d + k \in 1 .. n + len /\ 1 + n - d + k <= n
    OBVIOUS
  <2>5. o[1 + n - d + k] = old[1 + n - d + k]
    BY <2>4
  <2>6. QED
    BY <2>1, <2>3, <2>5
<1>2. ASSUME NEW j \in Nat, \A k \in 0 .. j : G(k) PROVE G(j + 1)
  <2>1. ASSUME j + 1 < len, j + 1 < d
        PROVE  o[n + 1 + (j + 1)] = old[1 + n - d + ((j + 1) % d)]
    <3>1. j + 1 \in Nat
      OBVIOUS
    <3>2. QED
      BY <1>1, <2>1, <3>1, Zenon
  <2>2. ASSUME j + 1 < len, j + 1 >= d
        PROVE  o[n + 1 + (j + 1)] = old[1 + n - d + ((j + 1) % d)]
    <3>1. PICK k \in Nat : k = j + 1 - d
      BY <2>2
    <3>2. k \in 0 .. j /\ k < len /\ k + d = j + 1
      BY <2>2, <3>1
    <3>3. o[n + 1 + k] = old[1 + n - d + (k % d)]
      BY <1>2, <3>2
    <3>4. (k + d) % d = k % d
      <4>1. d \in Nat /\ d > 0
        OBVIOUS
      <4>2. QED
        BY <4>1, Around
    <3>5. n + 1 + (j + 1) \in 1 .. n + len /\ ~(n + 1 + (j + 1) <= n) /\ (n + 1 + (j + 1)) - d = n + 1 + k
      BY <2>2, <3>2
    <3>6. o[n + 1 + (j + 1)] = o[n + 1 + k]
      BY <3>5
    <3>7. QED
      BY <3>2, <3>3, <3>4, <3>6
  <2>3. QED
    BY <2>1, <2>2
<1>3. G(0)
  BY <1>1
<1> HIDE DEF G
<1>4. 0 \in T
  BY <1>3
<1>5. ASSUME NEW j \in Nat, j \in T PROVE j + 1 \in T
  <2>1. G(j + 1)
    BY <1>2, <1>5
  <2>2. QED
    BY <1>5, <2>1
<1>6. Nat \subseteq T
  <2> HIDE DEF T
  <2>1. QED
    BY <1>4, <1>5, Induction
<1>7. \A j \in Nat : G(j)
  BY <1>6
<1>8. QED
  BY <1>7 DEF G, Repeats

\* A match longer than its distance repeats the text it goes back to, for any
\* length and distance that fit.
THEOREM MatchesRepeat == Spec => MatchRepeats
<1>1. TypeOK /\ [Next]_vars =>
        [at = "distsym" /\ at' = "lit" =>
           \E d \in 1 .. Len(out) :
             /\ \E v \in 0 .. 2 ^ DIST_EXTRA[s + 1] - 1 : d = DIST_BASE[s + 1] + v
             /\ out' = out \o [i \in 1 .. length |-> out[1 + Len(out) - d + ((i - 1) % d)]]]_vars
  <2> SUFFICES ASSUME TypeOK, Next, at = "distsym", at' = "lit"
               PROVE  \E d \in 1 .. Len(out) :
                        /\ \E v \in 0 .. 2 ^ DIST_EXTRA[s + 1] - 1 : d = DIST_BASE[s + 1] + v
                        /\ out' = out \o [i \in 1 .. length |-> out[1 + Len(out) - d + ((i - 1) % d)]]
    BY DEF vars
  <2>1. Match
    BY DEF Next, BlockHeader, Stored, Counts, OneLength, RepeatLength, RepeatZero,
           Literal, EndOfBlock, MatchLength, DecodeBit, Decoding
  <2>2. PICK v \in 0 .. 2 ^ DIST_EXTRA[s + 1] - 1 :
          /\ Reads(DIST_EXTRA[s + 1], v)
          /\ LET d == DIST_BASE[s + 1] + v
             IN  /\ Fits(d)
                 /\ out' \in [1 .. Len(out) + length -> Byte] /\ Copies(d, out')
    BY <2>1 DEF Match, Fail
  <2> DEFINE d == DIST_BASE[s + 1] + v
             n == Len(out)
             more == [i \in 1 .. length |-> out[1 + n - d + ((i - 1) % d)]]
  <2>3. n \in Nat /\ length \in Nat /\ out \in Seq(Byte) /\ \A i \in 1 .. n : out[i] \in Byte
    BY ElementOfSeq, LenProperties DEF TypeOK
  <2>4. d \in 1 .. n
    <3>1. DIST_BASE \in Seq(Nat) /\ s + 1 \in 1 .. Len(DIST_BASE)
      BY <2>1, TableAssumption, LenProperties DEF Match, TypeOK
    <3>2. DIST_BASE[s + 1] \in Nat /\ DIST_BASE[s + 1] > 0
      BY <3>1, ElementOfSeq, TableAssumption
    <3>3. v \in Nat
      BY <2>2, ReadTypes
    <3>4. QED
      BY <2>2, <2>3, <3>2, <3>3 DEF Fits
  <2>5. out' \in [1 .. n + length -> Byte] /\ Copies(d, out')
    BY <2>2
  <2>6. out' \in Seq(Byte) /\ Len(out') = n + length
    BY <2>3, <2>5, SeqDef, LenProperties
  <2> HIDE DEF d
  <2>7. \A i \in 1 .. n + length : out'[i] = IF i <= n THEN out[i] ELSE out'[i - d]
    BY <2>5, <2>6 DEF Copies
  <2> HIDE DEF n
  <2>8. \A j \in Nat : j < length => out'[n + 1 + j] = out[1 + n - d + (j % d)]
    <3>1. Copied(out, n, d, length, out')
      BY <2>7 DEF Copied
    <3>2. Repeats(out, n, d, length, out')
      BY <2>3, <2>4, <3>1, CopyRepeats
    <3>3. QED
      BY <3>2 DEF Repeats
  <2>9. \A i \in 1 .. length : more[i] = out[1 + n - d + ((i - 1) % d)] /\ more[i] \in Byte
    <3> SUFFICES ASSUME NEW i \in 1 .. length
                 PROVE  out[1 + n - d + ((i - 1) % d)] \in Byte
      OBVIOUS
    <3>1. i - 1 \in Nat /\ d \in Nat /\ d > 0
      BY <2>3, <2>4
    <3>2. (i - 1) % d \in 0 .. d - 1
      BY <3>1, Division
    <3>3. 1 + n - d + ((i - 1) % d) \in 1 .. n
      BY <2>3, <2>4, <3>2
    <3>4. QED
      BY <2>3, <3>3
  <2>10. more \in Seq(Byte) /\ Len(more) = length
    <3>1. more \in [1 .. length -> Byte]
      BY <2>9
    <3> HIDE DEF more
    <3>2. QED
      BY <2>3, <3>1, SeqDef, LenProperties
  <2>11. out' = out \o more
    <3>1. /\ out \o more \in Seq(Byte) /\ Len(out \o more) = n + length
          /\ \A i \in 1 .. n + length : (out \o more)[i] = IF i <= n THEN out[i] ELSE more[i - n]
      <4> HIDE DEF more
      <4>1. QED
        BY <2>3, <2>10, ConcatProperties DEF n
    <3>2. ASSUME NEW i \in 1 .. n + length PROVE out'[i] = (out \o more)[i]
      <4>1. CASE i <= n
        BY <2>7, <3>1, <4>1
      <4>2. CASE ~(i <= n)
        <5> DEFINE j == i - n - 1
        <5>1. j \in Nat /\ j < length /\ n + 1 + j = i /\ i - n \in 1 .. length /\ (i - n) - 1 = j
          BY <2>3, <4>2
        <5>2. out'[i] = out[1 + n - d + (j % d)]
          BY <2>8, <5>1
        <5>3. more[i - n] = out[1 + n - d + (((i - n) - 1) % d)]
          BY <2>9, <5>1
        <5> HIDE DEF j, more
        <5>4. QED
          BY <3>1, <4>2, <5>1, <5>2, <5>3
      <4>3. QED
        BY <4>1, <4>2
    <3> HIDE DEF more
    <3>3. QED
      BY <2>6, <3>1, <3>2, SeqEqual
  <2>12. QED
    BY <2>4, <2>11 DEF d, n
<1>2. QED
  BY <1>1, TypeCorrect, PTL DEF Spec, MatchRepeats

-----------------------------------------------------------------------------
(* One reading. The code of no symbol is the start of another's, complete  *)
(* or not, so what huff_decode finds is the only symbol the bits can mean. *)

LEMMA WeightScales ==
  ASSUME NEW L, NEW m \in Nat, NEW S, IsFiniteSet(S),
         \A y \in S : L[y] \in Nat /\ L[y] <= m, NEW k \in Nat
  PROVE  Weight(L, m + k, S) = Weight(L, m, S) * 2 ^ k
<1> DEFINE w == Weight(L, m, S)
           T == {j \in Nat : Weight(L, m + j, S) = w * 2 ^ j}
<1>1. w \in Nat
  BY WeightDoubles
<1>2. 0 \in T
  <2>1. 2 ^ 0 = 1 /\ m + 0 = m
    OBVIOUS
  <2>2. w * 1 = w
    BY <1>1
  <2>3. QED
    BY <2>1, <2>2
<1> HIDE DEF w
<1>3. ASSUME NEW j \in Nat, j \in T PROVE j + 1 \in T
  <2> DEFINE n == m + j
  <2>1. n \in Nat /\ (\A y \in S : L[y] \in Nat /\ L[y] <= n) /\ m + (j + 1) = n + 1
    OBVIOUS
  <2>2. Weight(L, n, S) = w * 2 ^ j
    BY <1>3
  <2> HIDE DEF n
  <2>3. Weight(L, n + 1, S) = 2 * Weight(L, n, S)
    BY <2>1, WeightDoubles
  <2>4. 2 ^ j \in Nat /\ 2 ^ (j + 1) = 2 * 2 ^ j
    BY Doubles
  <2> DEFINE p == 2 ^ j
             q == 2 ^ (j + 1)
  <2>5. p \in Nat /\ q = 2 * p /\ Weight(L, n, S) = w * p
    BY <2>2, <2>4
  <2> HIDE DEF p, q
  <2>6. 2 * (w * p) = w * (2 * p)
    BY <1>1, <2>5
  <2>7. Weight(L, n + 1, S) = w * q
    BY <2>3, <2>5, <2>6
  <2>8. QED
    BY <2>1, <2>7 DEF q
<1>4. Nat \subseteq T
  <2> HIDE DEF T
  <2>1. QED
    BY <1>2, <1>3, Induction
<1>5. QED
  BY <1>4 DEF w

LEMMA WeightGrows ==
  ASSUME NEW L, NEW m, NEW B, IsFiniteSet(B), \A y \in B : m - L[y] \in Nat, NEW A \in SUBSET B
  PROVE  Weight(L, m, A) <= Weight(L, m, B)
<1> DEFINE W(t) == Weight(L, m, t)
           p(x) == 2 ^ (m - L[x])
           T == {t \in SUBSET B : A \subseteq t => W(A) <= W(t)}
<1>1. ASSUME NEW t \in SUBSET B
      PROVE  W(t) \in Nat /\ \A x \in t : W(t) = p(x) + W(t \ {x}) /\ p(x) \in Nat
  <2>1. IsFiniteSet(t) /\ \A y \in t : m - L[y] \in Nat
    BY FS_Subset
  <2>2. W(t) \in Nat
    BY <2>1, WeightType
  <2>3. ASSUME NEW x \in t PROVE W(t) = p(x) + W(t \ {x}) /\ p(x) \in Nat
    BY <2>1, WeightOfOne, Doubles
  <2>4. QED
    BY <2>2, <2>3
<1> HIDE DEF W, p
<1>2. W(A) \in Nat
  BY <1>1
<1>3. {} \in T
  <2> SUFFICES ASSUME A \subseteq {} PROVE W(A) <= W({})
    OBVIOUS
  <2>1. A = {}
    OBVIOUS
  <2>2. QED
    BY <1>2, <2>1
<1>4. ASSUME NEW t \in SUBSET B, t # {}, \A x \in t : t \ {x} \in T PROVE t \in T
  <2> SUFFICES ASSUME A \subseteq t, A # t PROVE W(A) <= W(t)
    BY <1>2
  <2>1. PICK x \in t : x \notin A
    OBVIOUS
  <2>2. W(A) <= W(t \ {x})
    BY <1>4, <2>1
  <2>3. W(t) = p(x) + W(t \ {x}) /\ p(x) \in Nat /\ W(t \ {x}) \in Nat
    <3>1. t \ {x} \in SUBSET B
      OBVIOUS
    <3>2. QED
      BY <1>1, <3>1
  <2>4. QED
    BY <1>2, <2>2, <2>3
<1>5. SUBSET B \subseteq T
  <2> HIDE DEF T
  <2>1. QED
    BY <1>3, <1>4, SubsetInduction
<1>6. QED
  BY <1>5 DEF W

\* A later symbol's code is beyond all that begin with an earlier one's.
LEMMA CodesApart ==
  ASSUME NEW L, IsCode(L), NEW x \in Coded(L), NEW y \in Coded(L), Before(L, x, y)
  PROVE  /\ L[x] \in Nat /\ L[y] - L[x] \in Nat
         /\ Canonical(L, x) \in Nat /\ Canonical(L, y) \in Nat
         /\ (Canonical(L, x) + 1) * 2 ^ (L[y] - L[x]) <= Canonical(L, y)
<1> DEFINE E(z) == {u \in Coded(L) : Before(L, u, z)}
           F == E(x) \cup {x}
           k == L[y] - L[x]
<1>1. /\ IsFiniteSet(Coded(L)) /\ Coded(L) \subseteq Nat
      /\ \A z \in Coded(L) : L[z] \in Nat
  BY CodedFinite, CodedLengths
<1>2. L[x] \in Nat /\ L[y] \in Nat /\ k \in Nat /\ L[x] + k = L[y]
  BY <1>1 DEF Before
<1>3. IsFiniteSet(E(x)) /\ IsFiniteSet(E(y)) /\ IsFiniteSet(F) /\ IsFiniteSet({x})
  <2>1. E(x) \in SUBSET Coded(L) /\ E(y) \in SUBSET Coded(L) /\ F \in SUBSET Coded(L)
    OBVIOUS
  <2> HIDE DEF E, F
  <2>2. QED
    BY <1>1, <2>1, FS_Subset, FS_Singleton
<1>4. /\ E(x) \cap {x} = {} /\ F \in SUBSET E(y)
      /\ \A z \in F : L[z] \in Nat /\ L[z] <= L[x]
      /\ \A z \in E(x) : L[z] \in Nat /\ L[z] <= L[x]
      /\ \A z \in E(y) : L[z] \in Nat /\ L[z] <= L[y]
  BY <1>1 DEF Before
<1>5. Canonical(L, x) = Weight(L, L[x], E(x)) /\ Canonical(L, y) = Weight(L, L[y], E(y))
  BY DEF Canonical, Weight
<1> HIDE DEF E, k
<1>6. Weight(L, L[x], F) = Weight(L, L[x], E(x)) + 1
  <2>1. Cardinality({x}) = 1 /\ \A z \in {x} : L[z] = L[x]
    BY FS_Singleton
  <2>2. Weight(L, L[x], E(x) \cup {x}) = Weight(L, L[x], E(x)) + Cardinality({x})
    BY <1>2, <1>3, <1>4, <2>1, WeightJoins
  <2>3. QED
    BY <2>1, <2>2
<1> HIDE DEF F
<1>7. Weight(L, L[x] + k, F) = Weight(L, L[x], F) * 2 ^ k
  BY <1>2, <1>3, <1>4, WeightScales
<1>8. Weight(L, L[y], F) <= Weight(L, L[y], E(y))
  <2>1. \A z \in E(y) : L[y] - L[z] \in Nat
    BY <1>2, <1>4
  <2>2. QED
    BY <1>3, <1>4, <2>1, WeightGrows
<1>9. Weight(L, L[x], E(x)) \in Nat /\ Weight(L, L[y], E(y)) \in Nat
  BY <1>2, <1>3, <1>4, WeightDoubles
<1>10. QED
  BY <1>2, <1>5, <1>6, <1>7, <1>8, <1>9 DEF k

\* The bits of c, as many as there are, begin with the code of a symbol.
Begins(L, y, len, c) ==
  \E r \in 0 .. 2 ^ (len - L[y]) - 1 : c = Canonical(L, y) * 2 ^ (len - L[y]) + r

\* Of the symbols no longer than what was read, only the one found has a code
\* that the bits begin with.
OneReading ==
  \A x \in Decoding : at = Got[x] =>
    \A y \in Coded(codes[x]) :
      codes[x][y] <= dec.len /\ Begins(codes[x], y, dec.len, dec.code) => y = s

LEMMA OnlySymbol ==
  ASSUME NEW L, IsCode(L), NEW x \in Coded(L), NEW y \in Coded(L),
         L[y] <= L[x], Begins(L, y, L[x], Canonical(L, x))
  PROVE  y = x
<1>1. /\ Coded(L) \subseteq Nat /\ \A z \in Coded(L) : L[z] \in Nat
  BY CodedFinite, CodedLengths
<1>2. CASE Before(L, y, x)
  <2> DEFINE k == L[x] - L[y]
             p == 2 ^ k
             cy == Canonical(L, y)
             cx == Canonical(L, x)
  <2>1. PICK r \in 0 .. p - 1 : cx = cy * p + r
    BY DEF Begins
  <2>2. k \in Nat /\ cy \in Nat /\ cx \in Nat /\ (cy + 1) * p <= cx
    BY <1>2, CodesApart
  <2>3. p \in Nat
    BY <2>2, Doubles
  <2> HIDE DEF p, cy, cx, k
  <2>4. (cy + 1) * p = cy * p + p /\ cy * p \in Nat
    BY <2>2, <2>3
  <2>5. QED
    BY <2>1, <2>2, <2>3, <2>4
<1>3. CASE Before(L, x, y)
  <2> DEFINE cy == Canonical(L, y)
             cx == Canonical(L, x)
  <2>1. L[x] = L[y] /\ L[x] - L[y] = 0 /\ L[y] - L[x] = 0
    BY <1>1, <1>3 DEF Before
  <2>2. 2 ^ 0 = 1
    OBVIOUS
  <2>3. PICK r \in 0 .. 1 - 1 : cx = cy * 1 + r
    BY <2>1, <2>2 DEF Begins
  <2>4. cx \in Nat /\ cy \in Nat /\ (cx + 1) * 1 <= cy
    BY <1>3, <2>1, <2>2, CodesApart
  <2> HIDE DEF cx, cy
  <2>5. QED
    BY <2>3, <2>4
<1>4. x = y \/ Before(L, x, y) \/ Before(L, y, x)
  BY <1>1 DEF Before
<1>5. QED
  BY <1>2, <1>3, <1>4

\* While a symbol is in hand its code has been assigned to it.
SymbolCoded == \A x \in Decoding : at = Got[x] => s \in Coded(codes[x])

\* Whatever code lengths the stream gives, the bits that were read begin with
\* the code of the symbol found and of no other: huff_decode's answer, at the
\* first length that fits, is the only reading of them.
THEOREM ReadsOneWay == Spec => []OneReading
<1>1. Init => SymbolCoded
  BY DEF Init, SymbolCoded, Decoding, Got
<1>2. SymbolCoded /\ [Next]_vars => SymbolCoded'
  <2> SUFFICES ASSUME SymbolCoded, [Next]_vars PROVE SymbolCoded'
    OBVIOUS
  <2>1. CASE UNCHANGED vars
    BY <2>1 DEF vars, SymbolCoded
  <2>2. CASE at' \notin {"clsym", "litsym", "distsym"}
    BY <2>2 DEF SymbolCoded, Decoding, Got
  <2>3. CASE DecodeBit /\ at' \in {"clsym", "litsym", "distsym"}
    <3>1. PICK c : Hit(c) /\ ~Fail /\ at \in Decoding
      BY <2>3 DEF DecodeBit, Decoding, Miss, Fail
    <3>2. s' \in Coded(codes[at]) /\ at' = Got[at] /\ codes' = codes
      BY <3>1 DEF Hit
    <3>3. QED
      BY <3>1, <3>2 DEF SymbolCoded, Got, Decoding
  <2>4. QED
    BY <2>1, <2>2, <2>3 DEF Next, BlockHeader, Stored, Counts, OneLength, RepeatLength, RepeatZero,
       AddLengths, Literal, EndOfBlock, EndBlock, MatchLength, Match, Fail, Decode
<1>3. TypeOK /\ SymbolCoded /\ CodeIsCanonical => OneReading
  <2> SUFFICES ASSUME TypeOK, SymbolCoded, CodeIsCanonical,
                      NEW x \in Decoding, at = Got[x], NEW y \in Coded(codes[x]),
                      codes[x][y] <= dec.len, Begins(codes[x], y, dec.len, dec.code)
               PROVE  y = s
    BY DEF OneReading
  <2>1. /\ IsCode(codes[x]) /\ s \in Coded(codes[x])
        /\ dec.len = codes[x][s] /\ dec.code = Canonical(codes[x], s)
    BY DEF TypeOK, SymbolCoded, CodeIsCanonical
  <2>2. QED
    BY <2>1, OnlySymbol
<1>4. QED
  BY <1>1, <1>2, <1>3, TypeCorrect, SymbolsAreCanonical, PTL DEF Spec
=============================================================================
