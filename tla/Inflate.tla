------------------------------ MODULE Inflate ------------------------------
(***************************************************************************)
(* tm_inflate of tm_inflate.cpp. The stream is the environment: each bit   *)
(* is any bit, and it may end at any point, from where on Bits::bit gives  *)
(* 0 and marks the stream bad. The alphabets and tables are constants:     *)
(* DEFLATE's are 256 bytes, 15 bits, LEN_BASE and so on, and a small set   *)
(* of the same kind has the same boundaries.                               *)
(***************************************************************************)
EXTENDS Integers, Sequences, FiniteSets, FiniteSetsExt

CONSTANTS
  NLit,                    \* number of bytes; this symbol ends a block
  MAXBITS,                 \* longest code
  LEN_BASE, LEN_EXTRA, DIST_BASE, DIST_EXTRA,
  RUN_BASE, RUN_EXTRA,     \* of the symbols that repeat code lengths
  FixedLit, FixedDist,     \* code lengths of the fixed codes
  CodeLengths,             \* code lengths of the codes for code lengths
  CAP                      \* room in out

\* A code: the lengths of the codes of symbols 0, 1, ..., 0 for no code.
IsCode(L) ==
  /\ IsFiniteSet(DOMAIN L)
  /\ L \in [0 .. Cardinality(DOMAIN L) - 1 -> 0 .. MAXBITS]

ASSUME TableAssumption ==
  /\ {NLit, MAXBITS, CAP} \subseteq Nat /\ MAXBITS > 0
  /\ {LEN_BASE, LEN_EXTRA, DIST_BASE, DIST_EXTRA, RUN_BASE, RUN_EXTRA}
       \subseteq Seq(Nat)
  /\ Len(LEN_EXTRA) = Len(LEN_BASE) /\ Len(DIST_EXTRA) = Len(DIST_BASE)
  /\ Len(RUN_BASE) = 3 /\ Len(RUN_EXTRA) = 3
  /\ \A i \in 1 .. Len(DIST_BASE) : DIST_BASE[i] > 0

ASSUME CodeAssumption ==
  \A L \in CodeLengths \union {FixedLit, FixedDist} : IsCode(L)

VARIABLES
  at,      \* what is read next; "cl", "lit", "dist": a symbol of that code
  final,   \* this block is the last
  codes,   \* the code lengths of the three codes
  dec,     \* the locals of huff_decode
  s,       \* the symbol decoded
  length,  \* of the match
  counts,  \* hlit and hdist
  lens,    \* lengths[0 .. i - 1]
  out, bad

vars == <<at, final, codes, dec, s, length, counts, lens, out, bad>>

Decoding == {"cl", "lit", "dist"}
Got == [cl |-> "clsym", lit |-> "litsym", dist |-> "distsym"]
Byte == 0 .. NLit - 1

\* huff_build: how many symbols have a code of this length, and the place of
\* a symbol among all that have one.
Coded(L) == {x \in DOMAIN L : L[x] > 0}
OfLength(L, len) == {x \in Coded(L) : L[x] = len}
Count(L, len) == Cardinality(OfLength(L, len))
Before(L, x, y) == L[x] < L[y] \/ (L[x] = L[y] /\ x < y)
Place(L, x) == Cardinality({y \in Coded(L) : Before(L, y, x)})

NoCode == [x \in {} |-> 0]
Fresh == [code |-> 0, first |-> 0, index |-> 0, len |-> 1]

\* A call with no output, no source or no bytes is the start in "fail". The
\* zlib header is skipped or not, and the stream is any stream after it.
Init ==
  /\ at \in {"block", "fail"}
  /\ final = FALSE /\ bad = FALSE
  /\ codes = [x \in Decoding |-> NoCode]
  /\ dec = Fresh
  /\ s = 0 /\ length = 0
  /\ counts = [lit |-> 0, dist |-> 0]
  /\ lens = <<>> /\ out = <<>>

-----------------------------------------------------------------------------

\* Bits::bits(n) gives v: low bits first, so what the end cuts off are the
\* high ones.
Reads(n, v) ==
  /\ v \in 0 .. 2 ^ n - 1
  /\ \/ bad' = bad /\ (bad => v = 0)
     \/ bad' = TRUE /\ n > 0 /\ v < 2 ^ (n - 1) /\ (bad => v = 0)

\* A failed call returns -1, and its locals are no more.
Fail ==
  /\ at' = "fail"
  /\ codes' = [x \in Decoding |-> NoCode]
  /\ dec' = Fresh /\ s' = 0 /\ length' = 0 /\ lens' = <<>>
  /\ counts' = [lit |-> 0, dist |-> 0]
  /\ UNCHANGED <<final, out>>

-----------------------------------------------------------------------------
(* huff_decode, a bit at a time. *)

\* mutant: inflate_block without its test of b.bad.
RefusesNothing(cut) == FALSE

\* The callers for lengths and for literals refuse a symbol that the end of
\* the stream cut off; the one for distances leaves that to the next symbol.
Refuses(cut) == cut /\ at # "dist"

Hit(c) ==
  /\ c - dec.first < Count(codes[at], dec.len)
  /\ IF Refuses(bad') THEN Fail
     ELSE /\ \E x \in Coded(codes[at]) :
               /\ Place(codes[at], x) = dec.index + c - dec.first
               /\ s' = x
          /\ dec' = [dec EXCEPT !.code = c]
          /\ at' = Got[at]
          /\ UNCHANGED <<final, codes, length, counts, lens, out>>

\* mutant: first << 1 before the count is added.
LongerShiftFirst(c, n) ==
  [code |-> 2 * c, first |-> 2 * dec.first + n,
   index |-> dec.index + n, len |-> dec.len + 1]

\* mutant: the code is not shifted.
LongerUnshifted(c, n) ==
  [code |-> c, first |-> 2 * (dec.first + n),
   index |-> dec.index + n, len |-> dec.len + 1]

Longer(c, n) ==
  [code |-> 2 * c, first |-> 2 * (dec.first + n),
   index |-> dec.index + n, len |-> dec.len + 1]

\* mutant: len < 15.
LongestButOne(len) == len + 1 >= MAXBITS

Longest(len) == len = MAXBITS

Miss(c) ==
  /\ c - dec.first >= Count(codes[at], dec.len)
  /\ \/ (bad' \/ Longest(dec.len)) /\ Fail
     \/ /\ ~bad' /\ ~Longest(dec.len)
        /\ dec' = Longer(c, Count(codes[at], dec.len))
        /\ UNCHANGED <<at, final, codes, s, length, counts, lens, out>>

DecodeBit ==
  /\ at \in Decoding
  /\ \E b \in {0, 1} : Reads(1, b) /\ (Hit(dec.code + b) \/ Miss(dec.code + b))

Decode(code) == at' = code /\ dec' = Fresh

-----------------------------------------------------------------------------
(* Blocks. *)

\* Three bits; type 3 is reserved.
BlockHeader ==
  /\ at = "block"
  /\ \/ bad' = TRUE /\ Fail
     \/ bad' = bad /\ \E f \in BOOLEAN :
          \/ Fail
          \/ /\ at' \in {"stored", "counts"}
             /\ final' = f
             /\ UNCHANGED <<codes, dec, s, length, counts, lens, out>>
          \/ /\ Decode("lit")
             /\ final' = f
             /\ codes' = [codes EXCEPT !["lit"] = FixedLit, !["dist"] = FixedDist]
             /\ UNCHANGED <<s, length, counts, lens, out>>

\* The tables are locals of a block. Locals are reset when they go out of use.
EndBlock ==
  /\ at' = IF final THEN "done" ELSE IF bad' THEN "fail" ELSE "block"
  /\ codes' = [x \in Decoding |-> NoCode]
  /\ dec' = Fresh /\ s' = 0
  /\ UNCHANGED <<final, length, counts, lens>>

\* Too long for what is left of the stream or of the room is refused.
Stored ==
  /\ at = "stored"
  /\ bad' = bad
  /\ \/ Fail
     \/ \E n \in 0 .. CAP - Len(out) : \E bytes \in [1 .. n -> Byte] :
          out' = out \o bytes /\ EndBlock

\* hlit, hdist and the code for code lengths. A stream that ends here gives
\* some counts or other, and is found bad at the next bit.
Counts ==
  /\ at = "counts"
  /\ bad' \in BOOLEAN
  /\ \/ Fail
     \/ \E hlit \in NLit + 1 .. NLit + 1 + Len(LEN_BASE),
           hdist \in 1 .. Len(DIST_BASE), cl \in CodeLengths :
          /\ counts' = [lit |-> hlit, dist |-> hdist]
          /\ codes' = [codes EXCEPT !["cl"] = cl]
          /\ lens' = <<>>
          /\ Decode("cl")
          /\ UNCHANGED <<final, s, length, out>>

\* The lengths are read for both codes in one run.
Total == counts.lit + counts.dist
Clipped(n) == IF Len(lens) + n <= Total THEN n ELSE Total - Len(lens)
PartOf(L, from, n) == [x \in 0 .. n - 1 |-> L[from + x + 1]]

AddLengths(len, n) ==
  /\ LET all == lens \o [i \in 1 .. Clipped(n) |-> len]
     IN  IF Len(all) < Total
         THEN lens' = all /\ Decode("cl") /\ UNCHANGED <<codes, counts>>
         ELSE /\ codes' = [cl |-> NoCode,
                           lit |-> PartOf(all, 0, counts.lit),
                           dist |-> PartOf(all, counts.lit, counts.dist)]
              /\ lens' = <<>> /\ counts' = [lit |-> 0, dist |-> 0]
              /\ Decode("lit")
  /\ s' = 0
  /\ UNCHANGED <<final, length, out>>

OneLength ==
  /\ at = "clsym" /\ s <= MAXBITS
  /\ bad' = bad
  /\ AddLengths(s, 1)

RepeatLength ==
  /\ at = "clsym" /\ s = MAXBITS + 1
  /\ \/ lens = <<>> /\ bad' = bad /\ Fail
     \/ /\ lens # <<>>
        /\ \E v \in 0 .. 2 ^ RUN_EXTRA[1] - 1 :
             /\ Reads(RUN_EXTRA[1], v)
             /\ AddLengths(lens[Len(lens)], RUN_BASE[1] + v)

RepeatZero ==
  /\ at = "clsym" /\ s > MAXBITS + 1
  /\ \E k \in {IF s = MAXBITS + 2 THEN 2 ELSE 3} :
       \E v \in 0 .. 2 ^ RUN_EXTRA[k] - 1 :
         Reads(RUN_EXTRA[k], v) /\ AddLengths(0, RUN_BASE[k] + v)

-----------------------------------------------------------------------------
(* inflate_block *)

Literal ==
  /\ at = "litsym" /\ s < NLit
  /\ bad' = bad
  /\ \/ Len(out) >= CAP /\ Fail
     \/ /\ Len(out) < CAP
        /\ out' = Append(out, s)
        /\ Decode("lit") /\ s' = 0
        /\ UNCHANGED <<final, codes, length, counts, lens>>

EndOfBlock ==
  /\ at = "litsym" /\ s = NLit
  /\ bad' = bad
  /\ EndBlock /\ UNCHANGED out

MatchLength ==
  /\ at = "litsym" /\ s > NLit
  /\ \/ s - NLit > Len(LEN_BASE) /\ bad' = bad /\ Fail
     \/ /\ s - NLit <= Len(LEN_BASE)
        /\ \E v \in 0 .. 2 ^ LEN_EXTRA[s - NLit] - 1 :
             /\ Reads(LEN_EXTRA[s - NLit], v)
             /\ length' = LEN_BASE[s - NLit] + v
        /\ Decode("dist") /\ s' = 0
        /\ UNCHANGED <<final, codes, counts, lens, out>>

\* mutant: a block move, which reads what was there before the match.
CopiesBlock(d, o) ==
  \A i \in 1 .. Len(o) :
    o[i] = IF i <= Len(out) THEN out[i]
           ELSE IF i - d <= Len(out) THEN out[i - d] ELSE 0

\* What the loop leaves behind: each byte is copied from one that was there or
\* that it wrote itself.
Copies(d, o) ==
  \A i \in 1 .. Len(o) : o[i] = IF i <= Len(out) THEN out[i] ELSE o[i - d]

Fits(d) == d <= Len(out) /\ Len(out) + length <= CAP

\* A distance symbol has a base: hdist is at most the number of them, and the
\* test ds >= 30 never holds.
Match ==
  /\ at = "distsym" /\ s < Len(DIST_BASE)
  /\ \E v \in 0 .. 2 ^ DIST_EXTRA[s + 1] - 1 :
       /\ Reads(DIST_EXTRA[s + 1], v)
       /\ LET d == DIST_BASE[s + 1] + v
          IN \/ ~Fits(d) /\ Fail
             \/ /\ Fits(d)
                /\ out' \in [1 .. Len(out) + length -> Byte] /\ Copies(d, out')
                /\ Decode("lit") /\ s' = 0 /\ length' = 0
                /\ UNCHANGED <<final, codes, counts, lens>>

Next ==
  \/ BlockHeader \/ Stored \/ Counts
  \/ OneLength \/ RepeatLength \/ RepeatZero
  \/ DecodeBit
  \/ Literal \/ EndOfBlock \/ MatchLength \/ Match

Spec == Init /\ [][Next]_vars

-----------------------------------------------------------------------------

\* Every local has its type, whatever the stream is: code lengths stay within
\* the longest code, their number within that asked for, and the output within
\* its room.
TypeOK ==
  /\ at \in {"block", "stored", "counts", "clsym", "litsym", "distsym",
             "done", "fail"} \union Decoding
  /\ final \in BOOLEAN /\ bad \in BOOLEAN
  /\ DOMAIN codes = Decoding
  /\ \A x \in Decoding : IsCode(codes[x])
  /\ dec \in [code : Nat, first : Nat, index : Nat, len : 1 .. MAXBITS]
  /\ s \in Nat /\ length \in Nat
  /\ counts \in [lit : Nat, dist : Nat]
  /\ lens \in Seq(0 .. MAXBITS) /\ Len(lens) <= counts.lit + counts.dist
  /\ out \in Seq(Byte) /\ Len(out) <= CAP

\* huff_decode reads only the entries of sym that huff_build filled, for any
\* code lengths the stream gives: neither it nor huff_build asks whether they
\* make a code (line 75).
SymbolInTable ==
  at \in Decoding =>
    \A b \in {0, 1} :
      dec.code + b - dec.first < Count(codes[at], dec.len)
        => dec.index + dec.code + b - dec.first
             \in 0 .. Cardinality(Coded(codes[at])) - 1

\* The code of a symbol is the one RFC 1951 assigns: what the symbols before
\* it use up of the codes of its length.
Canonical(L, x) ==
  MapThenSumSet(LAMBDA y : 2 ^ (L[x] - L[y]), {y \in Coded(L) : Before(L, y, x)})

CodeIsCanonical ==
  \A x \in Decoding :
    at = Got[x] => /\ codes[x][s] = dec.len
                   /\ dec.code = Canonical(codes[x], s)

\* Bits that are there are refused only by a code that leaves some unused: a
\* complete one gives every string of bits a meaning.
Used(L) == MapThenSumSet(LAMBDA x : 2 ^ (MAXBITS - L[x]), Coded(L))

CompleteCodeDecodes ==
  [][(at \in Decoding /\ at' = "fail" /\ ~bad')
       => Used(codes[at]) < 2 ^ MAXBITS]_vars

\* A match appends its distance's worth of text over and over, also where it
\* is longer than that (line 114).
MatchRepeats ==
  [][at = "distsym" /\ at' = "lit" =>
       \E d \in 1 .. Len(out) :
         /\ \E v \in 0 .. 2 ^ DIST_EXTRA[s + 1] - 1 : d = DIST_BASE[s + 1] + v
         /\ out' = out \o [i \in 1 .. length |-> out[1 + Len(out) - d + ((i - 1) % d)]]]_vars

\* A stream that ends too soon is never returned as a text, though the bits
\* past its end read as zeros and the code of zeros may well end the block.
TruncatedRefused == at = "done" => ~bad
=============================================================================
