---------------------------- MODULE StringTools ----------------------------
(***************************************************************************)
(* etc.string.base64Decode (assets/main.js 440-527): a loop over blocks of *)
(* four characters; a character stands for six bits, is the padding, or is *)
(* none of the alphabet.                                                   *)
(***************************************************************************)
EXTENDS Integers, Sequences

CONSTANTS Text      \* what is decoded

PADCHAR == 64
BAD     == 65       \* a character out of ALPHA that is not PADCHAR
ALPHA   == 0 .. 63

ASSUME StringToolsAssumption == Text \subseteq Seq(ALPHA \cup {PADCHAR, BAD})

VARIABLES s,        \* the text
          i, imax, pads,
          x,        \* the bytes decoded
          decoding  \* "no", "blocks", "done", "thrown"

stringVars == <<s, i, imax, pads, x, decoding>>

StringInit ==
    /\ s \in Text
    /\ i = 0 /\ imax = 0 /\ pads = 0
    /\ x = <<>>
    /\ decoding = "no"

\* s.charAt(n)
CharAt(n) == s[n + 1]

\* Mutant: the last block is not left out of the loop.
CountPadsKeepingBlock ==
    LET n == Len(s)
        p == IF CharAt(n - 1) # PADCHAR THEN 0 ELSE IF CharAt(n - 2) = PADCHAR THEN 2 ELSE 1
    IN  pads' = p /\ imax' = n

\* The padding is counted, and the last block left out of the loop if there is any.
CountPads ==
    LET n == Len(s)
        p == IF CharAt(n - 1) # PADCHAR THEN 0 ELSE IF CharAt(n - 2) = PADCHAR THEN 2 ELSE 1
    IN  pads' = p /\ imax' = IF p = 0 THEN n ELSE n - 4

DecodeNothing ==
    /\ decoding = "no" /\ Len(s) = 0
    /\ decoding' = "done"
    /\ UNCHANGED <<s, i, imax, pads, x>>

DecodeOddLength ==
    /\ decoding = "no" /\ Len(s) % 4 # 0
    /\ decoding' = "thrown"
    /\ UNCHANGED <<s, i, imax, pads, x>>

DecodeStarts ==
    /\ decoding = "no" /\ Len(s) > 0 /\ Len(s) % 4 = 0
    /\ CountPads
    /\ decoding' = "blocks"
    /\ UNCHANGED <<s, i, x>>

\* The first n characters of the block at i are in the alphabet (getbyte64).
Readable(n) == \A k \in 0 .. n - 1 : CharAt(i + k) \in ALPHA

\* b10 of a block: its characters, each six bits left of the next (<< 18, << 12, << 6);
\* those after the n-th are not read.
B10(n) ==
    LET c(k) == IF k < n THEN CharAt(i + k) ELSE 0
    IN  ((c(0) * 64 + c(1)) * 64 + c(2)) * 64 + c(3)

\* b10 >> 16, (b10 >> 8) & 0xff, b10 & 0xff
Bytes(b) == <<(b \div 256) \div 256, (b \div 256) % 256, b % 256>>

\* One turn of the loop; getbyte64 throws for a character out of the alphabet.
DecodeBlock ==
    /\ decoding = "blocks" /\ i < imax
    /\ IF Readable(4)
       THEN x' = x \o Bytes(B10(4)) /\ i' = i + 4 /\ UNCHANGED decoding
       ELSE decoding' = "thrown" /\ UNCHANGED <<x, i>>
    /\ UNCHANGED <<s, imax, pads>>

\* The block with the padding: one byte less for each.
DecodeRest ==
    /\ decoding = "blocks" /\ i >= imax
    /\ IF pads = 0
       THEN decoding' = "done" /\ UNCHANGED x
       ELSE IF Readable(4 - pads)
       THEN decoding' = "done" /\ x' = x \o SubSeq(Bytes(B10(4 - pads)), 1, 3 - pads)
       ELSE decoding' = "thrown" /\ UNCHANGED x
    /\ UNCHANGED <<s, i, imax, pads>>

StringNext == DecodeNothing \/ DecodeOddLength \/ DecodeStarts \/ DecodeBlock \/ DecodeRest

StringSpec == StringInit /\ [][StringNext]_stringVars /\ WF_stringVars(StringNext)

-----------------------------------------------------------------------------
(* What is decoded, by bits.                                               *)

Padding == IF s = <<>> \/ s[Len(s)] # PADCHAR THEN 0
           ELSE IF s[Len(s) - 1] = PADCHAR THEN 2 ELSE 1

\* Bit k of the text, from the left; six to a character.
Weight == <<32, 16, 8, 4, 2, 1>>
Bit(k) == (CharAt(k \div 6) \div Weight[(k % 6) + 1]) % 2

\* Byte j by its eight bits.
ByteOfBits(j) == LET bit(b) == Bit(8 * j + b)
                 IN  128 * bit(0) + 64 * bit(1) + 32 * bit(2) + 16 * bit(3)
                     + 8 * bit(4) + 4 * bit(5) + 2 * bit(6) + bit(7)

\* A text of the alphabet, four characters to a block, with at most two paddings at the end.
WellFormedText == /\ Len(s) % 4 = 0
                  /\ \A n \in 1 .. Len(s) - Padding : s[n] \in ALPHA

StringTypeOK ==
    /\ s \in Text
    /\ i \in 0 .. Len(s) /\ imax \in 0 .. Len(s) /\ pads \in 0 .. 2
    /\ x \in Seq(0 .. 255)
    /\ decoding \in {"no", "blocks", "done", "thrown"}

\* What is decoded are the text's bits, eight to a byte, without those the padding stands
\* for; exactly the texts that are not well formed throw (main.js 471-524).
DecodesBits ==
    /\ decoding = "thrown" => ~WellFormedText
    /\ decoding = "done" =>
           /\ WellFormedText
           /\ Len(x) = 3 * (Len(s) \div 4) - Padding
           /\ \A j \in 1 .. Len(x) : x[j] = ByteOfBits(j - 1)
=============================================================================
