-------------------------- MODULE BrotliTransform --------------------------
(* The data of c/common that both ends of libbrotli look at: the contexts of *)
(* a literal, the 121 transforms of dictionary words and the shape of the    *)
(* static dictionary.                                                        *)
EXTENDS BrotliCommand, Bitwise, TLC

-----------------------------------------------------------------------------
(* The context of a literal, from the last byte p1 and the one before, p2.   *)
(* The source's table has 2048 entries, two rows of 256 for each mode.       *)

\* CONTEXT_LSB6 and CONTEXT_MSB6 look at the last byte only.
Lsb6Last(p1) == p1 % 64
Msb6Last(p1) == p1 \div 4

\* CONTEXT_UTF8: the class of an ASCII character, in multiples of 4, and
\* whether another byte continues or begins a character.
Vowels == {65, 69, 73, 79, 85}
Punctuation == (32 :> 8) @@ (33 :> 12) @@ (34 :> 16) @@ (37 :> 20) @@ (39 :> 16)
            @@ (40 :> 24) @@ (41 :> 28) @@ (44 :> 32) @@ (46 :> 36) @@ (58 :> 32)
            @@ (59 :> 32) @@ (60 :> 24) @@ (61 :> 40) @@ (62 :> 28) @@ (91 :> 24)
            @@ (93 :> 28) @@ (123 :> 24) @@ (125 :> 28) @@ (127 :> 0)
Utf8Last(p1) ==
    CASE p1 \in DOMAIN Punctuation -> Punctuation[p1]
      [] p1 \in 48..57 -> 44
      [] p1 \in 65..90 -> IF p1 \in Vowels THEN 48 ELSE 52
      [] p1 \in 97..122 -> IF p1 - 32 \in Vowels THEN 56 ELSE 60
      [] p1 \in {9, 10, 13} -> 4
      [] p1 \in (0..31) \ {9, 10, 13} -> 0
      [] p1 \in 128..191 -> p1 % 2
      [] p1 \in 192..255 -> 2 + (p1 % 2)
      [] OTHER -> 12
Utf8Second(p2) ==
    CASE p2 \in 97..122 -> 3
      [] p2 \in (48..57) \cup (65..90) \cup (224..255) -> 2
      [] p2 \in (0..32) \cup (127..223) -> 0
      [] OTHER -> 1

\* CONTEXT_SIGNED: the magnitudes of both bytes.
Magnitude(p) == Cardinality({b \in {1, 16, 64, 128, 192, 240, 255} : p >= b})
SignedLast(p1) == 8 * Magnitude(p1)
SignedSecond(p2) == Magnitude(p2)

\* BROTLI_CONTEXT with the rows of a mode.
LiteralContext(mode, p1, p2) ==
    CASE mode = 0 -> Lsb6Last(p1)
      [] mode = 1 -> Msb6Last(p1)
      [] mode = 2 -> Utf8Last(p1) | Utf8Second(p2)
      [] mode = 3 -> SignedLast(p1) | SignedSecond(p2)

-----------------------------------------------------------------------------
(* The transforms: prefix, type and suffix.                                  *)

PrefixSuffix == <<
    <<32>>, <<44, 32>>, <<32, 111, 102, 32, 116, 104, 101, 32>>,
    <<32, 111, 102, 32>>, <<115, 32>>, <<46>>, <<32, 97, 110, 100, 32>>,
    <<32, 105, 110, 32>>, <<34>>, <<32, 116, 111, 32>>, <<34, 62>>, <<10>>,
    <<46, 32>>, <<93>>, <<32, 102, 111, 114, 32>>, <<32, 97, 32>>,
    <<32, 116, 104, 97, 116, 32>>, <<39>>, <<32, 119, 105, 116, 104, 32>>,
    <<32, 102, 114, 111, 109, 32>>, <<32, 98, 121, 32>>, <<40>>,
    <<46, 32, 84, 104, 101, 32>>, <<32, 111, 110, 32>>, <<32, 97, 115, 32>>,
    <<32, 105, 115, 32>>, <<105, 110, 103, 32>>, <<10, 9>>, <<58>>,
    <<101, 100, 32>>, <<61, 34>>, <<32, 97, 116, 32>>, <<108, 121, 32>>,
    <<44>>, <<61, 39>>, <<46, 99, 111, 109, 47>>,
    <<46, 32, 84, 104, 105, 115, 32>>, <<32, 110, 111, 116, 32>>,
    <<101, 114, 32>>, <<97, 108, 32>>, <<102, 117, 108, 32>>,
    <<105, 118, 101, 32>>, <<108, 101, 115, 115, 32>>, <<101, 115, 116, 32>>,
    <<105, 122, 101, 32>>, <<194, 160>>, <<111, 117, 115, 32>>,
    <<32, 116, 104, 101, 32>>, <<101, 32>>, <<>> >>

TransformsData == <<
    <<49, 0, 49>>, <<49, 0, 0>>, <<0, 0, 0>>, <<49, 12, 49>>, <<49, 10, 0>>,
    <<49, 0, 47>>, <<0, 0, 49>>, <<4, 0, 0>>, <<49, 0, 3>>, <<49, 10, 49>>,
    <<49, 0, 6>>, <<49, 13, 49>>, <<49, 1, 49>>, <<1, 0, 0>>, <<49, 0, 1>>,
    <<0, 10, 0>>, <<49, 0, 7>>, <<49, 0, 9>>, <<48, 0, 0>>, <<49, 0, 8>>,
    <<49, 0, 5>>, <<49, 0, 10>>, <<49, 0, 11>>, <<49, 3, 49>>, <<49, 0, 13>>,
    <<49, 0, 14>>, <<49, 14, 49>>, <<49, 2, 49>>, <<49, 0, 15>>,
    <<49, 0, 16>>, <<0, 10, 49>>, <<49, 0, 12>>, <<5, 0, 49>>, <<0, 0, 1>>,
    <<49, 15, 49>>, <<49, 0, 18>>, <<49, 0, 17>>, <<49, 0, 19>>,
    <<49, 0, 20>>, <<49, 16, 49>>, <<49, 17, 49>>, <<47, 0, 49>>,
    <<49, 4, 49>>, <<49, 0, 22>>, <<49, 11, 49>>, <<49, 0, 23>>,
    <<49, 0, 24>>, <<49, 0, 25>>, <<49, 7, 49>>, <<49, 1, 26>>, <<49, 0, 27>>,
    <<49, 0, 28>>, <<0, 0, 12>>, <<49, 0, 29>>, <<49, 20, 49>>,
    <<49, 18, 49>>, <<49, 6, 49>>, <<49, 0, 21>>, <<49, 10, 1>>,
    <<49, 8, 49>>, <<49, 0, 31>>, <<49, 0, 32>>, <<47, 0, 3>>, <<49, 5, 49>>,
    <<49, 9, 49>>, <<0, 10, 1>>, <<49, 10, 8>>, <<5, 0, 21>>, <<49, 11, 0>>,
    <<49, 10, 10>>, <<49, 0, 30>>, <<0, 0, 5>>, <<35, 0, 49>>, <<47, 0, 2>>,
    <<49, 10, 17>>, <<49, 0, 36>>, <<49, 0, 33>>, <<5, 0, 0>>, <<49, 10, 21>>,
    <<49, 10, 5>>, <<49, 0, 37>>, <<0, 0, 30>>, <<49, 0, 38>>, <<0, 11, 0>>,
    <<49, 0, 39>>, <<0, 11, 49>>, <<49, 0, 34>>, <<49, 11, 8>>,
    <<49, 10, 12>>, <<0, 0, 21>>, <<49, 0, 40>>, <<0, 10, 12>>, <<49, 0, 41>>,
    <<49, 0, 42>>, <<49, 11, 17>>, <<49, 0, 43>>, <<0, 10, 5>>,
    <<49, 11, 10>>, <<0, 0, 34>>, <<49, 10, 33>>, <<49, 0, 44>>,
    <<49, 11, 5>>, <<45, 0, 49>>, <<0, 0, 33>>, <<49, 10, 30>>,
    <<49, 11, 30>>, <<49, 0, 46>>, <<49, 11, 1>>, <<49, 10, 34>>,
    <<0, 10, 33>>, <<0, 11, 30>>, <<0, 11, 1>>, <<49, 11, 33>>,
    <<49, 11, 21>>, <<49, 11, 12>>, <<0, 11, 5>>, <<49, 11, 34>>,
    <<0, 11, 12>>, <<0, 10, 30>>, <<0, 11, 34>>, <<0, 10, 34>> >>

\* The transform that only omits the last i letters, by i + 1.
CutOffTransforms == <<0, 12, 27, 23, 42, 63, 56, 48, 59, 64>>

Identity == 0
UppercaseFirst == 10
UppercaseAll == 11
OmitFirst == 12..20

\* ToUpperCase: the length of the character at the front of w, and the
\* character in upper case.  The source reads on in its buffer where a word
\* ends within a character; a byte that is not there is not changed here.
ToUpperCase(w) ==
    LET step == CASE w[1] < 192 -> 1 [] w[1] \in 192..223 -> 2 [] OTHER -> 3
        flip == CASE step = 1 -> IF w[1] \in 97..122 THEN 32 ELSE 0
                  [] step = 2 -> 32 [] OTHER -> 5
    IN  [step |-> Least(step, Len(w)),
         char |-> [i \in 1..Least(step, Len(w)) |-> IF i = step THEN w[i] ^^ flip ELSE w[i]]]

RECURSIVE UpperCaseAll(_)
UpperCaseAll(w) ==
    IF w = <<>> THEN <<>>
    ELSE LET first == ToUpperCase(w)
         IN  first.char \o UpperCaseAll(SubSeq(w, first.step + 1, Len(w)))

\* BrotliTransformDictionaryWord with the transforms of the format, which have
\* no parameters (BROTLI_TRANSFORM_SHIFT_FIRST and _ALL are of no use there).
TransformDictionaryWord(word, transform_idx) ==
    LET transform == TransformsData[transform_idx + 1]
        t == transform[2]
        kept == CASE t < UppercaseFirst -> SubSeq(word, 1, Len(word) - t)
                  [] t \in OmitFirst -> SubSeq(word, t - 10, Len(word))
                  [] OTHER -> word
        first == ToUpperCase(kept)
        cased == CASE t = UppercaseFirst ->
                        first.char \o SubSeq(kept, first.step + 1, Len(kept))
                   [] t = UppercaseAll -> UpperCaseAll(kept)
                   [] OTHER -> kept
    IN  PrefixSuffix[transform[1] + 1] \o cased \o PrefixSuffix[transform[3] + 1]

-----------------------------------------------------------------------------
(* The static dictionary: 2^SizeBitsByLength[l + 1] words of each length l.  *)
CONSTANT DictionaryWord(_, _)          \* kBrotliDictionaryData, by length and index

MinWordLength == 4
MaxWordLength == 24
SizeBitsByLength == <<0, 0, 0, 0, 10, 10, 11, 11, 10, 10, 10, 10, 10, 9, 9, 8,
                      7, 7, 8, 7, 7, 6, 6, 5, 5, 0, 0, 0, 0, 0, 0, 0>>
=============================================================================
