--------------------------- MODULE BrotliStreamProofs ---------------------------
(***************************************************************************)
(* Proofs about the brotli contexts, for any data, chunks, rooms, limit and *)
(* size of the pieces, over any codec that keeps CodecKeepsContract.  They  *)
(* rest on what BrotliStream assumes of the cases and on that contract,     *)
(* which the run brotli_streams checks of libbrotli.  Behind them: the     *)
(* ring buffer that holds the input of the encoder, and the bits and codes *)
(* in which both ends of libbrotli must agree.                             *)
(***************************************************************************)
EXTENDS BrotliStream, BrotliCommand, SequenceTheorems, FiniteSetTheorems,
        WellFoundedInduction, TLAPS

Said == Meaning(case, wire)
Told == Meaning(case, Fed)

Operations == {"process", "flush", "finish"}
Outcomes == {"open", "ended", "late", "trailing", "exceeded", "truncated"}

CallType ==
    [op : Operations \cup {"none", "emit_metadata"}, input : Seq(Byte), later : Seq(Byte),
     last : Operations \cup {"none"}, then : Seq(Byte)]

(* What the variables are, as long as nobody refuses anything. *)
TypeInv ==
    /\ case \in Cases
    /\ context \in {"holding", "streaming", "finished"}
    /\ call \in CallType
    /\ held \in Seq(Byte) /\ taken \in Seq(Byte) /\ wire \in Seq(Byte)
    /\ metadata \in Seq(Byte) /\ Len(metadata) <= 2^24
    /\ given \in 0..Len(case.data) /\ promised \in 0..given
    /\ fed \in 0..Len(wire) /\ got \in 0..Len(dec.out)
    /\ dec.out \in Seq(Byte) /\ dec.next_in \in 0..fed
    /\ again \in BOOLEAN /\ ending \in BOOLEAN /\ outcome \in Outcomes
    /\ Said.ok /\ Said.out \in Seq(Byte) /\ stream \in {Open} \cup 0..Len(wire)

(* The call that runs, and what follows it. *)
CallInv ==
    /\ ~Calling => call = NoCall
    /\ call.op \in Operations => held = <<>>
    /\ call.op = "process" => call.last \in Operations
    /\ call.op \in {"flush", "finish"} => call.later = <<>> /\ call.last = call.op
    /\ call.op = "emit_metadata" => call.later = <<>> /\ call.last = "none"
    /\ call.last # "flush" => call.then = <<>>
    /\ call.last = "finish" <=> Calling /\ context = "finished"
    /\ context = "holding" => ~Calling

(* What the encoder took, the call, the rest of its run, the run to come, and *)
(* what is held, are the data that the context was given, in this order.     *)
Part(d, s, f) == s = SubSeq(d, f + 1, f + Len(s))
Flow(d, took, input, later, then, hold, n) ==
    /\ Part(d, took, 0)
    /\ Part(d, input, Len(took))
    /\ Part(d, later, Len(took) + Len(input))
    /\ Part(d, then, Len(took) + Len(input) + Len(later))
    /\ Part(d, hold, Len(took) + Len(input) + Len(later) + Len(then))
    /\ n = Len(took) + Len(input) + Len(later) + Len(then) + Len(hold)
CallData == IF call.op = "emit_metadata" THEN <<>> ELSE call.input
FlowInv == Flow(case.data, taken, CallData, call.later, call.then, held, given)

(* The encoder is ready for the next operation, or in the midst of this one. *)
EncoderInv ==
    /\ Calling => Legal(enc, call.op, call.input)
    /\ ~Calling /\ context # "finished" => enc.state = "processing"

(* What the wire says is what the encoder took, at least what was promised, *)
(* and all of it at the end.                                               *)
WireInv ==
    /\ stream = Said.end
    /\ stream # Open <=> context = "finished" /\ ~Calling
    /\ stream # Open => Said.out = taken /\ Len(taken) = given
    /\ IsPrefix(Said.out, taken) /\ promised <= Len(Said.out)

(* What the decompressing context made of the part that it got. *)
DecoderInv ==
    /\ IsPrefix(dec.out, Said.out)
    /\ Len(dec.out) <= case.limit + 1
    /\ outcome # "exceeded" => Len(dec.out) <= case.limit
    /\ outcome = "exceeded" => Len(dec.out) > case.limit
    /\ again => outcome = "open"
    /\ outcome = "open" /\ ~again => Told.end = Open /\ dec.out = Told.out /\ got = Len(dec.out)
    /\ outcome = "ended" => stream # Open /\ fed = stream /\ dec.out = Said.out /\ got = Len(dec.out)
    /\ outcome \in {"late", "trailing"} => stream # Open /\ fed > stream
    /\ outcome = "truncated" => Told.end = Open

IInv == TypeInv /\ CallInv /\ FlowInv /\ EncoderInv /\ WireInv /\ DecoderInv
--------------------------------------------------------------------------------
(* Sequences.                                                              *)

(* The elements of a part of a sequence. *)
LEMMA PartOfSeq ==
    ASSUME NEW S, NEW s \in Seq(S), NEW m \in Nat \ {0}, NEW n \in Nat, m <= n + 1, n <= Len(s)
    PROVE  /\ SubSeq(s, m, n) \in Seq(S)
           /\ Len(SubSeq(s, m, n)) = n - m + 1
           /\ \A i \in 1 .. n - m + 1 : SubSeq(s, m, n)[i] = s[m + i - 1]
<1>1. \A i \in m .. n : s[i] \in S
  BY ElementOfSeq, LenProperties
<1>2. QED
  BY <1>1, SubSeqProperties

(* The n elements behind the first f. *)
LEMMA Slice ==
    ASSUME NEW S, NEW d \in Seq(S), NEW f \in Nat, NEW n \in Nat, f + n <= Len(d)
    PROVE  /\ SubSeq(d, f + 1, f + n) \in Seq(S)
           /\ Len(SubSeq(d, f + 1, f + n)) = n
           /\ \A i \in 1 .. n : SubSeq(d, f + 1, f + n)[i] = d[f + i]
<1> DEFINE u == f + 1
           v == f + n
<1>1. u \in Nat \ {0} /\ v \in Nat /\ u <= v + 1 /\ v <= Len(d) /\ v - u + 1 = n
  OBVIOUS
<1>2. \A i \in 1 .. n : u + i - 1 = f + i
  OBVIOUS
<1> HIDE DEF u, v
<1>3. /\ SubSeq(d, u, v) \in Seq(S) /\ Len(SubSeq(d, u, v)) = n
      /\ \A i \in 1 .. n : SubSeq(d, u, v)[i] = d[u + i - 1]
  BY <1>1, PartOfSeq
<1>4. \A i \in 1 .. n : SubSeq(d, u, v)[i] = d[f + i]
  BY <1>2, <1>3
<1>5. QED
  BY <1>3, <1>4 DEF u, v

(* A part of the data d, from f on, with n bytes, falls into parts of d. *)
LEMMA SplitPart ==
    ASSUME NEW S, NEW d \in Seq(S), NEW s \in Seq(S), NEW f \in Nat, f + Len(s) <= Len(d),
           Part(d, s, f), NEW n \in 0 .. Len(s)
    PROVE  /\ SubSeq(s, 1, n) \in Seq(S) /\ Len(SubSeq(s, 1, n)) = n
           /\ SubSeq(s, n + 1, Len(s)) \in Seq(S) /\ Len(SubSeq(s, n + 1, Len(s))) = Len(s) - n
           /\ Part(d, SubSeq(s, 1, n), f) /\ Part(d, SubSeq(s, n + 1, Len(s)), f + n)
<1> DEFINE l == Len(s)
           p == SubSeq(d, f + 1, f + l)
           front == SubSeq(s, 1, n)
           back == SubSeq(s, n + 1, l)
           first == SubSeq(d, f + 1, f + n)
           second == SubSeq(d, f + n + 1, f + l)
<1>0. l \in Nat /\ Len(d) \in Nat
  BY LenProperties
<1>1. \A i \in 1 .. l : p[i] = d[f + i]
  <2> HIDE DEF l
  <2>1. f + l <= Len(d)
    BY DEF l
  <2>2. QED
    BY <1>0, <2>1, Slice
<1>2. front \in Seq(S) /\ Len(front) = n /\ \A i \in 1 .. n : front[i] = s[i]
  <2>1. 0 + n <= Len(s) /\ 0 + 1 = 1 /\ 0 + n = n /\ \A i \in 1 .. n : 0 + i = i
    BY <1>0
  <2>2. /\ SubSeq(s, 0 + 1, 0 + n) \in Seq(S) /\ Len(SubSeq(s, 0 + 1, 0 + n)) = n
        /\ \A i \in 1 .. n : SubSeq(s, 0 + 1, 0 + n)[i] = s[0 + i]
    BY <2>1, Slice
  <2>3. QED
    BY <2>1, <2>2
<1>3. back \in Seq(S) /\ Len(back) = l - n /\ \A i \in 1 .. l - n : back[i] = s[n + i]
  <2>1. l - n \in Nat /\ n + (l - n) <= Len(s) /\ n + (l - n) = l
    BY <1>0
  <2>2. /\ SubSeq(s, n + 1, n + (l - n)) \in Seq(S) /\ Len(SubSeq(s, n + 1, n + (l - n))) = l - n
        /\ \A i \in 1 .. l - n : SubSeq(s, n + 1, n + (l - n))[i] = s[n + i]
    <3> HIDE DEF l
    <3>1. QED
      BY <2>1, Slice
  <2>3. QED
    BY <2>1, <2>2
<1>4. first \in Seq(S) /\ Len(first) = n /\ \A i \in 1 .. n : first[i] = d[f + i]
  BY <1>0, Slice
<1>5. second \in Seq(S) /\ Len(second) = l - n /\ \A i \in 1 .. l - n : second[i] = d[f + n + i]
  <2> DEFINE g == f + n
             k == l - n
  <2>1. g \in Nat /\ k \in Nat /\ g + k <= Len(d) /\ g + k = f + l
    BY <1>0
  <2> HIDE DEF l, p, front, back, first, second, g, k
  <2>2. /\ SubSeq(d, g + 1, g + k) \in Seq(S) /\ Len(SubSeq(d, g + 1, g + k)) = k
        /\ \A i \in 1 .. k : SubSeq(d, g + 1, g + k)[i] = d[g + i]
    BY <2>1, Slice
  <2>3. QED
    BY <2>1, <2>2 DEF g, k, second
<1>6. \A i \in 1 .. l : s[i] = d[f + i]
  <2>1. s = p
    BY DEF Part
  <2> HIDE DEF p, l
  <2>2. QED
    BY <2>1, <1>1
<1> HIDE DEF front, back, first, second, p
<1>7. front = first
  <2>1. \A i \in 1 .. n : i \in 1 .. l
    BY <1>0
  <2>2. \A i \in 1 .. n : front[i] = first[i]
    BY <2>1, <1>2, <1>4, <1>6
  <2>3. QED
    BY <2>2, <1>2, <1>4, SeqEqual
<1>8. back = second
  <2>1. \A i \in 1 .. l - n : n + i \in 1 .. l /\ f + (n + i) = f + n + i
    BY <1>0
  <2>2. \A i \in 1 .. l - n : back[i] = second[i]
    BY <2>1, <1>3, <1>5, <1>6
  <2>3. QED
    BY <2>2, <1>3, <1>5, SeqEqual
<1>9. Part(d, front, f) /\ Part(d, back, f + n)
  <2>1. f + n + Len(back) = f + l
    BY <1>0, <1>3
  <2>2. front = SubSeq(d, f + 1, f + Len(front))
    BY <1>2, <1>7 DEF first
  <2>3. back = SubSeq(d, f + n + 1, f + n + Len(back))
    BY <1>8, <2>1 DEF second
  <2>4. QED
    BY <2>2, <2>3 DEF Part
<1>10. QED
  BY <1>2, <1>3, <1>9 DEF front, back

(* Two parts of the data that follow each other are a part of it. *)
LEMMA JoinParts ==
    ASSUME NEW S, NEW d \in Seq(S), NEW s \in Seq(S), NEW t \in Seq(S), NEW f \in Nat,
           f + Len(s) + Len(t) <= Len(d), Part(d, s, f), Part(d, t, f + Len(s))
    PROVE  /\ s \o t \in Seq(S) /\ Len(s \o t) = Len(s) + Len(t)
           /\ Part(d, s \o t, f)
<1> DEFINE m == f + 1
           k == f + Len(s)
           n == f + Len(s) + Len(t)
<1>1. Len(s) \in Nat /\ Len(t) \in Nat /\ Len(d) \in Nat
  BY LenProperties
<1>2. m \in 1 .. Len(d) + 1 /\ k \in m - 1 .. Len(d) /\ n \in k .. Len(d)
  BY <1>1
<1>3. s = SubSeq(d, m, k) /\ t = SubSeq(d, k + 1, n)
  BY DEF Part
<1>4. s \o t \in Seq(S) /\ Len(s \o t) = Len(s) + Len(t)
  BY ConcatProperties
<1> HIDE DEF m, k, n
<1>5. SubSeq(d, m, k) \o SubSeq(d, k + 1, n) = SubSeq(d, m, n)
  BY <1>2, ConcatAdjacentSubSeq
<1>6. s \o t = SubSeq(d, m, n)
  <2> DEFINE a == SubSeq(d, m, k)
             b == SubSeq(d, k + 1, n)
  <2>1. s = a /\ t = b
    BY <1>3
  <2> HIDE DEF a, b
  <2>2. s \o t = a \o b
    BY <2>1
  <2>3. QED
    BY <2>2, <1>5 DEF a, b
<1>7. f + Len(s \o t) = n
  BY <1>1, <1>4 DEF n
<1>8. QED
  BY <1>4, <1>6, <1>7 DEF m, Part

(* Prefixes. *)
LEMMA PrefixElements ==
    ASSUME NEW S, NEW s \in Seq(S), NEW t \in Seq(S)
    PROVE  IsPrefix(s, t) <=> Len(s) <= Len(t) /\ \A i \in 1 .. Len(s) : s[i] = t[i]
<1>1. Len(s) \in Nat /\ Len(t) \in Nat
  BY LenProperties
<1>2. SubSeq(s, 1, Len(s)) = s
  BY SubSeqFull
<1>3. ASSUME Len(s) <= Len(t)
      PROVE  /\ SubSeq(t, 1, Len(s)) \in Seq(S) /\ Len(SubSeq(t, 1, Len(s))) = Len(s)
             /\ \A i \in 1 .. Len(s) : SubSeq(t, 1, Len(s))[i] = t[i]
  <2>1. \A i \in 1 .. Len(s) - 1 + 1 : SubSeq(t, 1, Len(s))[i] = t[1 + i - 1]
    BY <1>1, <1>3, PartOfSeq
  <2>2. SubSeq(t, 1, Len(s)) \in Seq(S) /\ Len(SubSeq(t, 1, Len(s))) = Len(s) - 1 + 1
    BY <1>1, <1>3, PartOfSeq
  <2>3. QED
    BY <2>1, <2>2, <1>1
<1>4. ASSUME IsPrefix(s, t)
      PROVE  Len(s) <= Len(t) /\ \A i \in 1 .. Len(s) : s[i] = t[i]
  BY <1>2, <1>3, <1>4 DEF IsPrefix
<1>5. ASSUME Len(s) <= Len(t), \A i \in 1 .. Len(s) : s[i] = t[i]
      PROVE  IsPrefix(s, t)
  <2>1. s = SubSeq(t, 1, Len(s))
    BY <1>3, <1>5, SeqEqual
  <2>2. QED
    BY <2>1, <1>2, <1>5 DEF IsPrefix
<1>6. QED
  BY <1>4, <1>5

LEMMA PrefixOrder ==
    ASSUME NEW S
    PROVE  /\ \A s \in Seq(S) : IsPrefix(s, s) /\ IsPrefix(<<>>, s)
           /\ \A s, t, u \in Seq(S) : IsPrefix(s, t) /\ IsPrefix(t, u) => IsPrefix(s, u)
           /\ \A s, t \in Seq(S) : IsPrefix(s, t) => Len(s) <= Len(t)
<1>1. \A s \in Seq(S) : IsPrefix(s, s) /\ IsPrefix(<<>>, s)
  <2> SUFFICES ASSUME NEW s \in Seq(S) PROVE IsPrefix(s, s) /\ IsPrefix(<<>>, s)
    OBVIOUS
  <2>1. Len(s) \in Nat /\ <<>> \in Seq(S) /\ Len(<<>>) = 0
    BY LenProperties, EmptySeq
  <2>2. IsPrefix(s, s)
    BY <2>1 DEF IsPrefix
  <2>3. IsPrefix(<<>>, s)
    <3> DEFINE e == <<>>
    <3>1. e \in Seq(S) /\ Len(e) = 0
      BY <2>1
    <3> HIDE DEF e
    <3>2. Len(e) <= Len(s) /\ \A i \in 1 .. Len(e) : e[i] = s[i]
      BY <3>1, <2>1
    <3>3. IsPrefix(e, s)
      BY <3>1, <3>2, PrefixElements
    <3>4. QED
      BY <3>3 DEF e
  <2>4. QED
    BY <2>2, <2>3
<1>2. \A s, t, u \in Seq(S) : IsPrefix(s, t) /\ IsPrefix(t, u) => IsPrefix(s, u)
  <2> SUFFICES ASSUME NEW s \in Seq(S), NEW t \in Seq(S), NEW u \in Seq(S),
                      IsPrefix(s, t), IsPrefix(t, u)
               PROVE  IsPrefix(s, u)
    OBVIOUS
  <2>1. Len(s) \in Nat /\ Len(t) \in Nat /\ Len(u) \in Nat
    BY LenProperties
  <2>2. Len(s) <= Len(t) /\ \A i \in 1 .. Len(s) : s[i] = t[i]
    BY PrefixElements
  <2>3. Len(t) <= Len(u) /\ \A i \in 1 .. Len(t) : t[i] = u[i]
    BY PrefixElements
  <2>4. Len(s) <= Len(u) /\ \A i \in 1 .. Len(s) : s[i] = u[i]
    BY <2>1, <2>2, <2>3
  <2>5. QED
    BY <2>4, PrefixElements
<1>3. \A s, t \in Seq(S) : IsPrefix(s, t) => Len(s) <= Len(t)
  BY DEF IsPrefix
<1>4. QED
  BY <1>1, <1>2, <1>3

(* The first bytes of the data are a prefix of more of them. *)
LEMMA LongerPart ==
    ASSUME NEW S, NEW d \in Seq(S), NEW m \in Nat, NEW n \in Nat, m <= n, n <= Len(d)
    PROVE  /\ IsPrefix(SubSeq(d, 1, m), SubSeq(d, 1, n))
           /\ SubSeq(d, 1, m) \in Seq(S) /\ Len(SubSeq(d, 1, m)) = m
<1>0. Len(d) \in Nat
  BY LenProperties
<1>1. /\ SubSeq(d, 1, m) \in Seq(S) /\ Len(SubSeq(d, 1, m)) = m - 1 + 1
      /\ \A i \in 1 .. m - 1 + 1 : SubSeq(d, 1, m)[i] = d[1 + i - 1]
  BY <1>0, PartOfSeq
<1>2. /\ SubSeq(d, 1, n) \in Seq(S) /\ Len(SubSeq(d, 1, n)) = n - 1 + 1
      /\ \A i \in 1 .. n - 1 + 1 : SubSeq(d, 1, n)[i] = d[1 + i - 1]
  BY <1>0, PartOfSeq
<1>3. \A i \in 1 .. m : SubSeq(d, 1, m)[i] = SubSeq(d, 1, n)[i]
  BY <1>1, <1>2
<1>4. IsPrefix(SubSeq(d, 1, m), SubSeq(d, 1, n))
  <2> DEFINE s == SubSeq(d, 1, m)
             t == SubSeq(d, 1, n)
  <2>1. s \in Seq(S) /\ t \in Seq(S) /\ Len(s) = m /\ Len(t) = n /\ \A i \in 1 .. m : s[i] = t[i]
    BY <1>1, <1>2, <1>3
  <2> HIDE DEF s, t
  <2>2. IsPrefix(s, t)
    BY <2>1, PrefixElements
  <2>3. QED
    BY <2>2 DEF s, t
<1>5. QED
  BY <1>1, <1>4

(* What is appended to a sequence leaves its first elements alone. *)
LEMMA FrontOfConcat ==
    ASSUME NEW S, NEW s \in Seq(S), NEW t \in Seq(S), NEW n \in 0 .. Len(s)
    PROVE  SubSeq(s \o t, 1, n) = SubSeq(s, 1, n)
<1>1. Len(s) \in Nat
  BY LenProperties
<1>2. CASE n = 0
  <2>1. SubSeq(s \o t, 1, n) = <<>> /\ SubSeq(s, 1, n) = <<>>
    BY <1>2, SubSeqEmpty
  <2>2. QED
    BY <2>1
<1>3. CASE n # 0
  <2>1. 1 \in 1 .. Len(s) /\ n \in 1 .. Len(s)
    BY <1>1, <1>3
  <2>2. QED
    BY <2>1, SubSeqOfConcat1
<1>4. QED
  BY <1>2, <1>3


(* The first elements of a prefix are those of the whole. *)
LEMMA FrontOfPrefix ==
    ASSUME NEW S, NEW s \in Seq(S), NEW t \in Seq(S), IsPrefix(s, t), NEW n \in 0 .. Len(s)
    PROVE  SubSeq(s, 1, n) = SubSeq(t, 1, n)
<1>1. /\ Len(s) \in Nat /\ Len(t) \in Nat /\ Len(s) <= Len(t)
      /\ \A i \in 1 .. Len(s) : s[i] = t[i]
  BY LenProperties, PrefixElements
<1>2. /\ SubSeq(s, 1, n) \in Seq(S) /\ Len(SubSeq(s, 1, n)) = n - 1 + 1
      /\ \A i \in 1 .. n - 1 + 1 : SubSeq(s, 1, n)[i] = s[1 + i - 1]
  BY <1>1, PartOfSeq
<1>3. /\ SubSeq(t, 1, n) \in Seq(S) /\ Len(SubSeq(t, 1, n)) = n - 1 + 1
      /\ \A i \in 1 .. n - 1 + 1 : SubSeq(t, 1, n)[i] = t[1 + i - 1]
  BY <1>1, PartOfSeq
<1>4. \A i \in 1 .. n - 1 + 1 : SubSeq(s, 1, n)[i] = SubSeq(t, 1, n)[i]
  BY <1>1, <1>2, <1>3
<1>5. QED
  BY <1>2, <1>3, <1>4, SeqEqual
--------------------------------------------------------------------------------
(* The way of the data through a compressing context.                      *)

(* Nothing is a part of the data, wherever. *)
LEMMA EmptyPart ==
    ASSUME NEW d, NEW f \in Nat
    PROVE  Part(d, <<>>, f)
<1>1. f + Len(<<>>) < f + 1 /\ f + Len(<<>>) \in Int /\ f + 1 \in Int
  BY EmptySeq
<1>2. SubSeq(d, f + 1, f + Len(<<>>)) = <<>>
  BY <1>1, SubSeqEmpty
<1>3. QED
  BY <1>2 DEF Part

(* The data of a run: a first piece, and what is left; or all of it; or, when *)
(* nothing follows, all of it held.                                        *)
LEMMA RunData ==
    ASSUME NEW d \in Seq(Byte), NEW took \in Seq(Byte), NEW input \in Seq(Byte),
           NEW then \in Seq(Byte), Part(d, took, 0), Part(d, input, Len(took)),
           Part(d, then, Len(took) + Len(input)),
           Len(took) + Len(input) + Len(then) <= Len(d), NEW k \in 0 .. Len(input)
    PROVE  LET n == Len(took) + Len(input) + Len(then)
               front == SubSeq(input, 1, k)
               back == SubSeq(input, k + 1, Len(input))
           IN  /\ front \in Seq(Byte) /\ back \in Seq(Byte)
               /\ Flow(d, took, front, back, then, <<>>, n)
               /\ Flow(d, took, input, <<>>, then, <<>>, n)
               /\ then = <<>> => Flow(d, took, <<>>, <<>>, <<>>, input, n)
<1> DEFINE n == Len(took) + Len(input) + Len(then)
           front == SubSeq(input, 1, k)
           back == SubSeq(input, k + 1, Len(input))
<1>1. /\ Len(took) \in Nat /\ Len(input) \in Nat /\ Len(then) \in Nat /\ Len(d) \in Nat
      /\ Len(<<>>) = 0
  BY LenProperties, EmptySeq
<1>2. /\ front \in Seq(Byte) /\ Len(front) = k
      /\ back \in Seq(Byte) /\ Len(back) = Len(input) - k
      /\ Part(d, front, Len(took)) /\ Part(d, back, Len(took) + k)
  <2>1. Len(took) \in Nat /\ Len(took) + Len(input) <= Len(d)
    BY <1>1
  <2>2. QED
    BY <2>1, SplitPart
<1>3. Part(d, <<>>, n) /\ Part(d, <<>>, Len(took)) /\ Part(d, <<>>, Len(took) + Len(input))
  BY <1>1, EmptyPart
<1> HIDE DEF front, back
<1>4. Len(took) + Len(front) + Len(back) = Len(took) + Len(input)
  BY <1>1, <1>2
<1>5. Flow(d, took, front, back, then, <<>>, n)
  BY <1>1, <1>2, <1>3, <1>4 DEF Flow
<1>6. Flow(d, took, input, <<>>, then, <<>>, n)
  BY <1>1, <1>3 DEF Flow
<1>7. ASSUME then = <<>> PROVE Flow(d, took, <<>>, <<>>, <<>>, input, n)
  BY <1>1, <1>3, <1>7 DEF Flow
<1>8. QED
  BY <1>2, <1>5, <1>6, <1>7 DEF front, back

(* A run makes a call of its first piece, or of all its input, or holds it. *)
LEMMA RunCalls ==
    ASSUME NEW op \in Operations, NEW input \in Seq(Byte), NEW then \in Seq(Byte),
           Run(op, input, then), op # "flush" => then = <<>>,
           NEW d \in Seq(Byte), NEW took \in Seq(Byte), Part(d, took, 0),
           Part(d, input, Len(took)), Part(d, then, Len(took) + Len(input)),
           Len(took) + Len(input) + Len(then) <= Len(d)
    PROVE  /\ call' \in CallType /\ held' \in Seq(Byte)
           /\ Flow(d, took, CallData', call'.later, call'.then, held',
                   Len(took) + Len(input) + Len(then))
           /\ ~Calling' => call' = NoCall
           /\ op # "process" => Calling'
           /\ Calling' => /\ call'.op \in Operations /\ held' = <<>> /\ call'.last = op
                          /\ call'.op # "process" => call'.later = <<>> /\ call'.op = op
                          /\ call'.last # "flush" => call'.then = <<>>
           /\ op = "process" /\ input = <<>> => call' = NoCall /\ held' = <<>>
<1>1. Len(input) \in Nat /\ <<>> \in Seq(Byte) /\ Len(<<>>) = 0 /\ Feed \in Nat \ {0}
  BY LenProperties, EmptySeq, FeedAssumption
<1>2. CASE Len(input) >= Feed
  <2> DEFINE front == SubSeq(input, 1, Feed)
             back == SubSeq(input, Feed + 1, Len(input))
  <2>1. /\ call' = [op |-> "process", input |-> front, later |-> back, last |-> op, then |-> then]
        /\ held' = <<>>
    BY <1>1, <1>2 DEF Run, CallOf, HeldBy
  <2>2. /\ front \in Seq(Byte) /\ back \in Seq(Byte)
        /\ Flow(d, took, front, back, then, <<>>, Len(took) + Len(input) + Len(then))
    BY <1>1, <1>2, RunData
  <2>3. input # <<>>
    BY <1>1, <1>2
  <2> HIDE DEF front, back
  <2>4. QED
    BY <1>1, <2>1, <2>2, <2>3 DEF CallType, CallData, Calling, Operations
<1>3. CASE Len(input) < Feed /\ op # "process"
  <2>1. /\ call' = [op |-> op, input |-> input, later |-> <<>>, last |-> op, then |-> then]
        /\ held' = <<>>
    BY <1>1, <1>3 DEF Run, CallOf, HeldBy
  <2>2. Flow(d, took, input, <<>>, then, <<>>, Len(took) + Len(input) + Len(then))
    BY <1>1, RunData
  <2>3. QED
    BY <1>1, <1>3, <2>1, <2>2 DEF CallType, CallData, Calling, Operations
<1>4. CASE Len(input) < Feed /\ op = "process"
  <2>1. call' = NoCall /\ held' = input
    BY <1>1, <1>4 DEF Run, CallOf, HeldBy
  <2>2. then = <<>> /\ 0 \in 0 .. Len(input)
    BY <1>1, <1>4
  <2>3. Flow(d, took, <<>>, <<>>, <<>>, input, Len(took) + Len(input) + Len(then))
    BY <2>2, RunData
  <2>4. QED
    BY <1>1, <1>4, <2>1, <2>2, <2>3 DEF CallType, CallData, Calling, Operations, NoCall
<1>5. QED
  BY <1>1, <1>2, <1>3, <1>4


--------------------------------------------------------------------------------
(* The contract, as the steps use it.                                      *)

LEMMA Contract ==
    ASSUME TypeInv, CodecKeepsContract
    PROVE  EncoderSound(Said) /\ DecoderSound(Told) /\ FormatSound(Said, Told)
<1>1. fed = Len(wire) => Fed = wire
  BY SubSeqFull DEF TypeInv, Fed
<1>2. (IF fed = Len(wire) THEN Said ELSE Meaning(case, Fed)) = Told
  BY <1>1 DEF Said, Told
<1>3. QED
  BY <1>2 DEF CodecKeepsContract, Said

(* What a part of the wire says. *)
LEMMA FormatContract ==
    ASSUME TypeInv, CodecKeepsContract
    PROVE  /\ Told.ok /\ Told.out \in Seq(Byte) /\ IsPrefix(Told.out, Said.out)
           /\ Told.end # Open => Told = Said /\ fed >= Said.end
           /\ Said.end # Open /\ fed >= Said.end => Told = Said
           /\ case.followed /\ Said.end = Len(wire) => Meaning(case, wire \o Trailer) = Said
<1>1. FormatSound(Said, Told)
  BY Contract
<1>2. Said.ok /\ Said.out \in Seq(Byte) /\ IsPrefix(Said.out, Said.out)
  BY PrefixOrder DEF TypeInv
<1>3. QED
  BY <1>1, <1>2 DEF FormatSound

(* What a call of the encoder does. *)
LEMMA EncoderContract ==
    ASSUME TypeInv, CodecKeepsContract, Calling, Legal(enc, call.op, call.input),
           NEW room \in case.rooms, NEW t, t = Encode(enc, call.op, call.input, room)
    PROVE  LET says == Meaning(case, wire \o t.out)
               n == Len(call.input) - Len(t.input)
               took == taken \o DataOf(n)
               done == Done(t.e, call.op, t.input)
           IN  /\ t.ok /\ says.ok /\ t.out \in Seq(Byte) /\ says.out \in Seq(Byte)
               /\ n \in 0..Len(call.input) /\ t.input = SubSeq(call.input, n + 1, Len(call.input))
               /\ IsPrefix(Said.out, says.out) /\ IsPrefix(says.out, took)
               /\ ~done => Legal(t.e, call.op, t.input)
               /\ done /\ call.op # "finish" => t.e.state = "processing"
               /\ done /\ call.op \in {"flush", "finish"} => t.input = <<>> /\ says.out = took
               /\ says.end = IF done /\ call.op = "finish" THEN Len(wire \o t.out) ELSE Open
<1>1. EncoderSound(Said)
  BY Contract
<1>2. Said.ok
  BY DEF TypeInv
<1>3. QED
  BY <1>1, <1>2 DEF EncoderSound

(* What a call of the decoder does. *)
LEMMA DecoderContract ==
    ASSUME TypeInv, CodecKeepsContract, again, NEW size \in case.drains, NEW room, NEW d,
           room = Least(size, Remaining + 1), d = Decode(dec, wire, fed - dec.next_in, room)
    PROVE  /\ d.res \in Statuses
           /\ d.next_in \in dec.next_in..fed /\ d.out \in Seq(Byte)
           /\ IsPrefix(dec.out, d.out) /\ IsPrefix(d.out, Told.out) /\ Len(d.out) <= Len(dec.out) + room
           /\ d.res = "NEEDS_MORE_INPUT" /\ Len(d.out) < Len(dec.out) + room =>
                   d.out = Told.out /\ Told.end = Open
           /\ d.res = "SUCCESS" => d.out = Told.out /\ d.next_in = Told.end
<1>1. DecoderSound(Told)
  BY Contract
<1>2. Told.ok
  BY FormatContract
<1>3. QED
  BY <1>1, <1>2 DEF DecoderSound

--------------------------------------------------------------------------------
(* The inductive invariant.                                                *)

(* It holds at first: nothing says nothing. *)
LEMMA Initially == Init => IInv
<1> SUFFICES ASSUME Init PROVE IInv
  OBVIOUS
<1>1. case \in Cases /\ case.data \in Seq(Byte) /\ case.metadata \in Seq(Byte)
      /\ Len(case.metadata) <= 2^24 /\ case.limit \in Nat /\ Len(case.data) \in Nat
  BY CasesAssumption, LenProperties DEF Init
<1>2. /\ enc.state = "processing" /\ dec.out = <<>> /\ dec.next_in = 0
      /\ Meaning(case, <<>>) = [out |-> <<>>, end |-> Open, ok |-> TRUE]
  BY <1>1, CodecAssumption DEF Init
<1>3. <<>> \in Seq(Byte) /\ Len(<<>>) = 0 /\ IsPrefix(<<>>, <<>>)
  BY EmptySeq, PrefixOrder
<1>4. SubSeq(<<>>, 1, 0) = <<>>
  BY SubSeqEmpty
<1>5. Said = [out |-> <<>>, end |-> Open, ok |-> TRUE] /\ Told = Said
  BY <1>2, <1>4 DEF Init, Said, Told, Fed
<1>6. TypeInv
  <2>1. Said.ok /\ Said.out = <<>>
    BY <1>5
  <2>2. call \in CallType
    BY <1>3 DEF Init, CallType, NoCall
  <2>3. /\ context \in {"holding", "streaming", "finished"} /\ outcome \in Outcomes
        /\ metadata = case.metadata /\ held = <<>> /\ taken = <<>> /\ wire = <<>> /\ stream = Open
        /\ given = 0 /\ promised = 0 /\ fed = 0 /\ got = 0 /\ ~again /\ ~ending
        /\ again \in BOOLEAN /\ ending \in BOOLEAN
    BY DEF Init, Outcomes
  <2>4. Len(dec.out) = 0 /\ dec.next_in = 0 /\ dec.out \in Seq(Byte)
    BY <1>2, <1>3
  <2>5. QED
    BY <1>1, <1>3, <2>1, <2>2, <2>3, <2>4 DEF TypeInv
<1>7. CallInv
  BY DEF Init, CallInv, NoCall, Calling, Operations
<1>8. FlowInv
  <2>1. Part(case.data, <<>>, 0)
    BY EmptyPart
  <2>2. QED
    BY <1>3, <2>1 DEF Init, FlowInv, Flow, CallData, NoCall
<1>9. EncoderInv
  BY <1>2 DEF Init, EncoderInv, Calling, NoCall
<1>10. WireInv
  BY <1>3, <1>5 DEF Init, WireInv, Open
<1>11. DecoderInv
  <2>1. Said.out = <<>> /\ Told.out = <<>> /\ Told.end = Open
    BY <1>5
  <2>2. outcome = "open" /\ ~again /\ got = 0
    BY DEF Init
  <2>3. IsPrefix(dec.out, Said.out) /\ dec.out = Told.out /\ Len(dec.out) = 0
    BY <1>2, <1>3, <2>1
  <2>4. QED
    BY <1>1, <2>1, <2>2, <2>3 DEF DecoderInv
<1>12. QED
  BY <1>6, <1>7, <1>8, <1>9, <1>10, <1>11 DEF IInv

(* A call of the compressing context that only gives it something to do says *)
(* nothing yet, and the decompressing context does not see it.              *)
LEMMA InputStep ==
    ASSUME IInv, UNCHANGED <<case, taken, promised, wire, stream, decompressor>>,
           context # "finished", context' \in {"holding", "streaming", "finished"},
           context' = "finished" => Calling', call' \in CallType, held' \in Seq(Byte),
           metadata' \in Seq(Byte), Len(metadata') <= 2^24, given' \in given .. Len(case.data)
    PROVE  TypeInv' /\ WireInv' /\ DecoderInv'
<1>1. Said' = Said /\ Told' = Told
  BY DEF Said, Told, Fed, decompressor
<1>2. TypeInv'
  BY <1>1 DEF IInv, TypeInv, decompressor
<1>3. WireInv'
  BY <1>1 DEF IInv, WireInv, TypeInv
<1>4. DecoderInv'
  BY <1>1 DEF IInv, DecoderInv, decompressor
<1>5. QED
  BY <1>2, <1>3, <1>4

(* A run of an encoder that is ready. *)
LEMMA RunInv ==
    ASSUME case \in Cases, case' = case, NEW op \in Operations, NEW input \in Seq(Byte),
           NEW then \in Seq(Byte), Run(op, input, then), op # "flush" => then = <<>>,
           taken' \in Seq(Byte), Part(case.data, taken', 0), Part(case.data, input, Len(taken')),
           Part(case.data, then, Len(taken') + Len(input)),
           given' = Len(taken') + Len(input) + Len(then), given' <= Len(case.data),
           enc'.state = "processing", context' \in {"streaming", "finished"},
           op = "finish" <=> context' = "finished"
    PROVE  /\ call' \in CallType /\ held' \in Seq(Byte)
           /\ CallInv' /\ FlowInv' /\ EncoderInv'
           /\ context' = "finished" => Calling'
<1>1. case.data \in Seq(Byte)
  BY CasesAssumption
<1>2. /\ call' \in CallType /\ held' \in Seq(Byte)
      /\ Flow(case.data, taken', CallData', call'.later, call'.then, held',
              Len(taken') + Len(input) + Len(then))
      /\ ~Calling' => call' = NoCall
      /\ op # "process" => Calling'
      /\ Calling' => /\ call'.op \in Operations /\ held' = <<>> /\ call'.last = op
                     /\ call'.op # "process" => call'.later = <<>> /\ call'.op = op
                     /\ call'.last # "flush" => call'.then = <<>>
  BY <1>1, RunCalls
<1>3. FlowInv'
  BY <1>2 DEF FlowInv
<1>4. CallInv'
  BY <1>2 DEF CallInv, Calling, NoCall, Operations
<1>5. EncoderInv'
  BY <1>2 DEF EncoderInv, Legal, Operations
<1>6. QED
  BY <1>2, <1>3, <1>4, <1>5 DEF Operations

(* Between its calls, a context has taken all that it does not hold. *)
LEMMA Idle ==
    ASSUME IInv, ~Calling
    PROVE  /\ call = NoCall /\ Part(case.data, taken, 0) /\ Part(case.data, held, Len(taken))
           /\ given = Len(taken) + Len(held) /\ given <= Len(case.data) /\ given \in Nat
           /\ case \in Cases /\ case.data \in Seq(Byte) /\ Len(case.data) \in Nat
           /\ taken \in Seq(Byte) /\ held \in Seq(Byte)
           /\ Len(taken) \in Nat /\ Len(held) \in Nat
<1>1. call = NoCall
  BY DEF IInv, CallInv
<1>2. /\ case \in Cases /\ case.data \in Seq(Byte) /\ Len(case.data) \in Nat
      /\ taken \in Seq(Byte) /\ held \in Seq(Byte) /\ Len(taken) \in Nat /\ Len(held) \in Nat
      /\ given \in 0 .. Len(case.data)
  BY CasesAssumption, LenProperties DEF IInv, TypeInv
<1>3. CallData = <<>> /\ call.later = <<>> /\ call.then = <<>> /\ Len(<<>>) = 0
  BY <1>1, EmptySeq DEF CallData, NoCall
<1>4. Flow(case.data, taken, <<>>, <<>>, <<>>, held, given)
  BY <1>3 DEF IInv, FlowInv
<1>5. Part(case.data, taken, 0) /\ Part(case.data, held, Len(taken)) /\ given = Len(taken) + Len(held)
  BY <1>2, <1>3, <1>4 DEF Flow
<1>6. QED
  BY <1>1, <1>2, <1>5

(* What the context holds and n more bytes of the data. *)
LEMMA MoreData ==
    ASSUME IInv, ~Calling, NEW n \in 1..Len(case.data) - given
    PROVE  LET all == held \o Rest(n)
           IN  /\ all \in Seq(Byte) /\ Len(all) = Len(held) + n
               /\ Part(case.data, all, Len(taken)) /\ Len(taken) + Len(all) = given + n
<1>1. /\ case.data \in Seq(Byte) /\ given = Len(taken) + Len(held) /\ held \in Seq(Byte)
      /\ Len(taken) \in Nat /\ Len(held) \in Nat /\ given \in Nat /\ Len(case.data) \in Nat
      /\ Part(case.data, held, Len(taken))
  BY Idle
<1>2. n \in Nat /\ given + n <= Len(case.data)
  BY <1>1
<1>3. Rest(n) \in Seq(Byte) /\ Len(Rest(n)) = n
  BY <1>1, <1>2, Slice DEF Rest
<1>4. Part(case.data, Rest(n), Len(taken) + Len(held))
  BY <1>1, <1>3 DEF Part, Rest
<1>5. Len(taken) + Len(held) + Len(Rest(n)) <= Len(case.data)
  BY <1>1, <1>2, <1>3
<1>6. /\ held \o Rest(n) \in Seq(Byte) /\ Len(held \o Rest(n)) = Len(held) + Len(Rest(n))
      /\ Part(case.data, held \o Rest(n), Len(taken))
  BY <1>1, <1>3, <1>4, <1>5, JoinParts
<1>7. QED
  BY <1>1, <1>2, <1>3, <1>6

LEMMA TransformKeeps ==
    ASSUME IInv, NEW n, Transform(n)
    PROVE  IInv'
<1> DEFINE all == held \o Rest(n)
<1>0. /\ ~Calling /\ n \in 1..Len(case.data) - given /\ given' = given + n
      /\ UNCHANGED <<case, enc, taken, metadata, promised, wire, stream, decompressor>>
      /\ context \in {"holding", "streaming"}
  BY DEF Transform
<1>1. /\ call = NoCall /\ Part(case.data, taken, 0) /\ given \in Nat
      /\ case \in Cases /\ case.data \in Seq(Byte) /\ Len(case.data) \in Nat
      /\ taken \in Seq(Byte) /\ Len(taken) \in Nat
  BY <1>0, Idle
<1>2. /\ all \in Seq(Byte) /\ Len(all) \in Nat
      /\ Part(case.data, all, Len(taken)) /\ Len(taken) + Len(all) = given + n
  BY <1>0, MoreData, LenProperties
<1>3. given + n <= Len(case.data) /\ given' \in given .. Len(case.data)
  BY <1>0, <1>1
<1>4. enc.state = "processing" /\ metadata \in Seq(Byte) /\ Len(metadata) <= 2^24 /\ call \in CallType
  BY <1>0 DEF IInv, EncoderInv, TypeInv
<1>5. <<>> \in Seq(Byte) /\ Len(<<>>) = 0
  BY EmptySeq
<1> HIDE DEF all
<1>6. CASE context = "holding" /\ held' = all /\ UNCHANGED <<context, call>>
  <2>1. TypeInv' /\ WireInv' /\ DecoderInv'
    BY <1>0, <1>2, <1>3, <1>4, <1>6, InputStep
  <2>2. Flow(case.data, taken, <<>>, <<>>, <<>>, all, Len(taken) + Len(all) + Len(<<>>))
    <3>1. Part(case.data, <<>>, Len(taken) + Len(all)) /\ 0 \in 0 .. Len(all)
      BY <1>1, <1>2, EmptyPart
    <3>2. Len(taken) + Len(all) + Len(<<>>) <= Len(case.data)
      BY <1>1, <1>2, <1>3, <1>5
    <3>3. QED
      BY <1>1, <1>2, <1>5, <3>1, <3>2, RunData
  <2>3. CallData = <<>> /\ call.later = <<>> /\ call.then = <<>>
    BY <1>1 DEF CallData, NoCall
  <2>4. Len(taken) + Len(all) + Len(<<>>) = given'
    BY <1>0, <1>1, <1>2, <1>5
  <2>5. FlowInv'
    BY <1>0, <1>6, <2>2, <2>3, <2>4 DEF FlowInv, CallData
  <2>6. CallInv' /\ EncoderInv'
    BY <1>0, <1>1, <1>4, <1>6 DEF CallInv, EncoderInv, Calling, NoCall, Operations
  <2>7. QED
    BY <2>1, <2>5, <2>6 DEF IInv
<1>7. CASE /\ context = "holding" /\ Len(all) > MaxHeld /\ context' = "streaming"
           /\ Run("flush", SubSeq(all, 1, MaxHeld), SubSeq(all, MaxHeld + 1, Len(all)))
  <2> DEFINE front == SubSeq(all, 1, MaxHeld)
             back == SubSeq(all, MaxHeld + 1, Len(all))
  <2>1. MaxHeld \in 0 .. Len(all)
    BY <1>1, <1>2, <1>7, CasesAssumption DEF MaxHeld
  <2>2. Len(taken) + Len(all) <= Len(case.data)
    BY <1>2, <1>3
  <2>3. /\ front \in Seq(Byte) /\ Len(front) = MaxHeld
        /\ back \in Seq(Byte) /\ Len(back) = Len(all) - MaxHeld
        /\ Part(case.data, front, Len(taken)) /\ Part(case.data, back, Len(taken) + MaxHeld)
    BY <1>1, <1>2, <2>1, <2>2, SplitPart
  <2>4. Run("flush", front, back)
    BY <1>7
  <2> HIDE DEF front, back
  <2>5. Len(taken) + Len(front) + Len(back) = given'
    <3>1. Len(front) = MaxHeld /\ Len(back) = Len(all) - MaxHeld /\ MaxHeld \in Int
      BY <1>2, <2>1, <2>3
    <3>2. Len(taken) + Len(all) = given' /\ Len(taken) \in Nat /\ Len(all) \in Nat
      BY <1>0, <1>1, <1>2
    <3>3. QED
      BY <3>1, <3>2
  <2>6. /\ call' \in CallType /\ held' \in Seq(Byte) /\ CallInv' /\ FlowInv' /\ EncoderInv'
    BY <1>0, <1>1, <1>3, <1>4, <1>7, <2>3, <2>4, <2>5, RunInv DEF Operations
  <2>7. TypeInv' /\ WireInv' /\ DecoderInv'
    BY <1>0, <1>3, <1>4, <1>7, <2>6, InputStep
  <2>8. QED
    BY <2>6, <2>7 DEF IInv
<1>8. CASE context = "streaming" /\ Run("process", all, <<>>) /\ UNCHANGED context
  <2>1. Part(case.data, <<>>, Len(taken) + Len(all))
    BY <1>1, <1>2, EmptyPart
  <2>2. Len(taken) + Len(all) + Len(<<>>) = given'
    BY <1>0, <1>1, <1>2, <1>5
  <2>3. /\ call' \in CallType /\ held' \in Seq(Byte) /\ CallInv' /\ FlowInv' /\ EncoderInv'
    BY <1>0, <1>1, <1>2, <1>3, <1>4, <1>5, <1>8, <2>1, <2>2, RunInv DEF Operations
  <2>4. TypeInv' /\ WireInv' /\ DecoderInv'
    BY <1>0, <1>3, <1>4, <1>8, <2>3, InputStep
  <2>5. QED
    BY <2>3, <2>4 DEF IInv
<1>9. QED
  BY <1>6, <1>7, <1>8 DEF Transform, all

LEMMA FlushKeeps ==
    ASSUME IInv, Flush
    PROVE  IInv'
<1>0. /\ ~Calling /\ context = "streaming" /\ Run("flush", held, <<>>)
      /\ UNCHANGED <<case, context, enc, taken, metadata, given, promised, wire, stream, decompressor>>
  BY DEF Flush
<1>1. /\ Part(case.data, taken, 0) /\ Part(case.data, held, Len(taken))
      /\ given = Len(taken) + Len(held) /\ given <= Len(case.data) /\ given \in Nat
      /\ case \in Cases /\ case.data \in Seq(Byte) /\ Len(case.data) \in Nat
      /\ taken \in Seq(Byte) /\ held \in Seq(Byte) /\ Len(taken) \in Nat /\ Len(held) \in Nat
  BY <1>0, Idle
<1>2. enc.state = "processing" /\ metadata \in Seq(Byte) /\ Len(metadata) <= 2^24
  BY <1>0 DEF IInv, EncoderInv, TypeInv
<1>3. <<>> \in Seq(Byte) /\ Len(<<>>) = 0 /\ Part(case.data, <<>>, Len(taken) + Len(held))
  BY <1>1, EmptySeq, EmptyPart
<1>4. given' = Len(taken) + Len(held) + Len(<<>>) /\ given' \in given .. Len(case.data)
  BY <1>0, <1>1, <1>3
<1>5. /\ call' \in CallType /\ held' \in Seq(Byte) /\ CallInv' /\ FlowInv' /\ EncoderInv'
  BY <1>0, <1>1, <1>2, <1>3, <1>4, RunInv DEF Operations
<1>6. TypeInv' /\ WireInv' /\ DecoderInv'
  BY <1>0, <1>2, <1>4, <1>5, InputStep
<1>7. QED
  BY <1>5, <1>6 DEF IInv

LEMMA FinishKeeps ==
    ASSUME IInv, Finish
    PROVE  IInv'
<1>0. /\ ~Calling /\ context \in {"holding", "streaming"} /\ context' = "finished"
      /\ UNCHANGED <<case, taken, metadata, given, promised, wire, stream, decompressor>>
  BY DEF Finish
<1>1. /\ Part(case.data, taken, 0) /\ Part(case.data, held, Len(taken))
      /\ given = Len(taken) + Len(held) /\ given <= Len(case.data) /\ given \in Nat
      /\ case \in Cases /\ case.data \in Seq(Byte) /\ Len(case.data) \in Nat
      /\ taken \in Seq(Byte) /\ held \in Seq(Byte) /\ Len(taken) \in Nat /\ Len(held) \in Nat
  BY <1>0, Idle
<1>2. enc.state = "processing" /\ metadata \in Seq(Byte) /\ Len(metadata) <= 2^24
  BY <1>0 DEF IInv, EncoderInv, TypeInv
<1>3. <<>> \in Seq(Byte) /\ Len(<<>>) = 0 /\ Part(case.data, <<>>, Len(taken) + Len(held))
  BY <1>1, EmptySeq, EmptyPart
<1>4. given' = Len(taken) + Len(held) + Len(<<>>) /\ given' \in given .. Len(case.data)
  BY <1>0, <1>1, <1>3
<1>5. CASE context = "holding"
  <2>1. /\ enc' = NewEncoder(case, Len(held)) /\ held' = <<>>
        /\ call' = [op |-> "finish", input |-> held, later |-> <<>>, last |-> "finish", then |-> <<>>]
    BY <1>5 DEF Finish, NoCall
  <2>2. enc'.state = "processing"
    <3>1. Len(held) \in 0 .. Len(case.data)
      BY <1>1
    <3>2. QED
      BY <1>1, <2>1, <3>1, CodecAssumption
  <2>3. call' \in CallType
    BY <1>1, <1>3, <2>1 DEF CallType, Operations
  <2>4. CallInv' /\ EncoderInv'
    BY <1>0, <2>1, <2>2 DEF CallInv, EncoderInv, Legal, Calling, Operations
  <2>5. FlowInv'
    <3>1. Flow(case.data, taken, held, <<>>, <<>>, <<>>, given)
      <4>1. Len(taken) + Len(held) + Len(<<>>) <= Len(case.data) /\ 0 \in 0 .. Len(held)
        BY <1>1, <1>3
      <4>2. Flow(case.data, taken, held, <<>>, <<>>, <<>>, Len(taken) + Len(held) + Len(<<>>))
        BY <1>1, <1>3, <4>1, RunData
      <4>3. QED
        BY <1>0, <1>4, <4>2
    <3>2. QED
      BY <1>0, <2>1, <3>1 DEF FlowInv, CallData
  <2>6. TypeInv' /\ WireInv' /\ DecoderInv'
    <3>1. Calling'
      BY <2>1 DEF Calling
    <3>2. QED
      BY <1>0, <1>2, <1>3, <1>4, <2>1, <2>3, <3>1, InputStep
  <2>7. QED
    BY <2>4, <2>5, <2>6 DEF IInv
<1>6. CASE context = "streaming"
  <2>1. Run("finish", held, <<>>) /\ enc' = enc
    BY <1>6 DEF Finish
  <2>2. /\ call' \in CallType /\ held' \in Seq(Byte) /\ CallInv' /\ FlowInv' /\ EncoderInv' /\ Calling'
    BY <1>0, <1>1, <1>2, <1>3, <1>4, <2>1, RunInv DEF Operations
  <2>3. TypeInv' /\ WireInv' /\ DecoderInv'
    BY <1>0, <1>2, <1>4, <2>2, InputStep
  <2>4. QED
    BY <2>2, <2>3 DEF IInv
<1>7. QED
  BY <1>0, <1>5, <1>6

LEMMA EmitMetadataKeeps ==
    ASSUME IInv, EmitMetadata
    PROVE  IInv'
<1>0. /\ ~Calling /\ context = "streaming" /\ metadata' = <<>>
      /\ call' = [op |-> "emit_metadata", input |-> metadata, later |-> <<>>, last |-> "none",
                  then |-> <<>>]
      /\ UNCHANGED <<case, context, held, enc, taken, given, promised, wire, stream, decompressor>>
  BY DEF EmitMetadata, NoCall
<1>1. call = NoCall /\ given <= Len(case.data) /\ given \in Nat /\ Len(case.data) \in Nat /\ held \in Seq(Byte)
  BY <1>0, Idle
<1>2. enc.state = "processing" /\ metadata \in Seq(Byte) /\ Len(metadata) <= 2^24
  BY <1>0 DEF IInv, EncoderInv, TypeInv
<1>3. <<>> \in Seq(Byte) /\ Len(<<>>) = 0
  BY EmptySeq
<1>4. call' \in CallType
  BY <1>0, <1>2, <1>3 DEF CallType
<1>5. CallInv' /\ EncoderInv'
  BY <1>0, <1>2 DEF CallInv, EncoderInv, Legal, Calling, Operations
<1>6. FlowInv'
  <2>1. CallData = <<>> /\ CallData' = <<>> /\ call'.later = call.later /\ call'.then = call.then
    BY <1>0, <1>1 DEF CallData, NoCall
  <2>2. QED
    BY <1>0, <2>1 DEF IInv, FlowInv
<1>7. TypeInv' /\ WireInv' /\ DecoderInv'
  <2>1. Len(metadata') <= 2^24 /\ given' \in given .. Len(case.data)
    BY <1>0, <1>1, <1>3
  <2>2. QED
    BY <1>0, <1>1, <1>3, <1>4, <2>1, InputStep
<1>8. QED
  BY <1>5, <1>6, <1>7 DEF IInv

(* The encoder takes the first n bytes of its input. *)
LEMMA TakeData ==
    ASSUME NEW d \in Seq(Byte), NEW took \in Seq(Byte), NEW input \in Seq(Byte), NEW later,
           NEW then, NEW hold, NEW total, Flow(d, took, input, later, then, hold, total),
           Len(later) \in Nat, Len(then) \in Nat, Len(hold) \in Nat, total <= Len(d),
           NEW n \in 0 .. Len(input)
    PROVE  LET front == SubSeq(input, 1, n)
               back == SubSeq(input, n + 1, Len(input))
           IN  /\ took \o front \in Seq(Byte) /\ back \in Seq(Byte)
               /\ Len(took \o front) = Len(took) + n /\ Len(back) = Len(input) - n
               /\ Flow(d, took \o front, back, later, then, hold, total)
<1> DEFINE front == SubSeq(input, 1, n)
           back == SubSeq(input, n + 1, Len(input))
           all == took \o front
<1>1. Len(took) \in Nat /\ Len(input) \in Nat /\ Len(d) \in Nat
  BY LenProperties
<1>2. /\ Part(d, took, 0) /\ Part(d, input, Len(took)) /\ Part(d, later, Len(took) + Len(input))
      /\ Part(d, then, Len(took) + Len(input) + Len(later))
      /\ Part(d, hold, Len(took) + Len(input) + Len(later) + Len(then))
      /\ total = Len(took) + Len(input) + Len(later) + Len(then) + Len(hold)
  BY DEF Flow
<1>3. Len(took) + Len(input) <= Len(d)
  BY <1>1, <1>2
<1>4. /\ front \in Seq(Byte) /\ Len(front) = n /\ back \in Seq(Byte) /\ Len(back) = Len(input) - n
      /\ Part(d, front, Len(took)) /\ Part(d, back, Len(took) + n)
  BY <1>1, <1>2, <1>3, SplitPart
<1> HIDE DEF front, back
<1>5. all \in Seq(Byte) /\ Len(all) = Len(took) + Len(front) /\ Part(d, all, 0)
  <2>1. 0 + Len(took) + Len(front) <= Len(d) /\ 0 + Len(took) = Len(took)
    BY <1>1, <1>3, <1>4
  <2>2. QED
    BY <1>2, <1>4, <2>1, JoinParts
<1> HIDE DEF all
<1>6. Len(all) = Len(took) + n /\ Len(all) + Len(back) = Len(took) + Len(input)
  BY <1>1, <1>4, <1>5
<1>7. Flow(d, all, back, later, then, hold, total)
  BY <1>2, <1>4, <1>5, <1>6 DEF Flow
<1>8. QED
  BY <1>4, <1>5, <1>6, <1>7 DEF front, back, all

(* A call of the encoder, with any room for its output. *)
LEMMA EncoderKeeps ==
    ASSUME IInv, CodecKeepsContract, EncoderStep
    PROVE  IInv'
<1>1. PICK room \in case.rooms : EncoderCall(room)
  BY DEF EncoderStep
<1> DEFINE t == Encode(enc, call.op, call.input, room)
           says == Meaning(case, wire \o t.out)
           n == Len(call.input) - Len(t.input)
           took == taken \o DataOf(n)
           done == Done(t.e, call.op, t.input)
<1>2. Calling /\ Legal(enc, call.op, call.input) /\ TypeInv
  BY <1>1 DEF EncoderCall, IInv, EncoderInv
<1>3. /\ t.ok /\ says.ok /\ t.out \in Seq(Byte) /\ says.out \in Seq(Byte)
      /\ n \in 0..Len(call.input) /\ t.input = SubSeq(call.input, n + 1, Len(call.input))
      /\ IsPrefix(Said.out, says.out) /\ IsPrefix(says.out, took)
      /\ ~done => Legal(t.e, call.op, t.input)
      /\ done /\ call.op # "finish" => t.e.state = "processing"
      /\ done /\ call.op \in {"flush", "finish"} => t.input = <<>> /\ says.out = took
      /\ says.end = IF done /\ call.op = "finish" THEN Len(wire \o t.out) ELSE Open
  BY <1>2, EncoderContract
<1>4. /\ enc' = t.e /\ wire' = wire \o t.out /\ taken' = took
      /\ UNCHANGED <<case, context, metadata, given, decompressor>>
      /\ \/ ~done /\ call' = [call EXCEPT !.input = t.input] /\ UNCHANGED held
         \/ done /\ Proceed
      /\ promised' = IF done /\ call.op \in {"flush", "finish"} THEN given - Len(call.then) ELSE promised
      /\ stream' = IF done /\ call.op = "finish" THEN Len(wire') ELSE stream
  BY <1>1, <1>3 DEF EncoderCall
<1> HIDE DEF t, says, n, took, done
<1>5. /\ case \in Cases /\ case.data \in Seq(Byte) /\ Len(case.data) \in Nat /\ <<>> \in Seq(Byte)
      /\ Len(<<>>) = 0 /\ call \in CallType /\ given \in 0..Len(case.data) /\ promised \in 0..given
      /\ call.input \in Seq(Byte) /\ call.later \in Seq(Byte) /\ call.then \in Seq(Byte)
      /\ Len(call.input) \in Nat /\ Len(call.later) \in Nat /\ Len(call.then) \in Nat
      /\ held \in Seq(Byte) /\ Len(held) \in Nat /\ taken \in Seq(Byte) /\ wire \in Seq(Byte)
      /\ CallData \in Seq(Byte) /\ stream = Open /\ Len(wire) \in Nat
  <2>1. /\ case \in Cases /\ call \in CallType /\ given \in 0..Len(case.data) /\ promised \in 0..given
        /\ held \in Seq(Byte) /\ taken \in Seq(Byte) /\ wire \in Seq(Byte)
    BY <1>2 DEF TypeInv
  <2>2. call.input \in Seq(Byte) /\ call.later \in Seq(Byte) /\ call.then \in Seq(Byte)
    BY <2>1 DEF CallType
  <2>3. stream = Open
    BY <1>2 DEF IInv, WireInv
  <2>4. CallData \in Seq(Byte)
    BY <2>2, EmptySeq DEF CallData
  <2>5. QED
    BY <2>1, <2>2, <2>3, <2>4, CasesAssumption, EmptySeq, LenProperties
\* The data that the encoder took, and what is left of the call.
<1>6. /\ taken' \in Seq(Byte) /\ t.input \in Seq(Byte) /\ Len(t.input) \in Nat
      /\ Len(t.input) <= Len(call.input)
      /\ LET rest == IF call.op = "emit_metadata" THEN <<>> ELSE t.input
         IN  Flow(case.data, taken', rest, call.later, call.then, held, given)
  <2>1. Flow(case.data, taken, CallData, call.later, call.then, held, given)
    BY DEF IInv, FlowInv
  <2>2. t.input \in Seq(Byte) /\ Len(t.input) = Len(call.input) - n
    <3>1. n + 1 \in Nat \ {0} /\ n + 1 <= Len(call.input) + 1 /\ Len(call.input) - (n + 1) + 1 = Len(call.input) - n
      BY <1>3, <1>5
    <3>2. /\ SubSeq(call.input, n + 1, Len(call.input)) \in Seq(Byte)
          /\ Len(SubSeq(call.input, n + 1, Len(call.input))) = Len(call.input) - (n + 1) + 1
      BY <1>5, <3>1, PartOfSeq
    <3>3. QED
      BY <1>3, <3>1, <3>2
  <2>3. CASE call.op = "emit_metadata"
    <3>1. taken' = taken \o <<>> /\ CallData = <<>>
      BY <1>4, <2>3 DEF took, DataOf, CallData
    <3>2. taken' = taken
      BY <1>5, <3>1, ConcatEmptySeq
    <3>3. QED
      BY <1>3, <1>5, <2>1, <2>2, <2>3, <3>1, <3>2
  <2>4. CASE call.op # "emit_metadata"
    <3>1. taken' = taken \o SubSeq(call.input, 1, n) /\ CallData = call.input
      BY <1>4, <2>4 DEF took, DataOf, CallData
    <3>2. /\ taken \o SubSeq(call.input, 1, n) \in Seq(Byte)
          /\ Flow(case.data, taken \o SubSeq(call.input, 1, n),
                  SubSeq(call.input, n + 1, Len(call.input)), call.later, call.then, held, given)
      <4>1. Flow(case.data, taken, call.input, call.later, call.then, held, given)
        BY <2>1, <3>1
      <4>2. /\ case.data \in Seq(Byte) /\ taken \in Seq(Byte) /\ call.input \in Seq(Byte)
            /\ Len(call.later) \in Nat /\ Len(call.then) \in Nat /\ Len(held) \in Nat
        BY <1>5
      <4>3. given <= Len(case.data) /\ n \in 0 .. Len(call.input)
        BY <1>3, <1>5
      <4>4. QED
        BY <4>1, <4>2, <4>3, TakeData
    <3>3. QED
      BY <1>3, <1>5, <2>2, <2>4, <3>1, <3>2
  <2>5. QED
    BY <2>3, <2>4
\* What the decompressing context sees of it: a longer wire.
<1>7. wire' \in Seq(Byte) /\ Len(wire') = Len(wire) + Len(t.out) /\ Len(t.out) \in Nat
  BY <1>3, <1>4, <1>5, ConcatProperties, LenProperties
<1>8. Said' = says /\ Told' = Told
  <2>1. Said' = says
    BY <1>4 DEF Said, says
  <2>2. fed \in 0 .. Len(wire) /\ fed' = fed
    BY <1>2, <1>4 DEF TypeInv, decompressor
  <2>3. SubSeq(wire', 1, fed) = SubSeq(wire, 1, fed)
    BY <1>3, <1>4, <1>5, <2>2, FrontOfConcat
  <2>4. QED
    BY <1>4, <2>1, <2>2, <2>3 DEF Told, Fed
<1>9. IsPrefix(Said.out, Said'.out) /\ IsPrefix(Said'.out, taken') /\ Said'.out \in Seq(Byte) /\ Said'.ok
      /\ Len(Said.out) <= Len(Said'.out) /\ Len(Said'.out) \in Nat /\ Len(Said.out) \in Nat
  <2>1. Said.out \in Seq(Byte)
    BY <1>2 DEF TypeInv
  <2>2. QED
    BY <1>3, <1>4, <1>8, <2>1, PrefixOrder, LenProperties
<1>10. DecoderInv'
  <2>1. dec.out \in Seq(Byte) /\ IsPrefix(dec.out, Said.out) /\ Said.out \in Seq(Byte)
    BY <1>2 DEF IInv, DecoderInv, TypeInv
  <2>2. IsPrefix(dec.out, Said'.out)
    BY <1>9, <2>1, PrefixOrder
  <2>3. outcome \notin {"ended", "late", "trailing"}
    BY <1>5 DEF IInv, DecoderInv
  <2>4. QED
    BY <1>4, <1>8, <2>2, <2>3 DEF IInv, DecoderInv, decompressor
\* The types, but for those of the next call.
<1>11. ASSUME call' \in CallType, held' \in Seq(Byte), promised' \in 0..given
       PROVE  TypeInv'
  <2>1. /\ fed \in 0..Len(wire) /\ got \in 0..Len(dec.out) /\ dec.out \in Seq(Byte) /\ dec.next_in \in 0..fed
        /\ again \in BOOLEAN /\ ending \in BOOLEAN /\ outcome \in Outcomes
        /\ context \in {"holding", "streaming", "finished"}
        /\ metadata \in Seq(Byte) /\ Len(metadata) <= 2^24
    BY <1>2 DEF TypeInv
  <2>2. fed \in 0..Len(wire')
    BY <1>5, <1>7, <2>1
  <2>3. stream' \in {Open} \cup 0..Len(wire')
    BY <1>4, <1>5, <1>7
  <2>4. QED
    BY <1>4, <1>5, <1>6, <1>7, <1>9, <1>11, <2>1, <2>2, <2>3 DEF TypeInv, decompressor
<1>12. CASE ~done
  <2>1. /\ call' = [call EXCEPT !.input = t.input] /\ held' = held
        /\ promised' = promised /\ stream' = Open /\ Said'.end = Open
    BY <1>3, <1>4, <1>5, <1>8, <1>12
  <2>2. /\ call' \in CallType /\ call'.op = call.op /\ call'.input = t.input /\ call'.later = call.later
        /\ call'.last = call.last /\ call'.then = call.then
    BY <1>5, <1>6, <2>1 DEF CallType
  <2>3. Calling' /\ CallInv'
    BY <1>2, <1>4, <2>1, <2>2 DEF IInv, CallInv, Calling
  <2>4. EncoderInv'
    BY <1>3, <1>4, <1>12, <2>2, <2>3 DEF EncoderInv, Legal
  <2>5. FlowInv'
    BY <1>4, <1>6, <2>1, <2>2 DEF FlowInv, CallData
  <2>6. WireInv'
    BY <1>5, <1>9, <2>1, <2>3 DEF IInv, WireInv
  <2>7. TypeInv'
    BY <1>5, <1>11, <2>1, <2>2
  <2>8. QED
    BY <1>10, <2>3, <2>4, <2>5, <2>6, <2>7 DEF IInv
<1>13. CASE done /\ call.op \in {"process", "flush", "finish"}
  <2>1. /\ t.input = <<>> /\ Proceed /\ held = <<>>
        /\ Flow(case.data, taken', <<>>, call.later, call.then, <<>>, given)
    BY <1>3, <1>4, <1>6, <1>13 DEF done, Done, IInv, CallInv, Operations
  <2>2. /\ Part(case.data, taken', 0) /\ Part(case.data, call.later, Len(taken'))
        /\ Part(case.data, call.then, Len(taken') + Len(call.later))
        /\ given = Len(taken') + Len(call.later) + Len(call.then) /\ Len(taken') \in Nat
    <3>1. Len(taken') \in Nat
      BY <1>6, LenProperties
    <3>2. QED
      BY <1>5, <2>1, <3>1 DEF Flow
  <2>3. call.op # "finish" => enc'.state = "processing"
    BY <1>3, <1>4, <1>13
  <2>4. /\ call.op = "process" => call.last \in Operations
        /\ call.op \in {"flush", "finish"} => call.later = <<>> /\ call.last = call.op
        /\ call.last # "flush" => call.then = <<>>
        /\ call.last = "finish" <=> context = "finished"
        /\ context \in {"streaming", "finished"}
    BY <1>2, <1>13 DEF IInv, CallInv, TypeInv
  <2>5. CASE call.op = "process"
    <3>1. Run(call.last, call.later, call.then)
      BY <2>1, <2>5 DEF Proceed
    <3>2. call' \in CallType /\ held' \in Seq(Byte) /\ CallInv' /\ FlowInv' /\ EncoderInv'
          /\ (context' = "finished" => Calling')
      <4>1. call.last \in Operations /\ enc'.state = "processing"
        BY <2>3, <2>4, <2>5
      <4>2. /\ case' = case /\ context' \in {"streaming", "finished"} /\ given' <= Len(case.data)
            /\ given' = Len(taken') + Len(call.later) + Len(call.then)
            /\ call.last = "finish" <=> context' = "finished"
        <5>1. given \in Nat /\ given <= Len(case.data) /\ given' = given /\ case' = case /\ context' = context
          BY <1>4, <1>5
        <5>2. given = Len(taken') + Len(call.later) + Len(call.then)
          BY <2>2
        <5>3. context \in {"streaming", "finished"} /\ (call.last = "finish" <=> context = "finished")
          BY <2>4
        <5>4. QED
          BY <5>1, <5>2, <5>3
      <4>3. QED
        BY <1>5, <1>6, <2>2, <2>4, <3>1, <4>1, <4>2, RunInv
    <3>3. promised' = promised /\ stream' = Open /\ Said'.end = Open
      BY <1>3, <1>4, <1>5, <1>8, <2>5
    <3>4. WireInv'
      BY <1>5, <1>9, <3>2, <3>3 DEF IInv, WireInv
    <3>5. TypeInv'
      BY <1>5, <1>11, <3>2, <3>3
    <3>6. QED
      BY <1>10, <3>2, <3>4, <3>5 DEF IInv
  <2>6. CASE call.op = "flush"
    <3>1. Run("process", call.then, <<>>)
      BY <2>1, <2>6 DEF Proceed
    <3>2. context' = "streaming" /\ call.later = <<>>
      BY <1>4, <2>4, <2>6
    <3>3. /\ Part(case.data, call.then, Len(taken')) /\ given' = Len(taken') + Len(call.then) + Len(<<>>)
          /\ Part(case.data, <<>>, Len(taken') + Len(call.then))
      BY <1>4, <1>5, <2>2, <3>2, EmptyPart
    <3>4. call' \in CallType /\ held' \in Seq(Byte) /\ CallInv' /\ FlowInv' /\ EncoderInv'
      <4>1. "process" \in Operations /\ enc'.state = "processing"
        BY <2>3, <2>6 DEF Operations
      <4>2. case' = case /\ given' <= Len(case.data)
        BY <1>4, <1>5
      <4>3. QED
        BY <1>5, <1>6, <2>2, <3>1, <3>2, <3>3, <4>1, <4>2, RunInv
    <3>5. promised' = Len(taken') /\ stream' = Open /\ Said'.end = Open /\ Said'.out = taken'
      BY <1>3, <1>4, <1>5, <1>8, <1>13, <2>2, <2>6, <3>2
    <3>6. WireInv'
      BY <1>9, <3>2, <3>5 DEF WireInv
    <3>7. TypeInv'
      <4>1. promised' \in 0..given
        BY <1>5, <2>2, <3>2, <3>5
      <4>2. QED
        BY <1>11, <3>4, <4>1
    <3>8. QED
      BY <1>10, <3>4, <3>6, <3>7 DEF IInv
  <2>7. CASE call.op = "finish"
    <3>1. Run("process", <<>>, <<>>) /\ call.then = <<>> /\ call.later = <<>> /\ context' = "finished"
      BY <1>4, <2>1, <2>4, <2>7 DEF Proceed
    <3>2. call' = NoCall /\ held' = <<>>
      BY <1>5, <3>1, FeedAssumption DEF Run, CallOf, HeldBy
    <3>3. call' \in CallType /\ CallInv'
      BY <1>5, <3>1, <3>2 DEF CallType, NoCall, CallInv, Calling, Operations
    <3>4. EncoderInv'
      BY <3>1, <3>2 DEF EncoderInv, Calling, NoCall
    <3>5. FlowInv'
      BY <1>4, <2>1, <3>1, <3>2 DEF FlowInv, CallData, NoCall
    <3>6. /\ Len(taken') = given /\ promised' = given /\ stream' = Len(wire') /\ Said'.end = Len(wire')
          /\ Said'.out = taken'
      BY <1>3, <1>4, <1>5, <1>8, <1>13, <2>2, <2>7, <3>1
    <3>7. WireInv'
      BY <1>4, <1>7, <1>5, <1>9, <3>1, <3>2, <3>6 DEF WireInv, Calling, NoCall, Open
    <3>8. TypeInv'
      BY <1>5, <1>11, <3>2, <3>3, <3>6
    <3>9. QED
      BY <1>10, <3>3, <3>4, <3>5, <3>7, <3>8 DEF IInv
  <2>8. QED
    BY <1>13, <2>5, <2>6, <2>7
<1>14. CASE done /\ call.op = "emit_metadata"
  <2>1. call' = NoCall /\ held' = held /\ enc'.state = "processing"
    BY <1>3, <1>4, <1>14 DEF Proceed
  <2>2. call.later = <<>> /\ call.then = <<>> /\ call.last = "none"
    BY <1>14 DEF IInv, CallInv
  <2>3. call' \in CallType /\ CallInv' /\ EncoderInv' /\ ~Calling'
    BY <1>5, <2>1 DEF CallType, NoCall, CallInv, EncoderInv, Calling, Operations
  <2>4. FlowInv'
    BY <1>4, <1>6, <1>14, <2>1, <2>2 DEF FlowInv, CallData, NoCall
  <2>5. promised' = promised /\ stream' = Open /\ Said'.end = Open /\ context' # "finished"
    BY <1>2, <1>3, <1>4, <1>5, <1>8, <1>14, <2>2 DEF IInv, CallInv
  <2>6. WireInv'
    BY <1>5, <1>9, <2>5 DEF IInv, WireInv
  <2>7. TypeInv'
    BY <1>5, <1>11, <2>1, <2>3, <2>5
  <2>8. QED
    BY <1>10, <2>3, <2>4, <2>6, <2>7 DEF IInv
<1>15. QED
  BY <1>2, <1>5, <1>12, <1>13, <1>14 DEF CallType, Calling, Operations

(* What follows the stream says nothing. *)
LEMMA FollowKeeps ==
    ASSUME IInv, CodecKeepsContract, Follow
    PROVE  IInv'
<1>1. /\ case.followed /\ stream = Len(wire) /\ wire' = wire \o Trailer
      /\ UNCHANGED <<case, context, held, enc, call, taken, metadata, given, promised, stream,
                     decompressor>>
  BY DEF Follow
<1>2. TypeInv /\ wire \in Seq(Byte) /\ fed \in 0 .. Len(wire) /\ stream = Said.end /\ Len(wire) \in Nat
  BY LenProperties DEF IInv, TypeInv, WireInv
<1>3. wire' \in Seq(Byte) /\ Len(wire) <= Len(wire') /\ Len(wire') \in Nat
  <2>1. wire' \in Seq(Byte) /\ Len(wire') = Len(wire) + Len(Trailer)
    BY <1>1, <1>2, TrailerAssumption, ConcatProperties
  <2>2. Len(Trailer) \in Nat
    BY TrailerAssumption, LenProperties
  <2>3. QED
    BY <1>2, <2>1, <2>2
<1>4. Said' = Said
  BY <1>1, <1>2, FormatContract DEF Said
<1>5. Told' = Told
  <2>1. SubSeq(wire', 1, fed) = SubSeq(wire, 1, fed)
    BY <1>1, <1>2, TrailerAssumption, FrontOfConcat
  <2>2. QED
    BY <1>1, <2>1 DEF Told, Fed, decompressor
<1>6. TypeInv'
  <2>1. fed \in 0 .. Len(wire') /\ stream' \in {Open} \cup 0..Len(wire')
    BY <1>1, <1>2, <1>3
  <2>2. QED
    BY <1>1, <1>2, <1>3, <1>4, <2>1 DEF TypeInv, decompressor
<1>7. CallInv' /\ FlowInv' /\ EncoderInv'
  BY <1>1 DEF IInv, CallInv, FlowInv, EncoderInv, Calling, CallData
<1>8. WireInv'
  BY <1>1, <1>4 DEF IInv, WireInv, Calling
<1>9. DecoderInv'
  BY <1>1, <1>4, <1>5 DEF IInv, DecoderInv, decompressor
<1>10. QED
  BY <1>6, <1>7, <1>8, <1>9 DEF IInv

(* What the decompressing context does leaves the other one alone. *)
LEMMA OtherContext ==
    ASSUME IInv, UNCHANGED <<case, compressor>>
    PROVE  CallInv' /\ FlowInv' /\ EncoderInv' /\ WireInv' /\ Said' = Said
<1>1. UNCHANGED <<case, context, held, enc, call, taken, metadata, given, promised, wire, stream>>
  BY DEF compressor
<1>2. Said' = Said
  BY <1>1 DEF Said
<1>3. CallInv' /\ FlowInv' /\ EncoderInv'
  BY <1>1 DEF IInv, CallInv, FlowInv, EncoderInv, Calling, CallData
<1>4. WireInv'
  BY <1>1, <1>2 DEF IInv, WireInv, Calling
<1>5. QED
  BY <1>2, <1>3, <1>4

(* Bytes of the wire arrive. *)
LEMMA ReceiveKeeps ==
    ASSUME IInv, NEW n, Decompress(n)
    PROVE  IInv'
<1>1. /\ ~again /\ n \in 1..Len(wire) - fed /\ outcome \in {"open", "ended"}
      /\ fed' = fed + n /\ again' = (outcome = "open")
      /\ outcome' = IF outcome = "ended" THEN "late" ELSE outcome
      /\ UNCHANGED <<case, compressor, dec, ending, got>>
  BY DEF Decompress
<1>2. fed \in 0..Len(wire) /\ wire \in Seq(Byte) /\ Len(wire) \in Nat /\ wire' = wire
  BY <1>1, LenProperties DEF IInv, TypeInv, compressor
<1>3. CallInv' /\ FlowInv' /\ EncoderInv' /\ WireInv' /\ Said' = Said
  BY <1>1, OtherContext
<1>4. fed' \in 0..Len(wire) /\ fed' > fed /\ fed' \in Nat /\ fed \in Nat
  BY <1>1, <1>2
<1>5. TypeInv'
  <2>1. dec.next_in \in 0 .. fed'
    BY <1>4 DEF IInv, TypeInv
  <2>2. again' \in BOOLEAN /\ outcome' \in Outcomes
    BY <1>1 DEF Outcomes
  <2>3. QED
    BY <1>1, <1>2, <1>3, <1>4, <2>1, <2>2 DEF IInv, TypeInv, compressor
<1>6. DecoderInv'
  <2>1. CASE outcome = "open"
    BY <1>1, <1>3, <2>1 DEF IInv, DecoderInv
  <2>2. CASE outcome = "ended"
    <3>1. stream' # Open /\ fed' > stream'
      BY <1>1, <1>4, <2>2 DEF IInv, DecoderInv, compressor
    <3>2. QED
      BY <1>1, <1>3, <2>2, <3>1 DEF IInv, DecoderInv
  <2>3. QED
    BY <1>1, <2>1, <2>2
<1>7. QED
  BY <1>3, <1>5, <1>6 DEF IInv

(* The decompressing context is to finish. *)
LEMMA DecoderFinishKeeps ==
    ASSUME IInv, DecoderFinish
    PROVE  IInv'
<1>1. /\ outcome = "open" /\ ending' = TRUE /\ again' = TRUE
      /\ UNCHANGED <<case, compressor, fed, dec, got, outcome>>
  BY DEF DecoderFinish
<1>2. CallInv' /\ FlowInv' /\ EncoderInv' /\ WireInv' /\ Said' = Said
  BY <1>1, OtherContext
<1>3. TypeInv'
  BY <1>1, <1>2 DEF IInv, TypeInv, compressor
<1>4. DecoderInv'
  BY <1>1, <1>2 DEF IInv, DecoderInv
<1>5. QED
  BY <1>2, <1>3, <1>4 DEF IInv

(* A call of the decoder, with any room for its output. *)
LEMMA DecoderKeeps ==
    ASSUME IInv, CodecKeepsContract, DecoderStep
    PROVE  IInv'
<1>1. PICK size \in case.drains : DecoderCall(size)
  BY DEF DecoderStep
<1> DEFINE d == dec'
           room == Least(size, Remaining + 1)
           appended == Len(d.out) - Len(dec.out)
           more == GoesOn(d, appended = room)
<1>2. /\ again /\ d = Decode(dec, wire, fed - dec.next_in, room)
      /\ outcome' = CASE Exceeds(appended) -> "exceeded"
                      [] ~Exceeds(appended) /\ d.res \notin Statuses -> "corrupt"
                      [] ~Exceeds(appended) /\ d.res = "SUCCESS" ->
                            IF Trails(d) THEN "trailing" ELSE "ended"
                      [] OTHER -> IF ending /\ ~more THEN "truncated" ELSE "open"
      /\ again' = (outcome' = "open" /\ more)
      /\ got' = IF ~again' /\ outcome' \in {"open", "ended"} THEN Len(d.out) ELSE got
      /\ UNCHANGED <<case, compressor, fed, ending>>
  BY <1>1 DEF DecoderCall
<1>3. TypeInv
  BY DEF IInv
<1>4. /\ d.res \in Statuses
      /\ d.next_in \in dec.next_in..fed /\ d.out \in Seq(Byte)
      /\ IsPrefix(dec.out, d.out) /\ IsPrefix(d.out, Told.out) /\ Len(d.out) <= Len(dec.out) + room
      /\ d.res = "NEEDS_MORE_INPUT" /\ Len(d.out) < Len(dec.out) + room =>
              d.out = Told.out /\ Told.end = Open
      /\ d.res = "SUCCESS" => d.out = Told.out /\ d.next_in = Told.end
  BY <1>2, <1>3, DecoderContract
<1>5. /\ Told.out \in Seq(Byte) /\ IsPrefix(Told.out, Said.out)
      /\ Told.end # Open => Told = Said /\ fed >= Said.end
  BY <1>3, FormatContract
<1>6. CallInv' /\ FlowInv' /\ EncoderInv' /\ WireInv' /\ Said' = Said /\ Told' = Told
  <2>1. CallInv' /\ FlowInv' /\ EncoderInv' /\ WireInv' /\ Said' = Said
    BY <1>2, OtherContext
  <2>2. Told' = Told
    BY <1>2 DEF Told, Fed, compressor
  <2>3. QED
    BY <2>1, <2>2
<1>7. /\ size \in Nat \ {0} /\ case.limit \in Nat /\ fed \in Nat /\ Len(d.out) \in Nat /\ Len(dec.out) \in Nat
      /\ dec.next_in \in Nat /\ got \in 0..Len(dec.out)
      /\ Len(dec.out) <= Len(d.out)
  <2>1. size \in Nat \ {0} /\ case.limit \in Nat
    BY <1>3, CasesAssumption DEF TypeInv
  <2>2. fed \in Nat /\ dec.out \in Seq(Byte) /\ dec.next_in \in Nat /\ got \in 0..Len(dec.out)
    BY <1>3, LenProperties DEF TypeInv
  <2>3. QED
    BY <1>4, <2>1, <2>2, LenProperties, PrefixOrder
<1>8. /\ room \in Nat \ {0} /\ room <= case.limit - Len(dec.out) + 1 /\ Len(dec.out) <= case.limit
  <2>1. Len(dec.out) <= case.limit
    BY <1>2 DEF IInv, DecoderInv
  <2>2. QED
    BY <1>7, <2>1 DEF Least, Remaining
<1> HIDE DEF d, room
<1>9. /\ Len(d.out) <= case.limit + 1
      /\ Exceeds(appended) <=> Len(d.out) > case.limit
  <2> DEFINE a == Len(d.out)
             b == Len(dec.out)
  <2>1. a <= b + room /\ a \in Nat /\ b \in Nat /\ case.limit \in Nat
    BY <1>4, <1>7
  <2>2. room \in Nat /\ room <= case.limit - b + 1
    BY <1>8
  <2>3. Exceeds(appended) <=> a - b > case.limit - b
    BY DEF Exceeds, Remaining
  <2> HIDE DEF a, b
  <2>4. a <= case.limit + 1 /\ (a - b > case.limit - b <=> a > case.limit)
    BY <2>1, <2>2
  <2>5. QED
    BY <2>3, <2>4 DEF a
<1>10. IsPrefix(d.out, Said.out)
  <2>1. Said.out \in Seq(Byte)
    BY <1>3 DEF TypeInv
  <2>2. QED
    BY <1>4, <1>5, <2>1, PrefixOrder
<1>11. dec' = d
  BY DEF d
\* The end of the stream, reported by the decoder.
<1>12. ASSUME d.res = "SUCCESS"
       PROVE  /\ stream # Open /\ fed >= stream /\ d.next_in = stream /\ d.out = Said.out
              /\ stream' = stream
  <2>1. d.out = Told.out /\ d.next_in = Told.end /\ Told.end # Open
    BY <1>4, <1>7, <1>12 DEF Open
  <2>2. Told = Said /\ fed >= Said.end
    BY <1>5, <2>1
  <2>3. stream = Said.end
    BY DEF IInv, WireInv
  <2>4. stream' = stream
    BY <1>2 DEF compressor
  <2>5. QED
    BY <2>1, <2>2, <2>3, <2>4
\* A decoder that does not go on has given all that the wire says.
<1>13. ASSUME d.res # "SUCCESS", ~more
       PROVE  d.out = Told.out /\ Told.end = Open
  <2>1. d.res = "NEEDS_MORE_INPUT" /\ appended # room
    BY <1>4, <1>13 DEF GoesOn, Statuses
  <2>2. Len(d.out) < Len(dec.out) + room
    <3> DEFINE a == Len(d.out)
               b == Len(dec.out)
    <3>1. a <= b + room /\ a \in Nat /\ b \in Nat /\ room \in Nat /\ a - b # room
      BY <1>4, <1>7, <1>8, <2>1
    <3> HIDE DEF a, b
    <3>2. a < b + room
      BY <3>1
    <3>3. QED
      BY <3>2 DEF a, b
  <2>3. QED
    BY <1>4, <2>1, <2>2
<1> HIDE DEF appended, more
<1>14. /\ outcome' \in Outcomes /\ again' \in BOOLEAN
       /\ outcome' = "exceeded" <=> Exceeds(appended)
       /\ outcome' \in {"trailing", "ended"} => d.res = "SUCCESS"
       /\ outcome' = "ended" => ~Trails(d)
       /\ outcome' = "trailing" => Trails(d)
       /\ outcome' \in {"open", "truncated"} => d.res # "SUCCESS"
       /\ outcome' = "truncated" => ~more
       /\ outcome' # "late"
  BY <1>2, <1>4 DEF Outcomes
<1>15. TypeInv'
  <2>1. got' \in 0..Len(d.out)
    BY <1>2, <1>7
  <2>2. d.next_in \in 0..fed
    BY <1>4, <1>7
  <2>3. QED
    BY <1>2, <1>3, <1>4, <1>6, <1>11, <1>14, <2>1, <2>2 DEF TypeInv, compressor
<1>16. DecoderInv'
  <2>1. /\ IsPrefix(dec'.out, Said'.out) /\ Len(dec'.out) <= case'.limit + 1
        /\ outcome' # "exceeded" => Len(dec'.out) <= case'.limit
        /\ outcome' = "exceeded" => Len(dec'.out) > case'.limit
        /\ again' => outcome' = "open"
    <3>1. IsPrefix(dec'.out, Said'.out) /\ Len(dec'.out) = Len(d.out) /\ case' = case
      BY <1>2, <1>6, <1>10, <1>11
    <3>2. /\ Len(d.out) <= case.limit + 1 /\ (Exceeds(appended) <=> Len(d.out) > case.limit)
          /\ Len(d.out) \in Nat /\ case.limit \in Nat
      BY <1>7, <1>9
    <3>3. (outcome' = "exceeded" <=> Exceeds(appended)) /\ (again' => outcome' = "open")
      BY <1>2, <1>14
    <3>4. QED
      BY <3>1, <3>2, <3>3
  <2>2. outcome' = "open" /\ ~again' => Told'.end = Open /\ dec'.out = Told'.out /\ got' = Len(dec'.out)
    BY <1>2, <1>6, <1>11, <1>13, <1>14
  <2>3. outcome' = "ended" =>
            stream' # Open /\ fed' = stream' /\ dec'.out = Said'.out /\ got' = Len(dec'.out)
    <3>1. ASSUME outcome' = "ended"
          PROVE  fed = d.next_in
      BY <1>4, <1>7, <1>14, <3>1 DEF Trails
    <3>2. outcome' = "ended" => got' = Len(d.out) /\ fed' = fed
      BY <1>2
    <3>3. QED
      BY <1>6, <1>11, <1>12, <1>14, <3>1, <3>2
  <2>4. outcome' \in {"late", "trailing"} => stream' # Open /\ fed' > stream'
    <3>1. ASSUME outcome' = "trailing"
          PROVE  stream # Open /\ stream' = stream /\ fed > stream
      BY <1>12, <1>14, <3>1 DEF Trails
    <3>2. fed' = fed
      BY <1>2
    <3>3. QED
      BY <1>14, <3>1, <3>2
  <2>5. outcome' = "truncated" => Told'.end = Open
    BY <1>6, <1>13, <1>14
  <2>6. QED
    BY <2>1, <2>2, <2>3, <2>4, <2>5 DEF DecoderInv
<1>17. QED
  BY <1>6, <1>15, <1>16 DEF IInv

(* Every step keeps the invariant, where the codec keeps its contract. *)
LEMMA Inductive == IInv /\ CodecKeepsContract /\ [Next]_vars => IInv'
<1> SUFFICES ASSUME IInv, CodecKeepsContract, [Next]_vars PROVE IInv'
  OBVIOUS
<1>1. ASSUME NEW n \in case.chunks, Transform(Least(n, Len(case.data) - given)) PROVE IInv'
  BY <1>1, TransformKeeps
<1>2. CASE Flush
  BY <1>2, FlushKeeps
<1>3. CASE Finish
  BY <1>3, FinishKeeps
<1>4. CASE EmitMetadata
  BY <1>4, EmitMetadataKeeps
<1>5. CASE EncoderStep
  BY <1>5, EncoderKeeps
<1>6. CASE Follow
  BY <1>6, FollowKeeps
<1>7. CASE Receive
  BY <1>7, ReceiveKeeps DEF Receive
<1>8. CASE DecoderFinish
  BY <1>8, DecoderFinishKeeps
<1>9. CASE DecoderStep
  BY <1>9, DecoderKeeps
<1>10. CASE UNCHANGED vars
  <2>1. UNCHANGED <<case, compressor, decompressor>>
    BY <1>10 DEF vars, compressor, decompressor
  <2>2. CallInv' /\ FlowInv' /\ EncoderInv' /\ WireInv' /\ Said' = Said
    BY <2>1, OtherContext
  <2>3. Told' = Told
    BY <2>1 DEF Told, Fed, compressor, decompressor
  <2>4. TypeInv' /\ DecoderInv'
    BY <2>1, <2>2, <2>3 DEF IInv, TypeInv, DecoderInv, compressor, decompressor
  <2>5. QED
    BY <2>2, <2>4 DEF IInv
<1>11. QED
  BY <1>1, <1>2, <1>3, <1>4, <1>5, <1>6, <1>7, <1>8, <1>9, <1>10 DEF Next

(* The inductive invariant holds of every behaviour in which no call of the *)
(* codec breaks its contract: what is held, what waits in the calls of a run, *)
(* what the encoder took, what the wire says and what was decompressed are one *)
(* stretch of the data.                                                    *)
THEOREM InvHolds == Spec /\ []CodecKeepsContract => []IInv
<1>1. Init => IInv
  BY Initially
<1>2. IInv /\ CodecKeepsContract /\ [Next]_vars => IInv'
  BY Inductive
<1>3. QED
  BY <1>1, <1>2, PTL DEF Spec

--------------------------------------------------------------------------------
(* What the contexts promise.                                              *)

(* What the encoder took are the first bytes of the data that it was given. *)
LEMMA Taken ==
    ASSUME TypeInv, FlowInv
    PROVE  taken = SubSeq(case.data, 1, Len(taken)) /\ Len(taken) <= given
<1>1. /\ Len(taken) \in Nat /\ Len(CallData) \in Nat /\ Len(call.later) \in Nat /\ Len(call.then) \in Nat
      /\ Len(held) \in Nat
  <2>1. /\ taken \in Seq(Byte) /\ CallData \in Seq(Byte) /\ call.later \in Seq(Byte)
        /\ call.then \in Seq(Byte) /\ held \in Seq(Byte)
    BY EmptySeq DEF TypeInv, CallType, CallData
  <2>2. QED
    BY <2>1, LenProperties
<1>2. Part(case.data, taken, 0)
  BY DEF FlowInv, Flow
<1>4. given = Len(taken) + Len(CallData) + Len(call.later) + Len(call.then) + Len(held)
  BY DEF FlowInv, Flow
<1>3. taken = SubSeq(case.data, 1, Len(taken))
  <2> DEFINE m == 0 + 1
             n == 0 + Len(taken)
  <2>1. taken = SubSeq(case.data, m, n)
    BY <1>2 DEF Part
  <2>2. m = 1 /\ n = Len(taken)
    BY <1>1
  <2> HIDE DEF m, n
  <2>3. SubSeq(case.data, m, n) = SubSeq(case.data, 1, Len(taken))
    BY <2>2
  <2>4. QED
    BY <2>1, <2>3
<1>5. Len(taken) <= given
  <2> DEFINE l == Len(taken)
             r == Len(CallData)
             s == Len(call.later)
             t == Len(call.then)
             u == Len(held)
  <2>1. given = l + r + s + t + u /\ l \in Nat /\ r \in Nat /\ s \in Nat /\ t \in Nat /\ u \in Nat
    BY <1>1, <1>4
  <2> HIDE DEF l, r, s, t, u
  <2>2. l <= given
    BY <2>1
  <2>3. QED
    BY <2>2 DEF l
<1>6. QED
  BY <1>3, <1>5

(* No call of a context asks an encoder for what it would refuse, and nothing *)
(* on the way makes a decoder refuse the stream.                           *)
THEOREM NobodyRefusesHolds == Spec /\ []CodecKeepsContract => []NobodyRefuses
<1>1. IInv => NobodyRefuses
  BY DEF IInv, TypeInv, NobodyRefuses, Outcomes
<1>2. QED
  BY <1>1, InvHolds, PTL

(* What was to be flushed has come out at the other end, once that has the    *)
(* whole wire and waits for more.                                          *)
THEOREM FlushDeliversHolds == Spec /\ []CodecKeepsContract => []FlushDelivers
<1>1. IInv => FlushDelivers
  <2> SUFFICES ASSUME IInv, ~Calling, ~again, outcome = "open", fed = Len(wire)
               PROVE  got >= promised
    BY DEF FlushDelivers
  <2>1. Told = Said
    BY SubSeqFull DEF IInv, TypeInv, Told, Said, Fed
  <2>2. got = Len(Said.out) /\ promised <= Len(Said.out)
    BY <2>1 DEF IInv, DecoderInv, WireInv
  <2>3. Said.out \in Seq(Byte) /\ Len(Said.out) \in Nat /\ promised \in Nat
    <3>1. Said.out \in Seq(Byte) /\ promised \in 0..given /\ given \in 0..Len(case.data)
      BY DEF IInv, TypeInv
    <3>2. QED
      BY <3>1, LenProperties
  <2>4. QED
    BY <2>2, <2>3
<1>2. QED
  BY <1>1, InvHolds, PTL

(* No error is made of a stream that deserves none: an end, and something     *)
(* behind it, are reported where the encoder put the end, and truncation only *)
(* before it.                                                              *)
THEOREM EndIsExactHolds == Spec /\ []CodecKeepsContract => []EndIsExact
<1>1. IInv /\ CodecKeepsContract /\ NobodyRefuses => EndIsExact
  <2> SUFFICES ASSUME IInv, CodecKeepsContract, NobodyRefuses PROVE EndIsExact
    OBVIOUS
  <2>1. TypeInv /\ stream = Said.end
    BY DEF IInv, WireInv
  <2>2. ASSUME outcome = "truncated", stream # Open
        PROVE  fed < stream
    <3>1. Told.end = Open
      BY <2>2 DEF IInv, DecoderInv
    <3>2. ~(fed >= Said.end)
      BY <2>1, <2>2, <3>1, FormatContract
    <3>3. stream \in Nat /\ fed \in Nat
      BY <2>1, <2>2, LenProperties DEF TypeInv
    <3>4. QED
      BY <2>1, <3>2, <3>3
  <2>3. QED
    BY <2>2 DEF IInv, DecoderInv, EndIsExact
<1>2. QED
  BY <1>1, InvHolds, NobodyRefusesHolds, PTL

(* Output of the size of the limit passes, and only more than that is an error. *)
THEOREM LimitIsExactHolds == Spec /\ []CodecKeepsContract => []LimitIsExact
<1>1. IInv => LimitIsExact
  <2> SUFFICES ASSUME IInv PROVE LimitIsExact
    OBVIOUS
  <2>1. Len(dec.out) <= case.limit + 1
    BY DEF IInv, DecoderInv
  <2>2. outcome = "ended" => got <= case.limit
    BY DEF IInv, DecoderInv
  <2>3. ASSUME outcome = "exceeded"
        PROVE  given > case.limit
    <3>1. /\ dec.out \in Seq(Byte) /\ Said.out \in Seq(Byte) /\ taken \in Seq(Byte)
          /\ case \in Cases /\ given \in 0..Len(case.data)
      BY DEF IInv, TypeInv
    <3>2. Len(dec.out) <= Len(Said.out) /\ Len(Said.out) <= Len(taken)
      BY <3>1, PrefixOrder DEF IInv, DecoderInv, WireInv
    <3>3. Len(taken) <= given
      BY Taken DEF IInv
    <3>4. Len(dec.out) > case.limit
      BY <2>3 DEF IInv, DecoderInv
    <3>5. /\ Len(dec.out) \in Nat /\ Len(Said.out) \in Nat /\ Len(taken) \in Nat /\ given \in Nat
          /\ case.limit \in Nat
      BY <3>1, LenProperties, CasesAssumption
    <3>6. QED
      BY <3>2, <3>3, <3>4, <3>5
  <2>4. QED
    BY <2>1, <2>2, <2>3 DEF LimitIsExact
<1>2. QED
  BY <1>1, InvHolds, PTL

(* The data that the decompressing context has returned. *)
Sent == SubSeq(case.data, 1, given)
Received == SubSeq(dec.out, 1, got)

(* It is the beginning of what was sent, and at the end all of it. *)
ReceivedInv ==
    /\ IsPrefix(Received, Sent)
    /\ outcome = "ended" => context = "finished" /\ Received = Sent

LEMMA ReceivedIsSent == IInv => ReceivedInv
<1> SUFFICES ASSUME IInv PROVE ReceivedInv
  OBVIOUS
<1>1. /\ dec.out \in Seq(Byte) /\ Said.out \in Seq(Byte) /\ taken \in Seq(Byte)
      /\ case.data \in Seq(Byte) /\ given \in 0..Len(case.data) /\ got \in 0..Len(dec.out)
  BY CasesAssumption DEF IInv, TypeInv
<1>2. /\ Len(dec.out) \in Nat /\ Len(taken) \in Nat /\ given \in Nat /\ got \in Nat
      /\ given <= Len(case.data) /\ got <= Len(dec.out) /\ Len(case.data) \in Nat
  BY <1>1, LenProperties
<1>3. taken = SubSeq(case.data, 1, Len(taken)) /\ Len(taken) <= given
  BY Taken DEF IInv
<1>4. IsPrefix(SubSeq(case.data, 1, Len(taken)), Sent) /\ Sent \in Seq(Byte)
  BY <1>1, <1>2, <1>3, LongerPart DEF Sent
<1>5. IsPrefix(Received, SubSeq(dec.out, 1, Len(dec.out))) /\ Received \in Seq(Byte)
  BY <1>1, <1>2, LongerPart DEF Received
<1>6. SubSeq(dec.out, 1, Len(dec.out)) = dec.out
  BY <1>1, SubSeqFull
<1>7. IsPrefix(Received, dec.out) /\ IsPrefix(taken, Sent)
  BY <1>3, <1>4, <1>5, <1>6
<1>8. IsPrefix(dec.out, Said.out) /\ IsPrefix(Said.out, taken)
  BY DEF IInv, DecoderInv, WireInv
<1>9. IsPrefix(Received, Sent)
  <2>1. IsPrefix(Received, Said.out)
    BY <1>1, <1>5, <1>7, <1>8, PrefixOrder
  <2>2. IsPrefix(Received, taken)
    BY <1>1, <1>5, <1>8, <2>1, PrefixOrder
  <2>3. QED
    BY <1>1, <1>4, <1>5, <1>7, <2>2, PrefixOrder
<1>10. ASSUME outcome = "ended"
       PROVE  context = "finished" /\ Received = Sent
  <2>1. stream # Open /\ dec.out = Said.out /\ got = Len(dec.out)
    BY <1>10 DEF IInv, DecoderInv
  <2>2. context = "finished" /\ Said.out = taken /\ Len(taken) = given
    BY <2>1 DEF IInv, WireInv
  <2>3. Received = dec.out
    BY <1>6, <2>1 DEF Received
  <2>4. Sent = taken
    BY <1>3, <2>2 DEF Sent
  <2>5. QED
    BY <2>1, <2>2, <2>3, <2>4
<1>11. QED
  BY <1>9, <1>10 DEF ReceivedInv

(* Initially the contexts are a channel that has transported nothing, *)
LEMMA ChannelInit == Init => Channel!Init
<1> SUFFICES ASSUME Init PROVE Channel!Init
  OBVIOUS
<1>1. SubSeq(case.data, 1, given) = <<>> /\ SubSeq(dec.out, 1, got) = <<>>
  BY SubSeqEmpty DEF Init
<1>2. context # "finished" /\ outcome = "open"
  BY DEF Init
<1>3. QED
  BY <1>1, <1>2 DEF Channel!Init

(* and a step of a context is one of the channel, or nothing to it. *)
LEMMA ChannelNext ==
    IInv /\ IInv' /\ ReceivedInv' /\ CodecKeepsContract /\ [Next]_vars => [Channel!Next]_Channel!vars
<1> SUFFICES ASSUME IInv, IInv', ReceivedInv', CodecKeepsContract, [Next]_vars
             PROVE  [Channel!Next]_Channel!vars
  OBVIOUS
<1>1. ASSUME UNCHANGED <<case, given, context, dec, got, outcome>>
      PROVE  UNCHANGED Channel!vars
  BY <1>1 DEF Channel!vars
<1>2. /\ case.data \in Seq(Byte) /\ given \in 0..Len(case.data) /\ Len(case.data) \in Nat
      /\ dec.out \in Seq(Byte) /\ got \in 0..Len(dec.out) /\ Len(dec.out) \in Nat
  BY CasesAssumption, LenProperties DEF IInv, TypeInv
<1>3. ASSUME NEW n, Transform(n) PROVE Channel!Next
  <2>1. /\ n \in 1..Len(case.data) - given /\ given' = given + n /\ context \in {"holding", "streaming"}
        /\ UNCHANGED <<case, decompressor>>
    BY <1>3 DEF Transform
  <2>2. IsPrefix(SubSeq(case.data, 1, given), SubSeq(case.data, 1, given'))
    BY <1>2, <2>1, LongerPart
  <2>3. /\ context # "finished" /\ (context' = "finished") \in BOOLEAN
        /\ UNCHANGED <<SubSeq(dec.out, 1, got), outcome \in {"ended", "late"}>> /\ case' = case
    BY <2>1 DEF decompressor
  <2>4. Channel!Send
    BY <2>2, <2>3 DEF Channel!Send, Channel!IsPrefix, IsPrefix
  <2>5. QED
    BY <2>4 DEF Channel!Next
<1>4. CASE Flush
  BY <1>1, <1>4 DEF Flush, decompressor
<1>5. CASE Finish
  <2>1. UNCHANGED <<case, given, decompressor>> /\ context \in {"holding", "streaming"}
    BY <1>5 DEF Finish
  <2>2. IsPrefix(SubSeq(case.data, 1, given), SubSeq(case.data, 1, given'))
    BY <1>2, <2>1, LongerPart
  <2>3. /\ context # "finished" /\ (context' = "finished") \in BOOLEAN
        /\ UNCHANGED <<SubSeq(dec.out, 1, got), outcome \in {"ended", "late"}>> /\ case' = case
    BY <2>1 DEF decompressor
  <2>4. Channel!Send
    BY <2>2, <2>3 DEF Channel!Send, Channel!IsPrefix, IsPrefix
  <2>5. QED
    BY <2>4 DEF Channel!Next
<1>6. CASE EmitMetadata
  BY <1>1, <1>6 DEF EmitMetadata, decompressor
<1>7. CASE EncoderStep
  <2>1. PICK room \in case.rooms : EncoderCall(room)
    BY <1>7 DEF EncoderStep
  <2>2. UNCHANGED <<case, given, decompressor>> /\ context' \in {context, "failed"}
    BY <2>1 DEF EncoderCall
  <2>3. context' # "failed"
    BY DEF IInv, TypeInv
  <2>4. QED
    BY <1>1, <2>2, <2>3 DEF decompressor
<1>8. CASE Follow
  BY <1>1, <1>8 DEF Follow, decompressor
<1>9. CASE Receive
  <2>1. /\ UNCHANGED <<case, compressor, dec, got>> /\ outcome \in {"open", "ended"}
        /\ outcome' = IF outcome = "ended" THEN "late" ELSE outcome
    BY <1>9 DEF Receive, Decompress
  <2>2. QED
    BY <2>1 DEF Channel!vars, compressor
<1>10. CASE DecoderFinish
  BY <1>1, <1>10 DEF DecoderFinish, compressor
<1>11. CASE DecoderStep
  <2>1. PICK size \in case.drains : DecoderCall(size)
    BY <1>11 DEF DecoderStep
  <2>2. /\ again /\ dec' = Decode(dec, wire, fed - dec.next_in, Least(size, Remaining + 1))
        /\ outcome' # "late" /\ UNCHANGED <<case, compressor>>
        /\ got' \in {got, Len(dec'.out)}
    BY <2>1 DEF DecoderCall
  <2>3. dec'.out \in Seq(Byte) /\ IsPrefix(dec.out, dec'.out)
    BY <2>2, DecoderContract DEF IInv
  <2>4. outcome = "open"
    BY <2>2 DEF IInv, DecoderInv
  <2>5. Len(dec.out) <= Len(dec'.out) /\ Len(dec'.out) \in Nat
    BY <1>2, <2>3, PrefixOrder, LenProperties
  <2>6. SubSeq(dec.out, 1, got) = SubSeq(dec'.out, 1, got)
    BY <1>2, <2>3, FrontOfPrefix
  <2>7. IsPrefix(SubSeq(dec'.out, 1, got), SubSeq(dec'.out, 1, got'))
    <3>1. got \in Nat /\ got' \in Nat /\ got <= got' /\ got' <= Len(dec'.out)
      BY <1>2, <2>2, <2>5
    <3>2. QED
      BY <2>3, <3>1, LongerPart
  <2>8. /\ IsPrefix(SubSeq(dec.out, 1, got), SubSeq(dec'.out, 1, got'))
        /\ IsPrefix(SubSeq(dec'.out, 1, got'), SubSeq(case.data, 1, given))
        /\ outcome' = "ended" =>
                context = "finished" /\ SubSeq(dec'.out, 1, got') = SubSeq(case.data, 1, given)
    BY <2>2, <2>6, <2>7 DEF ReceivedInv, Received, Sent, compressor
  <2>9. /\ outcome \notin {"ended", "late"} /\ (outcome' \in {"ended", "late"}) \in BOOLEAN
        /\ (outcome' \in {"ended", "late"}) => outcome' = "ended"
        /\ UNCHANGED <<case, given, context>>
    BY <2>2, <2>4 DEF compressor
  <2>10. Channel!Receive
    BY <2>8, <2>9 DEF Channel!Receive, Channel!IsPrefix, IsPrefix
  <2>11. QED
    BY <2>10 DEF Channel!Next
<1>12. CASE UNCHANGED vars
  BY <1>1, <1>12 DEF vars
<1>13. QED
  BY <1>3, <1>4, <1>5, <1>6, <1>7, <1>8, <1>9, <1>10, <1>11, <1>12 DEF Next

(* Whatever the data, the chunks, the rooms, the quality and the dictionary: *)
(* the two contexts and the wire are a channel of bytes.                    *)
THEOREM ChannelHolds == Spec /\ []CodecKeepsContract => IsChannel
<1>1. Init => Channel!Init
  BY ChannelInit
<1>2. IInv => ReceivedInv
  BY ReceivedIsSent
<1>3. IInv /\ IInv' /\ ReceivedInv' /\ CodecKeepsContract /\ [Next]_vars => [Channel!Next]_Channel!vars
  BY ChannelNext
<1>4. QED
  BY <1>1, <1>2, <1>3, InvHolds, PTL DEF Spec, IsChannel, Channel!Spec

-----------------------------------------------------------------------------
(* The ring buffer of the encoder: numbers and their remainders.            *)

\* Quotient and remainder.
LEMMA DivMod == ASSUME NEW a \in Nat, NEW s \in Nat \ {0}
  PROVE a \div s \in Nat /\ a % s \in 0..s-1 /\ a = s * (a \div s) + (a % s)
BY SMT

\* They are unique.
LEMMA Quotient ==
  ASSUME NEW s \in Nat \ {0}, NEW q \in Int, NEW t \in Int, NEW r \in 0..s-1, NEW u \in 0..s-1,
         s * q + r = s * t + u
  PROVE q = t /\ r = u
<1>1. ASSUME NEW x \in Int, NEW y \in Int, NEW v \in 0..s-1, NEW w \in 0..s-1, x < y
      PROVE  s * x + v # s * y + w
  <2>1. s * y >= s * (x + 1)
    BY <1>1
  <2>2. s * (x + 1) = s * x + s
    OBVIOUS
  <2>. QED BY <1>1, <2>1, <2>2
<1>. QED BY <1>1

\* The remainder of a number that is given as quotient and remainder.
LEMMA ModIs == ASSUME NEW s \in Nat \ {0}, NEW q \in Nat, NEW r \in 0..s-1
  PROVE (s * q + r) % s = r
<1> DEFINE a == s * q + r
           t == a \div s
           u == a % s
<1>1. s * q \in Nat
  OBVIOUS
<1>2. a \in Nat
  BY <1>1
<1> HIDE DEF a
<1>3. t \in Nat /\ u \in 0..s-1 /\ a = s * t + u
  BY <1>2, DivMod
<1> HIDE DEF t, u
<1>4. s * q + r = s * t + u
  BY <1>3 DEF a
<1>5. r = u
  BY <1>3, <1>4, Quotient
<1>. QED BY <1>5 DEF a, u

\* j further on.
LEMMA ModPlus == ASSUME NEW s \in Nat \ {0}, NEW a \in Nat, NEW j \in 0..s
  PROVE (a + j) % s = IF (a % s) + j < s THEN (a % s) + j ELSE (a % s) + j - s
<1> DEFINE q == a \div s
           r == a % s
<1>1. q \in Nat /\ r \in 0..s-1 /\ a = s * q + r
  BY DivMod
<1> HIDE DEF q, r
<1>2. CASE r + j < s
  <2>1. a + j = s * q + (r + j) /\ r + j \in 0..s-1
    BY <1>1, <1>2
  <2>. QED BY <2>1, <1>1, <1>2, ModIs DEF r
<1>3. CASE ~(r + j < s)
  <2>1. s * (q + 1) = s * q + s
    BY <1>1
  <2>2. a + j = s * (q + 1) + (r + j - s) /\ r + j - s \in 0..s-1 /\ q + 1 \in Nat
    BY <1>1, <1>3, <2>1
  <2>. QED BY <2>2, <1>1, <1>3, ModIs DEF r
<1>. QED BY <1>2, <1>3

\* The same residue modulo a multiple.
LEMMA ModOfMod == ASSUME NEW s \in Nat \ {0}, NEW m \in Nat \ {0}, m % s = 0, NEW a \in Nat
  PROVE (a % m) % s = a % s
<1> DEFINE k == m \div s
           q == a \div m
           r == a % m
           t == r \div s
           u == r % s
<1>1. k \in Nat /\ m = s * k
  BY DivMod
<1>2. q \in Nat /\ r \in Nat /\ a = m * q + r
  BY DivMod
<1> HIDE DEF k, q, r
<1>3. t \in Nat /\ u \in 0..s-1 /\ r = s * t + u
  BY <1>2, DivMod
<1> HIDE DEF t, u
<1>4. m * q = s * (k * q)
  BY <1>1, <1>2
<1>5. k * q + t \in Nat /\ s * (k * q + t) = s * (k * q) + s * t
  BY <1>1, <1>2, <1>3
<1>6. a = s * (k * q + t) + u
  BY <1>2, <1>3, <1>4, <1>5
<1>7. a % s = u
  BY <1>6, <1>5, <1>3, ModIs
<1>. QED BY <1>7 DEF u, r

-----------------------------------------------------------------------------
\* One residue and the position of the input.
LEMMA PlaceBehind == ASSUME NEW S \in Nat \ {0}, NEW L \in Nat, NEW n \in 0..S,
          NEW p \in Nat, p < L, p >= L + n - S
  PROVE LET c == p % S  m == L % S IN
        /\ c \in 0..S - 1 /\ m \in 0..S - 1
        /\ \/ c < m /\ c >= m + n - S
           \/ c >= m + n
<1> DEFINE c == p % S
           m == L % S
<1>1. c \in 0..S - 1 /\ m \in 0..S - 1
  BY DivMod
<1> PICK j \in 0..S : j >= 1 /\ p + j = L /\ j <= S - n
  <2>1. L - p \in 0..S
    OBVIOUS
  <2>. QED BY <2>1
<1>2. j >= 1 /\ p + j = L /\ j <= S - n
  OBVIOUS
<1>3. (p + j) % S = IF (p % S) + j < S THEN (p % S) + j ELSE (p % S) + j - S
  BY <1>2, ModPlus
<1>4. m = IF c + j < S THEN c + j ELSE c + j - S
  BY <1>2, <1>3
<1> HIDE DEF c, m
<1>5. \/ c < m /\ c >= m + n - S
      \/ c >= m + n
  BY <1>1, <1>2, <1>4
<1>. QED BY <1>1, <1>5 DEF c, m

\* What a part of a sequence is.
LEMMA PartIs == ASSUME NEW s \in Seq(Nat), NEW a \in 1..Len(s) + 1, NEW b \in 0..Len(s), a <= b + 1
  PROVE /\ SubSeq(s, a, b) \in Seq(Nat) /\ Len(SubSeq(s, a, b)) = b - a + 1
        /\ \A i \in 1..b - a + 1 : SubSeq(s, a, b)[i] = s[a + i - 1]
  BY SubSeqProperties, LenProperties

\* What a copy writes, and what it leaves.
LEMMA CopiedIs == ASSUME NEW buffer \in Seq(Nat), NEW bytes \in Seq(Nat), NEW at \in Nat,
          at + Len(bytes) <= Len(buffer)
  PROVE LET b == Copied(buffer, at, bytes) IN
        /\ b \in Seq(Nat) /\ Len(b) = Len(buffer)
        /\ \A i \in 1..Len(bytes) : b[at + i] = bytes[i]
        /\ \A i \in 1..Len(buffer) : i <= at \/ i > at + Len(bytes) => b[i] = buffer[i]
<1> DEFINE x == SubSeq(buffer, 1, at)
           y == SubSeq(buffer, at + Len(bytes) + 1, Len(buffer))
           n == Len(bytes)
           m == Len(buffer) - at - Len(bytes)
           z == x \o bytes
           b == z \o y
<1>3. n \in Nat /\ m \in Nat /\ Len(buffer) = at + n + m
  BY LenProperties
<1>1. x \in Seq(Nat) /\ Len(x) = at /\ \A i \in 1..at : x[i] = buffer[i]
  <2>1. 1 \in 1..Len(buffer) + 1 /\ at \in 0..Len(buffer) /\ 1 <= at + 1
    BY <1>3
  <2>2. /\ x \in Seq(Nat) /\ Len(x) = at - 1 + 1
        /\ \A i \in 1..at - 1 + 1 : x[i] = buffer[1 + i - 1]
    BY <2>1, PartIs, Zenon
  <2>3. at - 1 + 1 = at /\ \A i \in 1..at : 1 + i - 1 = i
    OBVIOUS
  <2> HIDE DEF x
  <2>. QED BY <2>2, <2>3
<1>2. y \in Seq(Nat) /\ Len(y) = m /\ \A i \in 1..m : y[i] = buffer[at + n + i]
  <2> DEFINE from == at + n + 1
             to == Len(buffer)
  <2>1. from \in 1..Len(buffer) + 1 /\ to \in 0..Len(buffer) /\ from <= to + 1
    BY <1>3
  <2>2. /\ y \in Seq(Nat) /\ Len(y) = to - from + 1
        /\ \A i \in 1..to - from + 1 : y[i] = buffer[from + i - 1]
    BY <2>1, PartIs, Zenon
  <2>3. to - from + 1 = m /\ \A i \in 1..m : from + i - 1 = at + n + i
    BY <1>3
  <2> HIDE DEF y, m, from, to
  <2>. QED BY <2>2, <2>3
<1>a. x \in Seq(Nat) /\ y \in Seq(Nat)
  BY <1>1, <1>2
<1> HIDE DEF x, y
<1>4. /\ z \in Seq(Nat) /\ Len(z) = Len(x) + Len(bytes)
      /\ \A i \in 1..Len(x) + Len(bytes) : z[i] = IF i <= Len(x) THEN x[i] ELSE bytes[i - Len(x)]
  BY <1>a, ConcatProperties
<1>b. z \in Seq(Nat)
  BY <1>4
<1> HIDE DEF z
<1>5. /\ b \in Seq(Nat) /\ Len(b) = Len(z) + Len(y)
      /\ \A i \in 1..Len(z) + Len(y) : b[i] = IF i <= Len(z) THEN z[i] ELSE y[i - Len(z)]
  BY <1>a, <1>b, ConcatProperties
<1> HIDE DEF b, n, m
<1>6. Len(x) = at /\ Len(bytes) = n /\ Len(y) = m /\ Len(z) = at + n /\ Len(b) = at + n + m
  BY <1>1, <1>2, <1>3, <1>4, <1>5 DEF n
<1>7. \A i \in 1..at + n : z[i] = IF i <= at THEN x[i] ELSE bytes[i - at]
  BY <1>4, <1>6
<1>8. \A i \in 1..at + n + m : b[i] = IF i <= at + n THEN z[i] ELSE y[i - (at + n)]
  BY <1>5, <1>6
<1>9. ASSUME NEW i \in 1..n PROVE b[at + i] = bytes[i]
  <2>1. at + i \in 1..at + n /\ at + i \in 1..at + n + m /\ at + i <= at + n /\ ~(at + i <= at)
        /\ (at + i) - at = i
    BY <1>3
  <2>2. b[at + i] = z[at + i]
    BY <2>1, <1>8
  <2>3. z[at + i] = bytes[(at + i) - at]
    BY <2>1, <1>7
  <2>. QED BY <2>1, <2>2, <2>3
<1>10. ASSUME NEW i \in 1..Len(buffer), i <= at \/ i > at + n PROVE b[i] = buffer[i]
  <2>1. CASE i <= at
    <3>1. i \in 1..at /\ i \in 1..at + n /\ i \in 1..at + n + m /\ i <= at + n
      BY <2>1, <1>3
    <3>2. b[i] = z[i] /\ z[i] = x[i] /\ x[i] = buffer[i]
      BY <3>1, <2>1, <1>1, <1>7, <1>8
    <3>. QED BY <3>2
  <2>2. CASE i > at + n
    <3>1. PICK k \in 1..m : i = at + n + k
      <4>1. i - (at + n) \in 1..m
        BY <2>2, <1>3
      <4>. QED BY <4>1, <1>3
    <3>2. i \in 1..at + n + m /\ ~(i <= at + n) /\ i - (at + n) = k
      BY <3>1, <1>3
    <3>3. b[i] = y[i - (at + n)]
      BY <3>2, <1>8
    <3>4. y[k] = buffer[at + n + k]
      BY <1>2
    <3>. QED BY <3>1, <3>2, <3>3, <3>4
  <2>. QED BY <1>10, <2>1, <2>2
<1>. QED BY <1>3, <1>5, <1>6, <1>9, <1>10 DEF b, x, y, z, n, Copied

-----------------------------------------------------------------------------
\* 2^(Lap + 1) counts the subsets of a set.
LEMMA LapIsPositive == LapSize \in Nat \ {0}
<1> DEFINE bits == 1..Lap + 1
<1>1. IsFiniteSet(bits) /\ Cardinality(bits) = Lap + 1
  BY FS_Interval, LapAssumption
<1>2. IsFiniteSet(SUBSET bits) /\ Cardinality(SUBSET bits) = 2^(Lap + 1)
  BY <1>1, FS_SUBSET
<1>3. Cardinality(SUBSET bits) \in Nat
  BY <1>2, FS_CardinalityType
<1>4. SUBSET bits # {}
  OBVIOUS
<1>5. Cardinality(SUBSET bits) # 0
  BY <1>2, <1>4, FS_EmptySet
<1>. QED BY <1>2, <1>3, <1>5 DEF LapSize

\* The ring buffer is not larger than a lap of its positions.
LEMMA RingInLap == ASSUME NEW S \in Nat \ {0}, LapSize % S = 0
  PROVE LapSize >= S
<1>1. SUFFICES ASSUME LapSize < S PROVE FALSE
  BY LapIsPositive
<1>2. LapSize \in 0..S - 1 /\ S * 0 + LapSize = LapSize
  BY <1>1, LapIsPositive
<1>3. (S * 0 + LapSize) % S = LapSize
  BY <1>2, ModIs
<1>. QED BY <1>2, <1>3, LapIsPositive

\* The remainder of a small number.
LEMMA ModSmall == ASSUME NEW s \in Nat \ {0}, NEW a \in 0..s - 1 PROVE a % s = a
<1>1. (s * 0 + a) % s = a
  BY ModIs
<1>. QED BY <1>1

\* The position that is stored agrees with that of the input.
InStep(lap, S, p, L) ==
    IF p < lap THEN p = L ELSE L >= lap /\ p < 2 * lap /\ p % S = L % S
Further(lap, p, n) ==
    LET sum == (p % lap) + (n % lap) IN IF p >= lap THEN (sum % lap) + lap ELSE sum

\* They agree n bytes further on.
LEMMA Advances == ASSUME NEW S \in Nat \ {0}, NEW lap \in Nat \ {0}, lap % S = 0, lap >= S,
          NEW p \in Nat, NEW L \in Nat, NEW n \in 0..S - 1, InStep(lap, S, p, L)
  PROVE Further(lap, p, n) \in Nat /\ InStep(lap, S, Further(lap, p, n), L + n)
<1>0. IF p < lap THEN p = L ELSE L >= lap /\ p < 2 * lap /\ p % S = L % S
  BY DEF InStep
<1>z. SUFFICES
        LET sum == (p % lap) + (n % lap)
            next == IF p >= lap THEN (sum % lap) + lap ELSE sum
        IN  /\ next \in Nat
            /\ IF next < lap THEN next = L + n
               ELSE L + n >= lap /\ next < 2 * lap /\ next % S = (L + n) % S
  BY Zenon DEF InStep, Further
<1>1. n % lap = n
  BY ModSmall
<1>2. CASE p < lap
  <2>1. p % lap = p
    BY <1>2, ModSmall
  <2>. QED BY <1>0, <1>1, <1>2, <2>1
<1>3. CASE p >= lap
  <2>1. PICK q \in 0..lap - 1 : q = p % lap
    BY DivMod
  <2>2. q % S = L % S
    <3>1. (p % lap) % S = p % S
      BY ModOfMod, Zenon
    <3>. QED BY <1>0, <1>3, <2>1, <3>1
  <2>3. PICK sum \in Nat : sum = q + n
    OBVIOUS
  <2>4. PICK r \in 0..lap - 1 : r = sum % lap
    BY DivMod
  <2>5. r % S = sum % S
    <3>1. (sum % lap) % S = sum % S
      BY ModOfMod, Zenon
    <3>. QED BY <2>4, <3>1
  <2>6. (q + n) % S = (L + n) % S
    <3>. n \in 0..S /\ q \in Nat
      OBVIOUS
    <3>1. (q + n) % S = IF (q % S) + n < S THEN (q % S) + n ELSE (q % S) + n - S
      BY ModPlus, Zenon
    <3>2. (L + n) % S = IF (L % S) + n < S THEN (L % S) + n ELSE (L % S) + n - S
      BY ModPlus, Zenon
    <3>. QED BY <2>2, <3>1, <3>2
  <2>7. (r + lap) % S = r % S
    <3>1. PICK a \in Nat : lap = S * a
      <4>1. lap \in Nat
        OBVIOUS
      <4>2. lap \div S \in Nat /\ lap = S * (lap \div S) + (lap % S)
        BY <4>1, DivMod, Zenon
      <4>3. lap = S * (lap \div S)
        BY <4>2
      <4>. QED BY <4>2, <4>3
    <3>2. PICK b \in Nat, c \in 0..S - 1 : r = S * b + c
      <4>1. r \in Nat
        OBVIOUS
      <4>2. r \div S \in Nat /\ r % S \in 0..S - 1 /\ r = S * (r \div S) + (r % S)
        BY <4>1, DivMod, Zenon
      <4>. QED BY <4>2, Zenon
    <3>3. S * (a + b) = S * a + S * b /\ a + b \in Nat
      OBVIOUS
    <3>4. r + lap = S * (a + b) + c
      BY <3>1, <3>2, <3>3
    <3>5. (S * (a + b) + c) % S = c
      BY <3>3, ModIs
    <3>6. (S * b + c) % S = c
      BY ModIs
    <3>. QED BY <3>2, <3>4, <3>5, <3>6
  <2>8. (r + lap) % S = (L + n) % S
    BY <2>3, <2>5, <2>6, <2>7
  <2>9. ((p % lap) + (n % lap)) % lap = r
    BY <1>1, <2>1, <2>3, <2>4
  <2>. QED BY <1>0, <1>3, <2>8, <2>9
<1>. QED BY <1>2, <1>3

\* The three copies of a write to a whole buffer, from place m on.
TailCopied(b, S, T, m, bytes) ==
    IF m >= T THEN b ELSE Copied(b, S + m, SubSeq(bytes, 1, Least(Len(bytes), T - m)))
AllCopied(b, S, T, m, bytes) ==
    LET tail == TailCopied(b, S, T, m, bytes)
        first == Copied(tail, m, SubSeq(bytes, 1, Least(Len(bytes), S + T - m)))
    IN  IF m + Len(bytes) <= S THEN first
        ELSE Copied(first, 0, SubSeq(bytes, S - m + 1, Len(bytes)))

\* The bytes written are at their places from m on, and the others as before.
LaidOut(last, b0, S, T, m, bytes) ==
    LET n == Len(bytes)
    IN  /\ last \in Seq(Nat) /\ Len(last) = Len(b0)
        /\ \A i \in 0..n - 1 :
              /\ last[(IF m + i < S THEN m + i ELSE m + i - S) + 1] = bytes[i + 1]
              /\ m + i < T => last[S + (m + i) + 1] = bytes[i + 1]
              /\ m + i >= S => last[S + (m + i - S) + 1] = bytes[i + 1]
        /\ \A c \in 0..S - 1 : (c < m /\ c >= m + n - S) \/ c >= m + n =>
              last[c + 1] = b0[c + 1] /\ (c < T => last[S + c + 1] = b0[S + c + 1])

\* What the writes leave in a whole buffer, from place m on.
LEMMA WritesAreLaidOut ==
  ASSUME NEW S \in Nat, NEW T \in Nat, T >= 2, S >= 2 * T, NEW m \in 0..S - 1,
         NEW b0 \in Seq(Nat), Len(b0) = S + T + Slackness,
         NEW bytes \in Seq(Nat), NEW n \in 0..T, n = Len(bytes)
  PROVE LaidOut(AllCopied(b0, S, T, m, bytes), b0, S, T, m, bytes)
<1> DEFINE k == Least(n, T - m)
           start == SubSeq(bytes, 1, k)
           tail == IF m >= T THEN b0 ELSE Copied(b0, S + m, start)
           whole == SubSeq(bytes, 1, Least(n, S + T - m))
           first == Copied(tail, m, whole)
           rest == SubSeq(bytes, S - m + 1, n)
           last == IF m + n <= S THEN first ELSE Copied(first, 0, rest)
<1>0. Slackness = 7
  BY DEF Slackness
<1>1. /\ tail \in Seq(Nat) /\ Len(tail) = S + T + 7
      /\ \A i \in 0..n - 1 : m + i < T => tail[S + (m + i) + 1] = bytes[i + 1]
      /\ \A x \in 0..S + T - 1 : x < S + m \/ x >= S + m + n => tail[x + 1] = b0[x + 1]
  <2>1. CASE m >= T
    BY <2>1, <1>0
  <2>2. CASE m < T
    <3>1. k \in 0..n /\ k <= T - m /\ (k = n \/ k = T - m)
      BY <2>2 DEF Least
    <3> HIDE DEF k
    <3>2. start \in Seq(Nat) /\ Len(start) = k /\ \A i \in 1..k : start[i] = bytes[i]
      <4>1. n \in Nat /\ 1 \in 1..Len(bytes) + 1 /\ k \in 0..Len(bytes) /\ 1 <= k + 1
        BY <3>1
      <4>2. /\ start \in Seq(Nat) /\ Len(start) = k - 1 + 1
            /\ \A i \in 1..k - 1 + 1 : start[i] = bytes[1 + i - 1]
        BY <4>1, PartIs, Zenon
      <4>3. k - 1 + 1 = k /\ \A i \in 1..k : 1 + i - 1 = i
        BY <4>1
      <4> HIDE DEF start
      <4>. QED BY <4>2, <4>3
    <3> HIDE DEF start
    <3>3. S + m \in Nat /\ S + m + Len(start) <= Len(b0)
      BY <3>1, <3>2, <1>0
    <3>4. LET b == Copied(b0, S + m, start) IN
          /\ b \in Seq(Nat) /\ Len(b) = Len(b0)
          /\ \A i \in 1..Len(start) : b[(S + m) + i] = start[i]
          /\ \A i \in 1..Len(b0) : i <= S + m \/ i > (S + m) + Len(start) => b[i] = b0[i]
      BY <3>2, <3>3, CopiedIs
    <3> DEFINE b == Copied(b0, S + m, start)
    <3>5. tail = b
      BY <2>2
    <3> HIDE DEF tail
    <3>6. ASSUME NEW i \in 0..n - 1, m + i < T PROVE tail[S + (m + i) + 1] = bytes[i + 1]
      <4>1. i + 1 \in 1..k
        BY <3>1, <3>6
      <4>2. b[(S + m) + (i + 1)] = start[i + 1] /\ start[i + 1] = bytes[i + 1]
        BY <3>2, <3>4, <4>1
      <4>3. S + (m + i) + 1 = (S + m) + (i + 1)
        OBVIOUS
      <4>. QED BY <3>5, <4>2, <4>3
    <3>7. ASSUME NEW x \in 0..S + T - 1, x < S + m \/ x >= S + m + n PROVE tail[x + 1] = b0[x + 1]
      <4>1. x + 1 \in 1..Len(b0) /\ (x + 1 <= S + m \/ x + 1 > (S + m) + Len(start))
        <5>1. x + 1 \in 1..Len(b0)
          BY <1>0
        <5>2. k \in 0..n /\ Len(start) = k
          BY <3>1, <3>2
        <5>3. x + 1 <= S + m \/ x + 1 > (S + m) + Len(start)
          BY <3>7, <5>2
        <5>. QED BY <5>1, <5>3
      <4>. QED BY <3>4, <3>5, <4>1
    <3>8. tail \in Seq(Nat) /\ Len(tail) = S + T + 7
      BY <3>4, <3>5, <1>0
    <3>. QED BY <3>6, <3>7, <3>8
  <2>3. m >= T \/ m < T
    OBVIOUS
  <2>. QED BY <2>1, <2>2, <2>3, Zenon
<1> HIDE DEF tail, start, k
<1>2. whole \in Seq(Nat) /\ Len(whole) = n /\ \A i \in 1..n : whole[i] = bytes[i]
  <2>1. Least(n, S + T - m) = n
    BY DEF Least
  <2>2. SubSeq(bytes, 1, n) \in Seq(Nat) /\ Len(SubSeq(bytes, 1, n)) = n
        /\ \A i \in 1..n : SubSeq(bytes, 1, n)[i] = bytes[i]
    BY PartIs
  <2>. QED BY <2>1, <2>2
<1> HIDE DEF whole
<1>3. m + Len(whole) <= Len(tail)
  BY <1>1, <1>2
<1>4. /\ first \in Seq(Nat) /\ Len(first) = S + T + 7
      /\ \A i \in 1..n : first[m + i] = bytes[i]
      /\ \A i \in 1..S + T + 7 : i <= m \/ i > m + n => first[i] = tail[i]
  <2>0. tail \in Seq(Nat) /\ whole \in Seq(Nat) /\ m \in Nat
    BY <1>1, <1>2
  <2>1. /\ first \in Seq(Nat) /\ Len(first) = Len(tail)
        /\ \A i \in 1..Len(whole) : first[m + i] = whole[i]
        /\ \A i \in 1..Len(tail) : i <= m \/ i > m + Len(whole) => first[i] = tail[i]
    BY <2>0, <1>3, CopiedIs
  <2> HIDE DEF first
  <2>. QED BY <2>1, <1>1, <1>2
<1> HIDE DEF first
<1>5. /\ last \in Seq(Nat) /\ Len(last) = S + T + 7
      /\ \A i \in 1..S + T + 7 : i > m + n - S => last[i] = first[i]
      /\ \A i \in 1..m + n - S : last[i] = bytes[S - m + i]
  <2>1. CASE m + n <= S
    <3>1. last = first
      BY <2>1
    <3> HIDE DEF last
    <3>2. \A i \in 1..m + n - S : FALSE
      BY <2>1
    <3>3. last \in Seq(Nat) /\ Len(last) = S + T + 7
      BY <3>1, <1>4, Zenon
    <3>4. \A i \in 1..S + T + 7 : i > m + n - S => last[i] = first[i]
      BY <3>1, Zenon
    <3>5. \A i \in 1..m + n - S : last[i] = bytes[S - m + i]
      BY <3>2, Zenon
    <3>. QED BY <3>3, <3>4, <3>5, Zenon
  <2>2. CASE m + n > S
    <3> DEFINE r == m + n - S
    <3>1. rest \in Seq(Nat) /\ Len(rest) = r /\ \A i \in 1..r : rest[i] = bytes[S - m + i]
      <4>1. S - m + 1 \in 1..Len(bytes) + 1 /\ n \in 0..Len(bytes) /\ S - m + 1 <= n + 1
        BY <2>2
      <4>2. rest \in Seq(Nat) /\ Len(rest) = n - (S - m + 1) + 1
            /\ \A i \in 1..n - (S - m + 1) + 1 : rest[i] = bytes[(S - m + 1) + i - 1]
        BY <4>1, PartIs
      <4>3. n - (S - m + 1) + 1 = r /\ \A i \in 1..r : (S - m + 1) + i - 1 = S - m + i
        OBVIOUS
      <4>. QED BY <4>2, <4>3
    <3> HIDE DEF rest
    <3>2. 0 + Len(rest) <= Len(first)
      BY <3>1, <1>4
    <3>0. first \in Seq(Nat) /\ rest \in Seq(Nat) /\ 0 \in Nat
      BY <3>1, <1>4
    <3> DEFINE b == Copied(first, 0, rest)
    <3>3. /\ b \in Seq(Nat) /\ Len(b) = Len(first)
          /\ \A i \in 1..Len(rest) : b[0 + i] = rest[i]
          /\ \A i \in 1..Len(first) : i <= 0 \/ i > 0 + Len(rest) => b[i] = first[i]
      BY <3>0, <3>2, CopiedIs
    <3>5. last = b
      BY <2>2
    <3> HIDE DEF last, b
    <3>4. \A i \in 1..r : last[i] = bytes[S - m + i]
      BY <3>1, <3>3, <3>5
    <3>. QED BY <3>1, <3>3, <3>4, <3>5, <1>4
  <2>. QED BY <2>1, <2>2
<1> HIDE DEF last
<1>6. ASSUME NEW i \in 0..n - 1
      PROVE  /\ last[(IF m + i < S THEN m + i ELSE m + i - S) + 1] = bytes[i + 1]
             /\ m + i < T => last[S + (m + i) + 1] = bytes[i + 1]
             /\ m + i >= S => last[S + (m + i - S) + 1] = bytes[i + 1]
  <2>1. first[m + (i + 1)] = bytes[i + 1] /\ i + 1 \in 1..n
    <3>1. i + 1 \in 1..n
      OBVIOUS
    <3>. QED BY <3>1, <1>4, Zenon
  <2>2. last[m + (i + 1)] = first[m + (i + 1)]
    <3>1. m + (i + 1) \in 1..S + T + 7 /\ m + (i + 1) > m + n - S
      OBVIOUS
    <3>. QED BY <3>1, <1>5
  <2>3. m + (i + 1) = m + i + 1
    OBVIOUS
  <2>4. last[m + i + 1] = bytes[i + 1]
    BY <2>1, <2>2, <2>3, Zenon
  <2>5. ASSUME m + i >= S PROVE last[m + i - S + 1] = bytes[i + 1]
    <3>1. m + i - S + 1 \in 1..m + n - S /\ S - m + (m + i - S + 1) = i + 1
      BY <2>5
    <3>2. last[m + i - S + 1] = bytes[S - m + (m + i - S + 1)]
      BY <3>1, <1>5
    <3>. QED BY <3>1, <3>2
  <2>6. ASSUME m + i < T PROVE last[S + (m + i) + 1] = bytes[i + 1]
    <3>1. S + (m + i) + 1 \in 1..S + T + 7 /\ S + (m + i) + 1 > m + n - S /\ S + (m + i) + 1 > m + n
      BY <2>6
    <3>2. last[S + (m + i) + 1] = first[S + (m + i) + 1]
      BY <3>1, <1>5
    <3>3. first[S + (m + i) + 1] = tail[S + (m + i) + 1]
      BY <3>1, <1>4
    <3>. QED BY <3>2, <3>3, <2>6, <1>1
  <2>7. m + i >= S => S + (m + i - S) + 1 = m + i + 1
    OBVIOUS
  <2>. QED BY <2>4, <2>5, <2>6, <2>7
<1>7. ASSUME NEW c \in 0..S - 1, (c < m /\ c >= m + n - S) \/ c >= m + n
      PROVE  last[c + 1] = b0[c + 1] /\ (c < T => last[S + c + 1] = b0[S + c + 1])
  <2>1. last[c + 1] = b0[c + 1]
    <3>1. c + 1 \in 1..S + T + 7 /\ c + 1 > m + n - S /\ (c + 1 <= m \/ c + 1 > m + n)
      BY <1>7
    <3>2. last[c + 1] = first[c + 1] /\ first[c + 1] = tail[c + 1]
      BY <3>1, <1>4, <1>5
    <3>3. c \in 0..S + T - 1 /\ c < S + m
      OBVIOUS
    <3>. QED BY <3>2, <3>3, <1>1
  <2>2. ASSUME c < T PROVE last[S + c + 1] = b0[S + c + 1]
    <3>1. S + c + 1 \in 1..S + T + 7 /\ S + c + 1 > m + n - S /\ S + c + 1 > m + n
      BY <1>7, <2>2
    <3>2. last[S + c + 1] = first[S + c + 1] /\ first[S + c + 1] = tail[S + c + 1]
      BY <3>1, <1>4, <1>5
    <3>3. S + c \in 0..S + T - 1 /\ (S + c < S + m \/ S + c >= S + m + n)
      BY <1>7, <2>2
    <3>. QED BY <3>2, <3>3, <1>1
  <2>. QED BY <2>1, <2>2
<1>8. last \in Seq(Nat) /\ Len(last) = Len(b0)
  BY <1>0, <1>5
<1>. QED BY <1>6, <1>7, <1>8
         DEF LaidOut, last, first, tail, whole, rest, start, k, AllCopied, TailCopied

\* The buffer when it becomes whole.
Grown(old, kept, more, at) ==
    LET s == SubSeq(old, 1, kept) \o Zeros(more)
    IN  [[[s EXCEPT ![at - 1] = 0] EXCEPT ![at] = 0] EXCEPT ![at + 1] = 241]

\* A buffer that grows keeps what it has, but for three bytes at the end.
LEMMA GrownKeeps ==
  ASSUME NEW old \in Seq(Nat), NEW kept \in 0..Len(old), NEW more \in Nat, NEW at \in Nat, at >= 2,
         at < kept + more
  PROVE LET g == Grown(old, kept, more, at)
        IN  /\ g \in Seq(Nat) /\ Len(g) = kept + more
            /\ \A i \in 1..kept : i < at - 1 => g[i] = old[i]
<1> DEFINE x == SubSeq(old, 1, kept)
           z == Zeros(more)
           s == x \o z
           g == [[[s EXCEPT ![at - 1] = 0] EXCEPT ![at] = 0] EXCEPT ![at + 1] = 241]
           n == kept + more
<1>1. x \in Seq(Nat) /\ Len(x) = kept /\ \A i \in 1..kept : x[i] = old[i]
  <2>1. Len(old) \in Nat
    BY LenProperties
  <2>. QED BY <2>1, PartIs
<1>2. z \in Seq(Nat) /\ Len(z) = more
  BY DEF Zeros, Fill
<1>3. x \in Seq(Nat) /\ z \in Seq(Nat)
  BY <1>1, <1>2
<1> HIDE DEF x, z
<1>4. /\ s \in Seq(Nat) /\ Len(s) = Len(x) + Len(z)
      /\ \A i \in 1..Len(x) + Len(z) : s[i] = IF i <= Len(x) THEN x[i] ELSE z[i - Len(x)]
  BY <1>3, ConcatProperties
<1> HIDE DEF s
<1>5. s \in [1..n -> Nat] /\ n \in Nat /\ \A i \in 1..kept : s[i] = old[i]
  <2>1. s \in Seq(Nat)
    BY <1>4
  <2>2. s \in [1..Len(s) -> Nat]
    BY <2>1, LenProperties
  <2>3. Len(x) = kept /\ Len(z) = more /\ Len(s) = n
    BY <1>1, <1>2, <1>4
  <2>4. ASSUME NEW i \in 1..kept PROVE s[i] = old[i]
    <3>1. i \in 1..Len(x) + Len(z) /\ i <= Len(x)
      BY <2>3
    <3>2. s[i] = x[i]
      BY <3>1, <1>4
    <3>. QED BY <3>2, <1>1
  <2>5. n \in Nat
    OBVIOUS
  <2>. QED BY <2>2, <2>3, <2>4, <2>5
<1>6. g \in [1..n -> Nat] /\ \A i \in 1..kept : i < at - 1 => g[i] = old[i]
  <2> DEFINE s1 == [s EXCEPT ![at - 1] = 0]
             s2 == [s1 EXCEPT ![at] = 0]
  <2>1. s1 \in [1..n -> Nat] /\ \A i \in 1..n : i < at - 1 => s1[i] = s[i]
    BY <1>5
  <2> HIDE DEF s1
  <2>2. s2 \in [1..n -> Nat] /\ \A i \in 1..n : i < at - 1 => s2[i] = s1[i]
    BY <2>1
  <2> HIDE DEF s2
  <2>3. g = [s2 EXCEPT ![at + 1] = 241]
    BY DEF s1, s2
  <2> HIDE DEF g
  <2>4. g \in [1..n -> Nat] /\ \A i \in 1..n : i < at - 1 => g[i] = s2[i]
    BY <2>2, <2>3
  <2>5. \A i \in 1..kept : i \in 1..n
    OBVIOUS
  <2>. QED BY <1>5, <2>1, <2>2, <2>4, <2>5
<1> HIDE DEF g
<1>7. g \in Seq(Nat) /\ Len(g) = n
  BY <1>5, <1>6
<1>. QED BY <1>6, <1>7 DEF g, s, x, z, Grown

\* Bytes of a whole buffer.
WholeSize(rb) == rb.size + rb.tail_size
\* Before a write that is not small, the buffer is whole.
LEMMA ReadyKeeps ==
  ASSUME NEW rb, NEW data \in Seq(Nat), Fits(rb, data), Holds(rb, data)
  PROVE /\ RingBufferGrow(rb).buffer \in Seq(Nat)
        /\ RingBufferGrow(rb) = [rb EXCEPT !.cur_size = WholeSize(rb), !.buffer = RingBufferGrow(rb).buffer]
        /\ Len(RingBufferGrow(rb).buffer) = WholeSize(rb) + Slackness
        /\ Holds(RingBufferGrow(rb), data)
<1> DEFINE S == rb.size
           T == rb.tail_size
           L == Len(data)
           total == WholeSize(rb)
<1>1. /\ S \in Nat /\ T \in Nat /\ T >= 2 /\ S >= 2 * T /\ L \in Nat
      /\ rb \in [size : Nat, tail_size : Nat, cur_size : Nat, pos : Nat, buffer : Seq(Nat)]
      /\ total = S + T
  BY LenProperties DEF Fits, WholeSize
<1>2. CASE ~(rb.cur_size < total)
  <2>1. RingBufferGrow(rb) = rb
    BY <1>1, <1>2 DEF RingBufferGrow, WholeSize
  <2>2. rb.cur_size = total /\ Len(rb.buffer) = total + Slackness
    BY <1>1, <1>2 DEF Fits, WholeSize
  <2>. QED BY <1>1, <2>1, <2>2
<1>3. CASE rb.cur_size < total
  <2> DEFINE kept == Least(Len(rb.buffer), total)
             more == total + Slackness - kept
             g == Grown(rb.buffer, kept, more, S)
  <2>1. L < T /\ Len(rb.buffer) \in Nat /\ L <= Len(rb.buffer)
    <3>1. CASE data = <<>>
      BY <1>1, <3>1, LenProperties
    <3>2. CASE rb.cur_size = L /\ L < T /\ Len(rb.buffer) = rb.cur_size + Slackness
      BY <1>1, <3>2 DEF Slackness
    <3>. QED BY <1>1, <1>3, <3>1, <3>2 DEF Fits
  <2>2. kept \in 0..Len(rb.buffer) /\ kept >= L /\ kept <= total
    BY <1>1, <2>1 DEF Least
  <2>3. RingBufferGrow(rb) = [rb EXCEPT !.cur_size = total, !.buffer = g]
    <3> DEFINE b == RingBufferInitBuffer(rb, total)
               s == SubSeq(rb.buffer, 1, kept) \o Zeros(more)
    <3>1. b = [rb EXCEPT !.cur_size = total, !.buffer = s]
      BY Zenon DEF RingBufferInitBuffer
    <3>2. RingBufferGrow(rb) =
            [b EXCEPT !.buffer = [@ EXCEPT ![S - 1] = 0, ![S] = 0, ![S + 1] = 241]]
      BY <1>1, <1>3, SMT DEF RingBufferGrow, WholeSize
    <3> HIDE DEF s, b
    <3>3. b.buffer = s
      BY <1>1, <3>1
    <3>4. g = [s EXCEPT ![S - 1] = 0, ![S] = 0, ![S + 1] = 241]
      BY DEF Grown, s
    <3> HIDE DEF g
    <3>5. RingBufferGrow(rb) = [b EXCEPT !.buffer = g]
      BY <3>2, <3>3, <3>4, <1>1, <3>1
    <3>. QED BY <1>1, <3>1, <3>5
  <2> HIDE DEF kept
  <2>4. more \in Nat /\ kept + more = total + Slackness
    BY <1>1, <2>1, <2>2 DEF Slackness
  <2> HIDE DEF more
  <2>5. rb.buffer \in Seq(Nat) /\ S < kept + more /\ S >= 2 /\ S \in Nat
    BY <1>1, <2>4 DEF Slackness
  <2>a. /\ L \in Nat /\ T \in Nat /\ S \in Nat /\ T >= 2 /\ S >= 2 * T /\ L < T
        /\ kept \in Nat /\ kept >= L
    BY <1>1, <2>1, <2>2
  <2>b. more \in Nat /\ kept \in 0..Len(rb.buffer)
    BY <2>2, <2>4
  <2> HIDE DEF L, T, S
  <2>6. /\ g \in Seq(Nat) /\ Len(g) = kept + more
        /\ \A i \in 1..kept : i < S - 1 => g[i] = rb.buffer[i]
    BY <2>b, <2>5, GrownKeeps
  <2> HIDE DEF g
  <2>7. RingBufferGrow(rb).buffer = g /\ RingBufferGrow(rb).size = S /\ RingBufferGrow(rb).tail_size = T
    BY <1>1, <2>3 DEF S, T
  <2>8. Holds(RingBufferGrow(rb), data)
    <3> SUFFICES ASSUME NEW p \in Kept(S, data) PROVE AtPlace(g, S, T, data, p)
      BY <2>7 DEF Holds
    <3>1. p \in 0..L - 1
      BY <2>a DEF Kept, Most, L
    <3>2. p % S = p
      <4>1. S \in Nat \ {0} /\ p \in 0..S - 1
        BY <2>a, <3>1
      <4>. QED BY <4>1, ModSmall
    <3>3. p + 1 \in 1..kept /\ p + 1 < S - 1 /\ ~(p >= S)
      BY <2>a, <3>1
    <3>4. rb.buffer[(p % S) + 1] = data[p + 1]
      BY DEF Holds, AtPlace, S
    <3>. QED BY <2>6, <3>2, <3>3, <3>4 DEF AtPlace
  <2>9. Len(g) = total + Slackness
    BY <2>4, <2>6
  <2>. QED BY <2>3, <2>6, <2>7, <2>8, <2>9
<1>. QED BY <1>2, <1>3

\* A write that is not a small first one, as its copies to a whole buffer.
LEMMA LargeWriteIs ==
  ASSUME NEW rb, NEW data \in Seq(Nat), NEW bytes \in Seq(Nat), Fits(rb, data), Holds(rb, data),
         ~(rb.pos = 0 /\ Len(bytes) < rb.tail_size)
  PROVE LET S == rb.size
            T == rb.tail_size
        IN  RingBufferWrite(rb, bytes) =
              [rb EXCEPT !.cur_size = S + T,
                         !.pos = NextPosition(rb.pos, Len(bytes)),
                         !.buffer = AllCopied(RingBufferGrow(rb).buffer, S, T, rb.pos % S, bytes)]
<1> DEFINE S == rb.size
           T == rb.tail_size
           m == rb.pos % S
           r == RingBufferGrow(rb)
           b0 == r.buffer
           tail == TailCopied(b0, S, T, m, bytes)
           ready == RingBufferWriteTail(r, bytes)
<1>1. rb \in [size : Nat, tail_size : Nat, cur_size : Nat, pos : Nat, buffer : Seq(Nat)]
  BY DEF Fits
<1>2. r = [rb EXCEPT !.cur_size = S + T, !.buffer = b0]
  BY ReadyKeeps DEF WholeSize
<1> HIDE DEF r, b0
<1>3. r.size = S /\ r.tail_size = T /\ r.pos = rb.pos /\ r.buffer = b0
  BY <1>1, <1>2
<1>4. ready = [r EXCEPT !.buffer = tail]
  BY <1>1, <1>2, <1>3 DEF RingBufferWriteTail, TailCopied
<1>5. ready = [rb EXCEPT !.cur_size = S + T, !.buffer = tail]
  BY <1>1, <1>2, <1>4
<1> DEFINE n == Len(bytes)
           next == NextPosition(rb.pos, n)
           Final(t) == LET first == Copied(t, m, SubSeq(bytes, 1, Least(n, S + T - m)))
                      IN  IF m + n <= S THEN first
                          ELSE Copied(first, 0, SubSeq(bytes, S - m + 1, n))
<1>6. RingBufferWrite(rb, bytes) = [ready EXCEPT !.pos = next, !.buffer = Final(ready.buffer)]
  BY DEF RingBufferWrite, r
<1>7. ready.buffer = tail
  BY <1>1, <1>5
<1>8. Final(tail) = AllCopied(b0, S, T, m, bytes)
  BY DEF AllCopied
<1> HIDE DEF Final, next, ready, tail
<1>9. RingBufferWrite(rb, bytes) =
        [rb EXCEPT !.cur_size = S + T, !.pos = next, !.buffer = Final(tail)]
  BY <1>1, <1>5, <1>6, <1>7
<1>. QED BY <1>8, <1>9 DEF next, r, b0

\* The bytes of the input and the bytes written are where a reader looks for them.
LEMMA LargeWriteHolds ==
  ASSUME NEW S \in Nat, NEW T \in Nat, T >= 2, S >= 2 * T,
         NEW data \in Seq(Nat), NEW bytes \in Seq(Nat), Len(bytes) <= T,
         NEW b0 \in Seq(Nat), Len(b0) = S + T + Slackness,
         \A q \in Kept(S, data) : AtPlace(b0, S, T, data, q),
         NEW p \in Kept(S, data \o bytes)
  PROVE AtPlace(AllCopied(b0, S, T, Len(data) % S, bytes), S, T, data \o bytes, p)
<1> DEFINE d == data \o bytes
<1>h. p \in Kept(S, d)
  OBVIOUS
<1> PICK L \in Nat : L = Len(data)
  BY LenProperties
<1> PICK n \in 0..T : n = Len(bytes)
  <2>1. Len(bytes) \in Nat
    BY LenProperties
  <2>. QED BY <2>1
<1> PICK m \in 0..S - 1 : m = L % S
  <2>1. S \in Nat \ {0}
    OBVIOUS
  <2>. QED BY <2>1, DivMod
<1> DEFINE last == AllCopied(b0, S, T, m, bytes)
           Placed(i) == /\ last[(IF m + i < S THEN m + i ELSE m + i - S) + 1] = bytes[i + 1]
                        /\ m + i < T => last[S + (m + i) + 1] = bytes[i + 1]
                        /\ m + i >= S => last[S + (m + i - S) + 1] = bytes[i + 1]
           Untouched(c) == last[c + 1] = b0[c + 1] /\ (c < T => last[S + c + 1] = b0[S + c + 1])
<1>1. /\ \A i \in 0..n - 1 : Placed(i)
      /\ \A c \in 0..S - 1 : (c < m /\ c >= m + n - S) \/ c >= m + n => Untouched(c)
  <2>1. S \in Nat /\ T \in Nat /\ T >= 2 /\ S >= 2 * T /\ m \in 0..S - 1 /\ b0 \in Seq(Nat)
        /\ Len(b0) = S + T + Slackness /\ bytes \in Seq(Nat) /\ n \in 0..T /\ n = Len(bytes)
    OBVIOUS
  <2>2. LaidOut(last, b0, S, T, m, bytes)
    BY <2>1, WritesAreLaidOut, Zenon
  <2> HIDE DEF last
  <2>. QED BY <2>1, <2>2, Zenon DEF LaidOut
<1>2. /\ d \in Seq(Nat) /\ Len(d) = L + n
      /\ \A i \in 1..L + n : d[i] = IF i <= L THEN data[i] ELSE bytes[i - L]
  BY ConcatProperties
<1>3. last = AllCopied(b0, S, T, Len(data) % S, bytes)
  OBVIOUS
<1> HIDE DEF last, d, Placed, Untouched
<1>4. p \in Most(0, (L + n) - S)..(L + n) - 1
  BY <1>2, <1>h DEF Kept
<1>5. p \in 0..(L + n) - 1 /\ p >= (L + n) - S
  BY <1>4 DEF Most
<1>6. d[p + 1] = IF p + 1 <= L THEN data[p + 1] ELSE bytes[(p + 1) - L]
  <2>1. p + 1 \in 1..L + n
    BY <1>5
  <2>. QED BY <2>1, <1>2
<1> PICK c \in 0..S - 1 : c = p % S
  <2>1. S \in Nat \ {0} /\ p \in Nat
    BY <1>5
  <2>. QED BY <2>1, DivMod
<1> DEFINE Goal == /\ last[c + 1] = d[p + 1]
                   /\ p >= S /\ c < T => last[S + c + 1] = d[p + 1]
<1> HIDE DEF Goal
<1>7. ASSUME p < L PROVE Goal
  <2>1. AtPlace(b0, S, T, data, p)
    <3>1. p \in Kept(S, data)
      BY <1>5, <1>7 DEF Most, Kept
    <3>. QED BY <3>1
  <2>2. (c < m /\ c >= m + n - S) \/ c >= m + n
    <3>1. S \in Nat \ {0} /\ n \in 0..S /\ p \in Nat /\ p < L /\ p >= L + n - S
      BY <1>5, <1>7
    <3>2. \/ p % S < L % S /\ p % S >= (L % S) + n - S
          \/ p % S >= (L % S) + n
      BY <3>1, PlaceBehind
    <3>. QED BY <3>2
  <2>3. Untouched(c)
    BY <2>2, <1>1
  <2>4. d[p + 1] = data[p + 1]
    BY <1>6, <1>5, <1>7
  <2>. QED BY <2>1, <2>3, <2>4 DEF AtPlace, Untouched, Goal
<1>8. ASSUME p >= L PROVE Goal
  <2> PICK i \in 0..n - 1 : p = L + i
    <3>1. p - L \in 0..n - 1 /\ p = L + (p - L)
      BY <1>5, <1>8
    <3>. QED BY <3>1
  <2>1. d[p + 1] = bytes[i + 1]
    <3>1. ~(p + 1 <= L) /\ (p + 1) - L = i + 1
      OBVIOUS
    <3>. QED BY <3>1, <1>6
  <2>2. c = IF m + i < S THEN m + i ELSE m + i - S
    <3>1. S \in Nat \ {0} /\ i \in 0..S
      OBVIOUS
    <3>2. (L + i) % S = IF (L % S) + i < S THEN (L % S) + i ELSE (L % S) + i - S
      BY <3>1, ModPlus
    <3>. QED BY <3>2
  <2>3. Placed(i)
    BY <1>1
  <2>4. CASE m + i < S
    BY <2>1, <2>2, <2>3, <2>4 DEF Goal, Placed
  <2>5. CASE ~(m + i < S)
    <3>1. c = m + i - S
      BY <2>2, <2>5, Zenon
    <3>3. m + i >= S
      BY <2>5
    <3>2. last[c + 1] = bytes[i + 1] /\ last[S + c + 1] = bytes[i + 1]
      BY <2>3, <2>5, <3>1, <3>3 DEF Placed
    <3>. QED BY <2>1, <3>2 DEF Goal
  <2>. QED BY <2>4, <2>5
<1>9. Goal
  BY <1>5, <1>7, <1>8
<1>. QED BY <1>3, <1>9 DEF d, Goal, AtPlace

\* The types and sizes of a ring buffer.
LEMMA FitsIs ==
  ASSUME NEW rb, NEW data \in Seq(Nat), Fits(rb, data), LapSize % rb.size = 0
  PROVE /\ rb \in [size : Nat, tail_size : Nat, cur_size : Nat, pos : Nat, buffer : Seq(Nat)]
        /\ rb.size \in Nat \ {0} /\ rb.tail_size \in Nat /\ rb.cur_size \in Nat /\ rb.pos \in Nat
        /\ rb.buffer \in Seq(Nat) /\ Len(data) \in Nat /\ Len(rb.buffer) \in Nat
        /\ rb.tail_size >= 2 /\ rb.size >= 2 * rb.tail_size
        /\ LapSize \in Nat \ {0} /\ LapSize >= rb.size
        /\ rb.pos < LapSize => rb.pos = Len(data)
<1>1. /\ rb \in [size : Nat, tail_size : Nat, cur_size : Nat, pos : Nat, buffer : Seq(Nat)]
      /\ rb.tail_size >= 2 /\ rb.size >= 2 * rb.tail_size
  BY DEF Fits
<1>2. rb.size \in Nat \ {0} /\ rb.tail_size \in Nat
  BY <1>1
<1>3. Len(data) \in Nat /\ Len(rb.buffer) \in Nat
  BY <1>1, LenProperties
<1>4. LapSize \in Nat \ {0} /\ LapSize >= rb.size
  BY <1>2, LapIsPositive, RingInLap
<1>5. rb.pos < LapSize => rb.pos = Len(data)
  BY DEF Fits
<1>. QED BY <1>1, <1>2, <1>3, <1>4, <1>5

\* What a write keeps of the ring buffer.
Same(next, rb) == next.size = rb.size /\ next.tail_size = rb.tail_size

\* A write to a whole buffer: its ring and its position.
LEMMA LargeWriteKeeps ==
  ASSUME NEW rb, NEW data \in Seq(Nat), NEW bytes \in Seq(Nat), Fits(rb, data), Holds(rb, data),
         Len(bytes) <= rb.tail_size, LapSize % rb.size = 0, ~(rb.pos = 0 /\ Len(bytes) < rb.tail_size)
  PROVE LET next == RingBufferWrite(rb, bytes)
        IN  /\ Same(next, rb) /\ next.buffer # <<>>
            /\ Fits(next, data \o bytes) /\ Holds(next, data \o bytes)
<1> DEFINE S == rb.size
           T == rb.tail_size
           g == RingBufferGrow(rb)
           b0 == g.buffer
           m == rb.pos % S
           next == RingBufferWrite(rb, bytes)
           pos == NextPosition(rb.pos, Len(bytes))
           last == AllCopied(b0, S, T, m, bytes)
           d == data \o bytes
<1>1. /\ rb \in [size : Nat, tail_size : Nat, cur_size : Nat, pos : Nat, buffer : Seq(Nat)]
      /\ S \in Nat \ {0} /\ T \in Nat /\ T >= 2 /\ S >= 2 * T
      /\ Len(data) \in Nat /\ Len(bytes) \in 0..S - 1
  BY LenProperties DEF Fits
<1>2. IF rb.pos < LapSize THEN rb.pos = Len(data)
      ELSE Len(data) >= LapSize /\ rb.pos < 2 * LapSize /\ rb.pos % S = Len(data) % S
  BY DEF Fits
<1>3. m = Len(data) % S
  BY <1>2
<1>4. next = [rb EXCEPT !.cur_size = S + T, !.pos = pos, !.buffer = last]
  BY LargeWriteIs, Zenon
<1>5. /\ b0 \in Seq(Nat) /\ Len(b0) = S + T + Slackness /\ g.size = S /\ g.tail_size = T
      /\ Holds(g, data)
  <2>1. /\ b0 \in Seq(Nat) /\ Len(b0) = S + T + Slackness /\ Holds(g, data)
        /\ g = [rb EXCEPT !.cur_size = S + T, !.buffer = b0]
    BY ReadyKeeps, Zenon DEF WholeSize
  <2> HIDE DEF g, b0
  <2>. QED BY <1>1, <2>1
<1>6. \A q \in Kept(S, data) : AtPlace(b0, S, T, data, q)
  BY <1>5 DEF Holds
<1> DEFINE M == Len(data) % S
<1>7. /\ S \in Nat /\ M \in 0..S - 1 /\ last = AllCopied(b0, S, T, M, bytes)
      /\ d \in Seq(Nat) /\ Len(d) = Len(data) + Len(bytes)
  <2>1. M \in 0..S - 1
    BY <1>1, DivMod
  <2>2. last = AllCopied(b0, S, T, M, bytes)
    BY <1>3
  <2>3. d \in Seq(Nat) /\ Len(d) = Len(data) + Len(bytes)
    BY ConcatProperties
  <2>. QED BY <1>1, <2>1, <2>2, <2>3
<1> HIDE DEF g, next, last, pos, d
<1>8. \A p \in Kept(S, d) : AtPlace(last, S, T, d, p)
  BY <1>1, <1>5, <1>6, <1>7, LargeWriteHolds DEF d
<1>9. last \in Seq(Nat) /\ Len(last) = S + T + Slackness
  <2>1. Len(bytes) \in 0..T
    BY <1>1
  <2>2. LaidOut(last, b0, S, T, M, bytes)
    BY <1>1, <1>5, <1>7, <2>1, WritesAreLaidOut
  <2>. QED BY <2>2, <1>5 DEF LaidOut
<1>10. /\ pos \in Nat
       /\ IF pos < LapSize THEN pos = Len(d)
          ELSE Len(d) >= LapSize /\ pos < 2 * LapSize /\ pos % S = Len(d) % S
  <2>1. LapSize \in Nat \ {0} /\ LapSize >= S
    BY <1>1, LapIsPositive, RingInLap
  <2>2. rb.pos \in Nat
    BY <1>1
  <2>3. S \in Nat \ {0} /\ LapSize % S = 0 /\ Len(data) \in Nat /\ Len(bytes) \in 0..S - 1
    BY <1>1
  <2> DEFINE p == rb.pos
             L == Len(data)
             n == Len(bytes)
             to == Further(LapSize, p, n)
  <2>4. p \in Nat /\ InStep(LapSize, S, p, L)
    BY <1>2, <2>2 DEF InStep
  <2>5. to \in Nat /\ InStep(LapSize, S, to, L + n)
    BY <2>1, <2>3, <2>4, Advances, Zenon
  <2>6. pos = to
    BY DEF pos, NextPosition, Further
  <2>7. Len(d) = L + n
    BY <1>7
  <2> HIDE DEF to, L, n
  <2>. QED BY <2>5, <2>6, <2>7 DEF InStep
<1>11. /\ next \in [size : Nat, tail_size : Nat, cur_size : Nat, pos : Nat, buffer : Seq(Nat)]
       /\ next.size = S /\ next.tail_size = T /\ next.cur_size = S + T /\ next.pos = pos
       /\ next.buffer = last
  <2>1. S + T \in Nat
    BY <1>1
  <2>2. pos \in Nat /\ last \in Seq(Nat)
    BY <1>9, <1>10
  <2>. QED BY <1>1, <1>4, <2>1, <2>2
<1>12. Same(next, rb) /\ next.buffer # <<>>
  <2>1. Len(last) # 0
    BY <1>1, <1>9 DEF Slackness
  <2>. QED BY <1>11, <2>1 DEF Same
<1>13. Holds(next, d)
  BY <1>8, <1>11 DEF Holds
<1>14. Fits(next, d)
  BY <1>1, <1>9, <1>10, <1>11 DEF Fits
<1>. QED BY <1>12, <1>13, <1>14 DEF next, d

\* A first write that is small.
LEMMA SmallWriteKeeps ==
  ASSUME NEW rb, NEW data \in Seq(Nat), NEW bytes \in Seq(Nat), Fits(rb, data), Holds(rb, data),
         LapSize % rb.size = 0, rb.pos = 0, Len(bytes) < rb.tail_size
  PROVE LET next == RingBufferWrite(rb, bytes)
        IN  /\ Same(next, rb) /\ next.buffer # <<>>
            /\ Fits(next, data \o bytes) /\ Holds(next, data \o bytes)
<1> DEFINE S == rb.size
           T == rb.tail_size
           n == Len(bytes)
           next == RingBufferWrite(rb, bytes)
           kept == Least(Len(rb.buffer), n)
           b0 == SubSeq(rb.buffer, 1, kept) \o Zeros(n + Slackness - kept)
           last == Copied(b0, 0, bytes)
<1>1. /\ rb \in [size : Nat, tail_size : Nat, cur_size : Nat, pos : Nat, buffer : Seq(Nat)]
      /\ S \in Nat \ {0} /\ T \in Nat /\ T >= 2 /\ S >= 2 * T /\ n \in Nat /\ n < T
      /\ LapSize \in Nat \ {0} /\ LapSize >= S
  <2>1. S \in Nat \ {0}
    BY DEF Fits
  <2>. QED BY <2>1, LenProperties, LapIsPositive, RingInLap DEF Fits
<1>2. data \o bytes = bytes
  <2>1. Len(data) = 0
    BY <1>1 DEF Fits
  <2>. QED BY <2>1, LenProperties, ConcatProperties, EmptySeq
<1>3. next = [rb EXCEPT !.cur_size = n, !.pos = n, !.buffer = last]
  <2>1. RingBufferInitBuffer(rb, n) = [rb EXCEPT !.cur_size = n, !.buffer = b0]
    BY Zenon DEF RingBufferInitBuffer
  <2>2. next = [RingBufferInitBuffer(rb, n) EXCEPT !.pos = n,
                    !.buffer = Copied(RingBufferInitBuffer(rb, n).buffer, 0, bytes)]
    BY DEF RingBufferWrite
  <2> HIDE DEF b0, next
  <2>. QED BY <1>1, <2>1, <2>2
<1>4. b0 \in Seq(Nat) /\ Len(b0) = n + Slackness
  <2> DEFINE more == n + Slackness - kept
             x == SubSeq(rb.buffer, 1, kept)
             z == Zeros(more)
  <2>1. rb.buffer \in Seq(Nat) /\ Len(rb.buffer) \in Nat
    BY <1>1, LenProperties
  <2>2. kept \in 0..Len(rb.buffer) /\ kept <= n /\ more \in Nat
    BY <1>1, <2>1 DEF Least, Slackness
  <2>3. x \in Seq(Nat) /\ Len(x) = kept
    BY <2>1, <2>2, PartIs
  <2>4. z \in Seq(Nat) /\ Len(z) = more
    BY <2>2 DEF Zeros, Fill
  <2>5. more + kept = n + Slackness
    BY <2>2, <1>1 DEF Slackness
  <2> HIDE DEF x, z, more, kept
  <2>6. x \o z \in Seq(Nat) /\ Len(x \o z) = Len(x) + Len(z)
    BY <2>3, <2>4, ConcatProperties
  <2>7. b0 = x \o z
    BY DEF x, z, more, kept
  <2>8. kept \in Nat
    BY <1>1, <2>1 DEF kept, Least
  <2>9. Len(b0) = kept + more
    BY <2>3, <2>4, <2>6, <2>7
  <2>10. kept + more = n + Slackness
    BY <2>2, <2>5, <2>8
  <2>. QED BY <2>6, <2>7, <2>9, <2>10
<1> HIDE DEF b0
<1>5. /\ last \in Seq(Nat) /\ Len(last) = n + Slackness
      /\ \A i \in 1..n : last[0 + i] = bytes[i]
  <2>1. 0 \in Nat /\ 0 + Len(bytes) <= Len(b0)
    BY <1>1, <1>4 DEF Slackness
  <2>2. LET b == Copied(b0, 0, bytes) IN
        /\ b \in Seq(Nat) /\ Len(b) = Len(b0)
        /\ \A i \in 1..Len(bytes) : b[0 + i] = bytes[i]
    BY <2>1, <1>4, CopiedIs, Zenon
  <2>. QED BY <2>2, <1>4
<1> HIDE DEF last, next
<1>6. /\ next \in [size : Nat, tail_size : Nat, cur_size : Nat, pos : Nat, buffer : Seq(Nat)]
      /\ next.size = S /\ next.tail_size = T /\ next.cur_size = n /\ next.pos = n
      /\ next.buffer = last
  BY <1>1, <1>3, <1>5
<1>7. Fits(next, bytes)
  BY <1>1, <1>5, <1>6 DEF Fits
<1>8. Holds(next, bytes)
  <2> SUFFICES ASSUME NEW p \in Kept(S, bytes) PROVE AtPlace(last, S, T, bytes, p)
    BY <1>6 DEF Holds
  <2>1. p \in 0..n - 1
    BY <1>1 DEF Kept, Most
  <2>2. p \in 0..S - 1 /\ p + 1 \in 1..n
    BY <1>1, <2>1
  <2>3. p % S = p
    BY <1>1, <2>2, ModSmall
  <2>4. last[p + 1] = bytes[p + 1]
    BY <1>5, <2>2
  <2>5. ~(p >= S)
    BY <1>1, <2>2
  <2>. QED BY <2>3, <2>4, <2>5 DEF AtPlace
<1>9. next.buffer # <<>>
  <2>1. Len(last) # 0
    BY <1>1, <1>5 DEF Slackness
  <2>. QED BY <1>6, <2>1
<1>. QED BY <1>2, <1>6, <1>7, <1>8, <1>9 DEF next, Same

\* An empty ring buffer.
LEMMA NewRingBufferFits ==
  ASSUME NEW S \in Nat, NEW T \in Nat, T >= 2, S >= 2 * T
  PROVE LET rb == [size |-> S, tail_size |-> T, cur_size |-> 0, pos |-> 0, buffer |-> <<>>]
        IN  Fits(rb, <<>>) /\ Holds(rb, <<>>)
<1> DEFINE rb == [size |-> S, tail_size |-> T, cur_size |-> 0, pos |-> 0, buffer |-> <<>>]
<1>1. Len(<<>>) = 0 /\ <<>> \in Seq(Nat)
  BY EmptySeq
<1>2. Fits(rb, <<>>)
  BY <1>1, LapIsPositive DEF Fits
<1>3. Kept(S, <<>>) = {}
  BY <1>1 DEF Kept, Most
<1>4. Holds(rb, <<>>)
  BY <1>3 DEF Holds
<1>. QED BY <1>2, <1>4

(***************************************************************************)
(* The ring buffer of the encoder keeps its input, whatever its size, that *)
(* of its tail and the writes, none longer than the tail: behind each of   *)
(* them the last bytes of all the input are at their places, those of the  *)
(* present lap also behind its end, and the next write finds what it needs *)
(* (RingBufferWrite, ringbuffer.h:102-159, and CopyInputToRingBuffer).     *)
(***************************************************************************)
THEOREM RingBufferKeepsInput ==
  ASSUME NEW rb, NEW data \in Seq(Nat), NEW bytes \in Seq(Nat), Fits(rb, data), Holds(rb, data),
         Len(bytes) <= rb.tail_size, LapSize % rb.size = 0
  PROVE LET next == PushInput(rb, bytes)
        IN  Same(next, rb) /\ Fits(next, data \o bytes) /\ Holds(next, data \o bytes)
<1> DEFINE w == RingBufferWrite(rb, bytes)
           d == data \o bytes
           next == PushInput(rb, bytes)
<1>1. Same(w, rb) /\ w.buffer # <<>> /\ Fits(w, d) /\ Holds(w, d)
  <2>1. CASE rb.pos = 0 /\ Len(bytes) < rb.tail_size
    BY <2>1, SmallWriteKeeps, Zenon
  <2>2. CASE ~(rb.pos = 0 /\ Len(bytes) < rb.tail_size)
    BY <2>2, LargeWriteKeeps, Zenon
  <2>. QED BY <2>1, <2>2
<1>2. next = IF w.pos > RingMask(w) THEN w
             ELSE [w EXCEPT !.buffer = Copied(w.buffer, w.pos, Zeros(Slackness))]
  BY DEF PushInput
<1>d. d \in Seq(Nat) /\ Len(d) \in Nat
  BY ConcatProperties, LenProperties
<1>s. w.size = rb.size
  BY <1>1 DEF Same
<1> HIDE DEF w, d, next
<1>3. CASE w.pos > RingMask(w)
  BY <1>1, <1>2, <1>3 DEF d, next
<1>4. CASE ~(w.pos > RingMask(w))
  <2> DEFINE S == w.size
             T == w.tail_size
             z == Zeros(Slackness)
             b == Copied(w.buffer, w.pos, z)
  <2>1. /\ w \in [size : Nat, tail_size : Nat, cur_size : Nat, pos : Nat, buffer : Seq(Nat)]
        /\ S \in Nat \ {0} /\ T \in Nat /\ T >= 2 /\ S >= 2 * T /\ w.pos <= S - 1
        /\ LapSize \in Nat \ {0} /\ LapSize >= S
    <3>1. LapSize % w.size = 0
      BY <1>s
    <3>2. /\ w \in [size : Nat, tail_size : Nat, cur_size : Nat, pos : Nat, buffer : Seq(Nat)]
          /\ S \in Nat \ {0} /\ T \in Nat /\ T >= 2 /\ S >= 2 * T /\ w.pos \in Nat
          /\ LapSize \in Nat \ {0} /\ LapSize >= S
      BY <1>1, <1>d, <3>1, FitsIs
    <3>. QED BY <1>4, <3>2 DEF RingMask
  <2>2. w.pos = Len(d)
    <3>1. w.pos < LapSize
      BY <2>1
    <3>. QED BY <1>1, <3>1 DEF Fits
  <2>3. z \in Seq(Nat) /\ Len(z) = 7
    BY DEF Zeros, Fill, Slackness
  <2>4. w.buffer \in Seq(Nat) /\ Len(w.buffer) = w.cur_size + 7 /\ w.pos <= w.cur_size
    <3>1. /\ Len(w.buffer) = w.cur_size + 7
          /\ \/ w.cur_size = S + T
             \/ w.cur_size = Len(d) /\ Len(d) < T
      BY <1>1 DEF Fits, Slackness
    <3>. QED BY <2>1, <2>2, <3>1
  <2>5. /\ b \in Seq(Nat) /\ Len(b) = Len(w.buffer)
        /\ \A i \in 1..Len(w.buffer) : i <= w.pos \/ i > w.pos + 7 => b[i] = w.buffer[i]
    <3>1. w.pos \in Nat /\ w.pos + Len(z) <= Len(w.buffer)
      BY <2>1, <2>3, <2>4
    <3>2. /\ b \in Seq(Nat) /\ Len(b) = Len(w.buffer)
          /\ \A i \in 1..Len(w.buffer) : i <= w.pos \/ i > w.pos + Len(z) => b[i] = w.buffer[i]
      BY <2>3, <2>4, <3>1, CopiedIs, Zenon
    <3>. QED BY <2>3, <3>2
  <2> HIDE DEF b
  <2>6. /\ next \in [size : Nat, tail_size : Nat, cur_size : Nat, pos : Nat, buffer : Seq(Nat)]
        /\ next.size = S /\ next.tail_size = T /\ next.cur_size = w.cur_size /\ next.pos = w.pos
        /\ next.buffer = b
    BY <1>2, <1>4, <2>1, <2>5 DEF b
  <2>7. Fits(next, d)
    BY <1>1, <2>1, <2>4, <2>5, <2>6 DEF Fits, Slackness
  <2>8. Holds(next, d)
    <3> SUFFICES ASSUME NEW p \in Kept(S, d) PROVE AtPlace(b, S, T, d, p)
      BY <2>6 DEF Holds
    <3>1. p \in 0..Len(d) - 1 /\ p \in 0..S - 1
      BY <1>d, <2>1, <2>2 DEF Kept, Most
    <3>2. p % S = p
      BY <2>1, <3>1, ModSmall
    <3>3. w.buffer[(p % S) + 1] = d[p + 1]
      BY <1>1 DEF Holds, AtPlace
    <3>4. p + 1 \in 1..Len(w.buffer) /\ p + 1 <= w.pos /\ ~(p >= S)
      <4>1. w.pos \in Nat /\ w.cur_size \in Nat /\ S \in Nat
        BY <2>1
      <4>2. p + 1 <= w.pos
        BY <2>2, <3>1, <1>d
      <4>3. w.pos <= w.cur_size + 7
        BY <2>4, <4>1
      <4>4. p + 1 <= w.cur_size + 7
        BY <3>1, <4>1, <4>2, <4>3
      <4>. QED BY <2>4, <3>1, <4>1, <4>2, <4>4
    <3>5. b[p + 1] = w.buffer[p + 1]
      BY <2>5, <3>4
    <3>. QED BY <3>2, <3>3, <3>4, <3>5 DEF AtPlace
  <2>9. Same(next, rb)
    BY <1>1, <2>6 DEF Same
  <2>. QED BY <2>7, <2>8, <2>9 DEF d, next
<1>. QED BY <1>3, <1>4 DEF d, next

-----------------------------------------------------------------------------
(* Induction over numbers, and what the encoder is after so many pieces.      *)

(* A set of numbers has a least one: induction, where the formula is a set. *)
LEMMA LeastElement ==
    ASSUME NEW T, T \subseteq Nat, T # {}
    PROVE  \E x \in T : \A y \in T : x <= y
<1> DEFINE R == {p \in Nat \X Nat : p[1] < p[2]}
<1>1. IsWellFoundedOn(R, Nat)
  BY NatLessThanWellFounded, Zenon DEF OpToRel
<1> HIDE DEF R
<1>2. PICK x \in T : \A y \in T : <<y, x>> \notin R
  BY <1>1, WFMin, Zenon
<1>3. \A y \in T : <<y, x>> \notin R => x <= y
  BY DEF R
<1>4. QED
  BY <1>2, <1>3

(* What the encoder is after the pieces is well defined. *)
FirstPiece(c) == Ran(c, [e |-> NewEncoder(c, 0), out |-> <<>>], "process", <<>>)
NextPiece(c, s, k) == Ran(c, s, "process", SubSeq(c.data, Feed * (k - 1) + 1, Feed * k))
IsAfter(c, f, n) == f = [k \in 0..n |-> IF k = 0 THEN FirstPiece(c) ELSE NextPiece(c, f[k - 1], k)]

LEMMA SomeAfter ==
    ASSUME NEW c, NEW m \in Nat
    PROVE  \E f : IsAfter(c, f, m)
<1> DEFINE T == {n \in Nat : ~\E f : IsAfter(c, f, n)}
<1>1. SUFFICES ASSUME T # {} PROVE FALSE
  OBVIOUS
<1>2. PICK n \in T : \A y \in T : n <= y
  BY <1>1, LeastElement
<1>3. n \in Nat /\ ~\E f : IsAfter(c, f, n)
  BY <1>2
<1>4. CASE n = 0
  <2> DEFINE f == [k \in 0..0 |-> FirstPiece(c)]
  <2>1. f = [k \in 0..0 |-> IF k = 0 THEN FirstPiece(c) ELSE NextPiece(c, f[k - 1], k)]
    OBVIOUS
  <2>2. IsAfter(c, f, 0)
    BY <2>1, Zenon DEF IsAfter
  <2>3. QED
    BY <1>3, <1>4, <2>2
<1>5. CASE n # 0
  <2>1. n - 1 \in Nat /\ n - 1 \notin T
    BY <1>2, <1>3, <1>5
  <2>2. PICK f : IsAfter(c, f, n - 1)
    BY <2>1
  <2> DEFINE g == [k \in 0..n |-> IF k = n THEN NextPiece(c, f[n - 1], n) ELSE f[k]]
  <2>3. f = [k \in 0..n - 1 |-> IF k = 0 THEN FirstPiece(c) ELSE NextPiece(c, f[k - 1], k)]
    BY <2>2 DEF IsAfter
  <2>4. ASSUME NEW k \in 0..n
        PROVE  g[k] = IF k = 0 THEN FirstPiece(c) ELSE NextPiece(c, g[k - 1], k)
    <3>1. CASE k = n
      BY <1>3, <1>5, <3>1
    <3>2. CASE k # n
      <4>1. k \in 0..n - 1 /\ g[k] = f[k] /\ (k # 0 => k - 1 \in 0..n /\ k - 1 # n)
        BY <1>3, <3>2
      <4>2. f[k] = IF k = 0 THEN FirstPiece(c) ELSE NextPiece(c, f[k - 1], k)
        BY <2>3, <4>1
      <4>3. k # 0 => g[k - 1] = f[k - 1]
        BY <4>1
      <4>4. QED
        BY <4>1, <4>2, <4>3
    <3>3. QED
      BY <3>1, <3>2
  <2>5. IsAfter(c, g, n)
    <3>1. g = [k \in 0..n |-> g[k]]
      OBVIOUS
    <3> HIDE DEF g
    <3>2. QED
      BY <2>4, <3>1 DEF IsAfter
  <2>6. QED
    BY <1>3, <2>5
<1>6. QED
  BY <1>4, <1>5

(* The pieces follow one another. *)
LEMMA PiecesFollow ==
    ASSUME NEW c, Len(c.data) \in Nat
    PROVE  /\ AfterPieces(c)[0] = FirstPiece(c)
           /\ \A k \in Nat : Feed * (k + 1) <= Len(c.data) =>
                AfterPieces(c)[k + 1] = Ran(c, AfterPieces(c)[k], "process",
                                            SubSeq(c.data, Feed * k + 1, Feed * (k + 1)))
<1> DEFINE m == Len(c.data) \div Feed
<1>1. m \in Nat
  BY FeedAssumption, DivMod
<1>2. AfterPieces(c) = CHOOSE f : IsAfter(c, f, m)
  BY Zenon DEF AfterPieces, IsAfter, FirstPiece, NextPiece
<1>3. IsAfter(c, AfterPieces(c), m)
  BY <1>1, <1>2, SomeAfter, Zenon
<1> HIDE DEF m
<1>4. \A k \in 0..m : AfterPieces(c)[k] = IF k = 0 THEN FirstPiece(c)
                                          ELSE NextPiece(c, AfterPieces(c)[k - 1], k)
  <2> DEFINE f == AfterPieces(c)
  <2>1. f = [k \in 0..m |-> IF k = 0 THEN FirstPiece(c) ELSE NextPiece(c, f[k - 1], k)]
    BY <1>3 DEF IsAfter
  <2> HIDE DEF f
  <2>2. \A k \in 0..m : f[k] = IF k = 0 THEN FirstPiece(c) ELSE NextPiece(c, f[k - 1], k)
    BY <2>1
  <2>3. QED
    BY <2>2 DEF f
<1>5. ASSUME NEW k \in Nat, Feed * (k + 1) <= Len(c.data)
      PROVE  AfterPieces(c)[k + 1] = Ran(c, AfterPieces(c)[k], "process",
                                         SubSeq(c.data, Feed * k + 1, Feed * (k + 1)))
  <2>1. k + 1 <= m
    <3> DEFINE r == Len(c.data) % Feed
    <3>1. r \in 0..Feed - 1 /\ Len(c.data) = Feed * m + r
      BY FeedAssumption, DivMod DEF m
    <3> HIDE DEF r
    <3>2. Feed * k < Feed * m
      <4>1. Feed * (k + 1) = Feed * k + Feed /\ Feed * k \in Nat /\ Feed * m \in Nat /\ Feed \in Nat
        BY <1>1, FeedAssumption
      <4>2. QED
        BY <1>5, <3>1, <4>1
    <3>3. m <= k => Feed * m <= Feed * k
      BY <1>1, FeedAssumption
    <3>4. Feed * k \in Nat /\ Feed * m \in Nat
      BY <1>1, FeedAssumption
    <3>5. QED
      BY <1>1, <3>2, <3>3, <3>4
  <2>2. k + 1 \in 0..m /\ k + 1 # 0 /\ (k + 1) - 1 = k
    BY <1>1, <2>1
  <2>3. AfterPieces(c)[k + 1] = NextPiece(c, AfterPieces(c)[(k + 1) - 1], k + 1)
    BY <1>4, <2>2
  <2>4. AfterPieces(c)[k + 1] = NextPiece(c, AfterPieces(c)[k], k + 1)
    BY <2>2, <2>3
  <2>5. QED
    BY <2>2, <2>4 DEF NextPiece
<1>6. AfterPieces(c)[0] = FirstPiece(c)
  BY <1>1, <1>4
<1>7. QED
  BY <1>5, <1>6

-----------------------------------------------------------------------------
(* The stream does not depend on the chunks.                               *)

(* The encoder, and all its output. *)
Now == [e |-> enc, out |-> wire]

(* The encoder is, or will be when its call is over, what it would be after the *)
(* pieces so far; and the last call makes the whole stream.                  *)
SteadyInv == Unbroken =>
    /\ metadata = <<>> /\ context \in {"streaming", "finished"}
    /\ call.op \in {"none", "process", "finish"} /\ call.last \in {"none", "process", "finish"}
    /\ ~Calling /\ context = "streaming" =>
            /\ Len(held) < Feed
            /\ \E k \in Nat : /\ Len(taken) = Feed * k
                              /\ Ran(case, Now, "process", <<>>) = AfterPieces(case)[k]
    /\ call.op = "process" =>
            \E k \in Nat : /\ Len(taken) + Len(call.input) = Feed * k
                           /\ Ran(case, Now, "process", call.input) = AfterPieces(case)[k]
    /\ call.op = "finish" => Ran(case, Now, "finish", call.input).out = Whole(case, given)

LEMMA SteadyInitially == Init => SteadyInv
<1> SUFFICES ASSUME Init, Unbroken PROVE SteadyInv
  BY DEF SteadyInv
<1>1. case \in Cases /\ Len(case.data) \in Nat /\ Len(<<>>) = 0
  BY CasesAssumption, LenProperties, EmptySeq DEF Init
<1>2. AfterPieces(case)[0] = FirstPiece(case)
  BY <1>1, PiecesFollow
<1>3. Ran(case, Now, "process", <<>>) = AfterPieces(case)[0]
  BY <1>2 DEF Init, Now, FirstPiece
<1>4. Feed * 0 = 0 /\ 0 < Feed
  BY FeedAssumption
<1>5. /\ metadata = <<>> /\ context = "streaming" /\ call = NoCall /\ held = <<>> /\ taken = <<>>
  BY DEF Init, Unbroken
<1>6. QED
  BY <1>1, <1>3, <1>4, <1>5 DEF SteadyInv, Calling, NoCall

(* A run that begins where pieces end. *)
LEMMA SteadyRun ==
    ASSUME case \in Cases, case' = case, Unbroken, NEW op \in {"process", "finish"}, NEW input \in Seq(Byte),
           Run(op, input, <<>>), taken' \in Seq(Byte), NEW k \in Nat, Len(taken') = Feed * k,
           Part(case.data, input, Len(taken')), given' = Len(taken') + Len(input),
           given' <= Len(case.data),
           Ran(case, Now', "process", <<>>) = AfterPieces(case)[k],
           EncoderSteady', metadata' = <<>>, context' \in {"streaming", "finished"}
    PROVE  SteadyInv'
<1>1. /\ case.data \in Seq(Byte) /\ Len(case.data) \in Nat /\ Len(input) \in Nat /\ Feed \in Nat \ {0}
      /\ Feed * k \in Nat
  BY CasesAssumption, FeedAssumption, LenProperties
<1>2. Calling' => Ran(case, AfterPieces(case)[k], call'.op, call'.input) = Ran(case, Now', call'.op, call'.input)
  BY DEF EncoderSteady, Now, Unbroken
<1>3. CASE Len(input) >= Feed
  <2> DEFINE front == SubSeq(input, 1, Feed)
             back == SubSeq(input, Feed + 1, Len(input))
  <2>1. call' = [op |-> "process", input |-> front, later |-> back, last |-> op, then |-> <<>>]
    BY <1>1, <1>3 DEF Run, CallOf
  <2>2. /\ front \in Seq(Byte) /\ Len(front) = Feed
        /\ Part(case.data, front, Len(taken'))
    BY <1>1, <1>3, SplitPart
  <2>3. front = SubSeq(case.data, Feed * k + 1, Feed * k + Feed)
    BY <2>2 DEF Part
  <2> HIDE DEF front, back
  <2>4. Feed * k + Feed = Feed * (k + 1) /\ Feed * (k + 1) <= Len(case.data)
    BY <1>1, <1>3
  <2>5. AfterPieces(case)[k + 1] = Ran(case, AfterPieces(case)[k], "process", front)
    BY <1>1, <2>3, <2>4, PiecesFollow
  <2>6. Ran(case, Now', "process", front) = AfterPieces(case)[k + 1]
    BY <1>2, <2>1, <2>5 DEF Calling
  <2>7. Len(taken') + Len(front) = Feed * (k + 1) /\ k + 1 \in Nat
    BY <1>1, <2>2, <2>4
  <2>8. QED
    BY <2>1, <2>6, <2>7 DEF SteadyInv, Calling
<1>4. CASE Len(input) < Feed /\ op = "process"
  <2>1. call' = NoCall /\ held' = input
    BY <1>1, <1>4 DEF Run, CallOf, HeldBy
  <2>2. QED
    BY <1>4, <2>1 DEF SteadyInv, Calling, NoCall
<1>5. CASE Len(input) < Feed /\ op = "finish"
  <2>1. call' = [op |-> "finish", input |-> input, later |-> <<>>, last |-> "finish", then |-> <<>>]
    BY <1>1, <1>5 DEF Run, CallOf
  <2>2. given' \div Feed = k
    <3> DEFINE n == Len(input)
               q == given' \div Feed
               r == given' % Feed
    <3>1. n \in 0..Feed - 1 /\ given' = Feed * k + n /\ given' \in Nat
      BY <1>1, <1>5
    <3>2. q \in Nat /\ r \in 0..Feed - 1 /\ given' = Feed * q + r
      BY <1>1, <3>1, DivMod
    <3> HIDE DEF n, q, r
    <3>3. Feed * k + n = Feed * q + r
      BY <3>1, <3>2
    <3>4. Feed \in Nat \ {0} /\ k \in Int /\ q \in Int
      BY <1>1, <3>2
    <3>5. k = q
      BY <3>1, <3>2, <3>3, <3>4, Quotient
    <3>6. QED
      BY <3>5 DEF q
  <2>3. SubSeq(case.data, Feed * k + 1, given') = input
    BY DEF Part
  <2>4. Whole(case, given') = Ran(case, AfterPieces(case)[k], "finish", input).out
    BY <2>2, <2>3 DEF Whole
  <2>5. Ran(case, Now', "finish", input).out = Whole(case, given')
    BY <1>2, <2>1, <2>4 DEF Calling
  <2>6. QED
    BY <2>1, <2>5 DEF SteadyInv, Calling
<1>6. QED
  BY <1>1, <1>3, <1>4, <1>5

(* What is untouched by all but the compressing context. *)
LEMMA SteadyUntouched ==
    ASSUME SteadyInv, UNCHANGED <<case, context, held, enc, call, taken, metadata, given, wire>>
    PROVE  SteadyInv'
BY DEF SteadyInv, Unbroken, Now, Calling

(* Data that comes joins what is held. *)
LEMMA SteadyTransform ==
    ASSUME IInv, SteadyInv, EncoderSteady', NEW n, Transform(n)
    PROVE  SteadyInv'
<1> SUFFICES ASSUME Unbroken PROVE SteadyInv'
  BY DEF SteadyInv, Unbroken, Transform
<1> DEFINE all == held \o Rest(n)
<1>1. /\ ~Calling /\ n \in 1..Len(case.data) - given /\ given' = given + n
      /\ UNCHANGED <<case, enc, taken, metadata, wire>>
  BY DEF Transform
<1>2. /\ case \in Cases /\ taken \in Seq(Byte) /\ given \in Nat /\ Len(case.data) \in Nat
  BY <1>1, Idle
<1>3. /\ all \in Seq(Byte) /\ Part(case.data, all, Len(taken)) /\ Len(taken) + Len(all) = given + n
  BY <1>1, MoreData
<1>4. context = "streaming" /\ metadata = <<>>
  BY <1>1 DEF SteadyInv, Transform
<1>5. context' = "streaming" /\ Run("process", all, <<>>)
  BY <1>4 DEF Transform
<1> HIDE DEF all
<1>6. PICK k \in Nat : /\ Len(taken) = Feed * k
                       /\ Ran(case, Now, "process", <<>>) = AfterPieces(case)[k]
  BY <1>1, <1>4 DEF SteadyInv
<1>7. Now' = Now
  BY <1>1 DEF Now
<1>8. given' = Len(taken') + Len(all) /\ given' <= Len(case.data)
  BY <1>1, <1>2, <1>3
<1>9. QED
  BY <1>1, <1>2, <1>3, <1>4, <1>5, <1>6, <1>7, <1>8, SteadyRun

(* The end passes on what is held. *)
LEMMA SteadyFinish ==
    ASSUME IInv, SteadyInv, EncoderSteady', Finish
    PROVE  SteadyInv'
<1> SUFFICES ASSUME Unbroken PROVE SteadyInv'
  BY DEF SteadyInv, Unbroken, Finish
<1>1. /\ ~Calling /\ context' = "finished" /\ context \in {"holding", "streaming"}
      /\ UNCHANGED <<case, taken, metadata, given, wire>>
  BY DEF Finish
<1>2. /\ case \in Cases /\ taken \in Seq(Byte) /\ held \in Seq(Byte) /\ given \in Nat /\ Len(case.data) \in Nat
      /\ Part(case.data, held, Len(taken)) /\ given = Len(taken) + Len(held) /\ given <= Len(case.data)
  BY <1>1, Idle
<1>3. context = "streaming" /\ metadata = <<>>
  BY <1>1 DEF SteadyInv
<1>4. Run("finish", held, <<>>) /\ enc' = enc
  BY <1>3 DEF Finish
<1>5. PICK k \in Nat : /\ Len(taken) = Feed * k
                       /\ Ran(case, Now, "process", <<>>) = AfterPieces(case)[k]
  BY <1>1, <1>3 DEF SteadyInv
<1>6. Now' = Now
  BY <1>1, <1>4 DEF Now
<1>7. QED
  BY <1>1, <1>2, <1>3, <1>4, <1>5, <1>6, SteadyRun

(* A call with any room leaves the encoder on its way. *)
LEMMA CallIsSteady ==
    ASSUME CodecKeepsContract, Unbroken, IInv, NEW room \in case.rooms, EncoderCall(room),
           NEW t, t = Encode(enc, call.op, call.input, room)
    PROVE  /\ enc' = t.e /\ wire' = wire \o t.out
           /\ Ran(case, Now', call.op, t.input) = Ran(case, Now, call.op, call.input)
           /\ call.op = "finish" /\ Done(t.e, call.op, t.input) =>
                    wire' = Ran(case, Now, call.op, call.input).out
<1>1. Calling /\ enc' = t.e /\ wire' = wire \o t.out
  BY DEF EncoderCall
<1>2. EncoderSteady
  BY DEF CodecKeepsContract
<1> DEFINE whole == Ran(case, Now, call.op, call.input)
           next == [e |-> t.e, out |-> wire \o t.out]
<1>3. /\ Ran(case, next, call.op, t.input) = whole
      /\ call.op = "finish" /\ Done(t.e, call.op, t.input) => next.out = whole.out
  BY <1>1, <1>2, Zenon DEF EncoderSteady, Now
<1>4. Now' = next
  BY <1>1 DEF Now
<1>5. QED
  BY <1>1, <1>3, <1>4

LEMMA SteadyEncoder ==
    ASSUME IInv, IInv', CodecKeepsContract, SteadyInv, EncoderSteady', EncoderStep
    PROVE  /\ SteadyInv'
           /\ stream' # stream /\ Unbroken => wire' = Whole(case, given)
<1> SUFFICES ASSUME Unbroken PROVE SteadyInv' /\ (stream' # stream => wire' = Whole(case, given))
  BY DEF SteadyInv, Unbroken, EncoderStep, EncoderCall
<1>1. PICK room \in case.rooms : EncoderCall(room)
  BY DEF EncoderStep
<1>2. PICK t : t = Encode(enc, call.op, call.input, room)
  OBVIOUS
<1> DEFINE done == Done(t.e, call.op, t.input)
           n == Len(call.input) - Len(t.input)
<1>3. /\ enc' = t.e /\ wire' = wire \o t.out
      /\ Ran(case, Now', call.op, t.input) = Ran(case, Now, call.op, call.input)
      /\ call.op = "finish" /\ done => wire' = Ran(case, Now, call.op, call.input).out
  BY <1>1, <1>2, CallIsSteady
<1>4. /\ TypeInv /\ TypeInv' /\ Calling /\ Legal(enc, call.op, call.input)
      /\ call.op \in {"process", "finish"} /\ call.last \in {"none", "process", "finish"}
      /\ context \in {"streaming", "finished"} /\ metadata = <<>>
  BY <1>1 DEF IInv, EncoderInv, SteadyInv, EncoderCall, Calling
<1>5. t.ok /\ n \in 0..Len(call.input) /\ t.input = SubSeq(call.input, n + 1, Len(call.input))
  BY <1>1, <1>2, <1>4, EncoderContract
<1>6. /\ UNCHANGED <<case, context, metadata, given>> /\ taken' = taken \o SubSeq(call.input, 1, n)
      /\ \/ ~done /\ call' = [call EXCEPT !.input = t.input] /\ UNCHANGED held
         \/ done /\ Proceed
      /\ stream' = IF done /\ call.op = "finish" THEN Len(wire') ELSE stream
  BY <1>1, <1>2, <1>4, <1>5 DEF EncoderCall, DataOf
<1> HIDE DEF done, n
<1>7. /\ call \in CallType /\ taken \in Seq(Byte) /\ call.input \in Seq(Byte) /\ call.later \in Seq(Byte)
      /\ Len(taken) \in Nat /\ Len(call.input) \in Nat /\ taken' \in Seq(Byte) /\ case \in Cases
      /\ case.data \in Seq(Byte) /\ Len(case.data) \in Nat /\ given \in 0..Len(case.data)
      /\ Len(t.input) = Len(call.input) - n /\ Len(taken') = Len(taken) + n
  <2>1. /\ call \in CallType /\ taken \in Seq(Byte) /\ taken' \in Seq(Byte) /\ case \in Cases
        /\ given \in 0..Len(case.data)
    BY <1>4 DEF TypeInv
  <2>2. call.input \in Seq(Byte) /\ call.later \in Seq(Byte)
    BY <2>1 DEF CallType
  <2>3. Len(taken) \in Nat /\ Len(call.input) \in Nat /\ case.data \in Seq(Byte) /\ Len(case.data) \in Nat
    BY <2>1, <2>2, CasesAssumption, LenProperties
  <2>4. Len(t.input) = Len(call.input) - n /\ SubSeq(call.input, 1, n) \in Seq(Byte)
        /\ Len(SubSeq(call.input, 1, n)) = n
    BY <1>5, <2>2, <2>3, PartOfSeq
  <2>5. Len(taken') = Len(taken) + n
    BY <1>6, <2>1, <2>4, ConcatProperties
  <2>6. QED
    BY <2>1, <2>2, <2>3, <2>4, <2>5
<1>8. CASE ~done
  <2>1. /\ call'.op = call.op /\ call'.input = t.input /\ call'.last = call.last /\ stream' = stream
    BY <1>6, <1>7, <1>8 DEF CallType
  <2>2. Ran(case, Now', call'.op, call'.input) = Ran(case, Now, call.op, call.input)
    BY <1>3, <2>1
  <2>3. Len(taken') + Len(call'.input) = Len(taken) + Len(call.input)
    BY <1>5, <1>7, <2>1
  <2>4. QED
    BY <1>4, <1>6, <2>1, <2>2, <2>3 DEF SteadyInv, Calling
<1>9. CASE done /\ call.op = "process"
  <2>1. t.input = <<>> /\ Run(call.last, call.later, call.then) /\ stream' = stream
    BY <1>6, <1>9 DEF done, Done, Proceed
  <2>2. call.last \in {"process", "finish"} /\ call.then = <<>>
    BY <1>4, <1>9 DEF IInv, CallInv, Operations
  <2>3. PICK k \in Nat : /\ Len(taken) + Len(call.input) = Feed * k
                         /\ Ran(case, Now, "process", call.input) = AfterPieces(case)[k]
    BY <1>9 DEF SteadyInv
  <2>4. Len(taken') = Feed * k /\ Ran(case, Now', "process", <<>>) = AfterPieces(case)[k]
    <3>1. Len(t.input) = 0
      BY <2>1, EmptySeq
    <3>2. n = Len(call.input)
      BY <1>5, <1>7, <3>1
    <3>3. Len(taken') = Feed * k
      BY <1>7, <2>3, <3>2
    <3>4. Ran(case, Now', "process", <<>>) = AfterPieces(case)[k]
      BY <1>3, <1>9, <2>1, <2>3
    <3>5. QED
      BY <3>3, <3>4
  <2>5. Part(case.data, call.later, Len(taken')) /\ given' = Len(taken') + Len(call.later)
    <3>1. /\ Part(case.data, call.later, Len(taken) + Len(call.input))
          /\ given = Len(taken) + Len(call.input) + Len(call.later) + Len(call.then) + Len(held)
          /\ held = <<>>
      BY <1>9 DEF IInv, FlowInv, Flow, CallData, CallInv, Operations
    <3>2. Len(taken') = Len(taken) + Len(call.input) /\ Len(<<>>) = 0 /\ Len(call.later) \in Nat
      BY <1>7, <2>3, <2>4, EmptySeq, LenProperties
    <3>3. given = Len(taken') + Len(call.later) + 0 + 0
      BY <2>2, <3>1, <3>2
    <3>4. given' = Len(taken') + Len(call.later)
      <4> DEFINE a == Len(taken')
                 b == Len(call.later)
      <4>1. a \in Nat /\ b \in Nat
        BY <1>7, LenProperties
      <4>2. given' = given /\ given = a + b + 0 + 0
        BY <1>6, <3>3
      <4> HIDE DEF a, b
      <4>3. given' = a + b
        BY <4>1, <4>2
      <4>4. QED
        BY <4>3 DEF a, b
    <3>5. QED
      BY <3>1, <3>2, <3>4
  <2>6. given' <= Len(case.data) /\ case' = case
    BY <1>6, <1>7
  <2>7. Run(call.last, call.later, <<>>)
    BY <2>1, <2>2
  <2>8. SteadyInv'
    BY <1>4, <1>6, <1>7, <2>2, <2>4, <2>5, <2>6, <2>7, SteadyRun
  <2>9. QED
    BY <2>1, <2>8
<1>10. CASE done /\ call.op = "finish"
  <2>1. Run("process", call.then, <<>>) /\ call.then = <<>> /\ context = "finished"
    BY <1>4, <1>6, <1>10 DEF Proceed, IInv, CallInv
  <2>2. call' = NoCall
    BY <2>1, EmptySeq, FeedAssumption DEF Run, CallOf
  <2>3. SteadyInv'
    BY <1>4, <1>6, <2>1, <2>2 DEF SteadyInv, Calling, NoCall
  <2>4. wire' = Whole(case, given)
    BY <1>3, <1>10 DEF SteadyInv
  <2>5. QED
    BY <2>3, <2>4
<1>11. QED
  BY <1>4, <1>6, <1>8, <1>9, <1>10

(* Every step keeps it, and the step that completes the stream makes the whole. *)
LEMMA SteadyStep ==
    ASSUME IInv, IInv', CodecKeepsContract, CodecKeepsContract', SteadyInv, [Next]_vars
    PROVE  SteadyInv' /\ (stream' # stream /\ Unbroken => wire' = Whole(case, given))
<1>1. EncoderSteady'
  BY DEF CodecKeepsContract
<1>2. ASSUME NEW n \in case.chunks, Transform(Least(n, Len(case.data) - given))
      PROVE  SteadyInv' /\ stream' = stream
  BY <1>1, <1>2, SteadyTransform DEF Transform
<1>3. CASE Flush
  <2>1. case.flushes /\ case' = case /\ stream' = stream
    BY <1>3 DEF Flush
  <2>2. QED
    BY <2>1 DEF SteadyInv, Unbroken
<1>4. CASE Finish
  BY <1>1, <1>4, SteadyFinish DEF Finish
<1>5. CASE EmitMetadata
  <2>1. metadata # <<>> /\ case' = case /\ stream' = stream
    BY <1>5 DEF EmitMetadata
  <2>2. ~Unbroken /\ Unbroken' = Unbroken
    BY <2>1 DEF SteadyInv, Unbroken
  <2>3. QED
    BY <2>1, <2>2 DEF SteadyInv
<1>6. CASE EncoderStep
  BY <1>1, <1>6, SteadyEncoder
<1>7. CASE Follow
  <2>1. /\ UNCHANGED <<case, context, call, held, taken, metadata, given, stream>> /\ stream = Len(wire)
    BY <1>7 DEF Follow
  <2>2. stream # Open
    BY <2>1, LenProperties DEF IInv, TypeInv, Open
  <2>3. context = "finished" /\ ~Calling
    BY <2>2 DEF IInv, WireInv
  <2>4. call = NoCall
    BY <2>3 DEF IInv, CallInv
  <2>5. QED
    BY <2>1, <2>3, <2>4 DEF SteadyInv, Unbroken, Calling, NoCall
<1>8. ASSUME UNCHANGED <<case, compressor>>
      PROVE  SteadyInv' /\ stream' = stream
  BY <1>8, SteadyUntouched DEF compressor
<1>9. CASE Receive \/ DecoderFinish \/ DecoderStep \/ UNCHANGED vars
  <2>1. UNCHANGED <<case, compressor>>
    BY <1>9 DEF Receive, Decompress, DecoderFinish, DecoderStep, DecoderCall, vars, compressor
  <2>2. QED
    BY <1>8, <2>1
<1>10. QED
  BY <1>2, <1>3, <1>4, <1>5, <1>6, <1>7, <1>9 DEF Next

(* The stream of a context whose data is neither flushed nor broken up is the *)
(* one that the encoder makes of its pieces of Feed bytes, however the data came in *)
(* chunks and however much room each call had (StreamEncoder::run). *)
THEOREM ChunksDoNotMatterHolds == Spec /\ []CodecKeepsContract => ChunksDoNotMatter
<1>1. Init => SteadyInv
  BY SteadyInitially
<1>2. /\ IInv /\ IInv' /\ CodecKeepsContract /\ CodecKeepsContract' /\ SteadyInv /\ [Next]_vars
      => SteadyInv'
  BY SteadyStep
<1>3. /\ IInv /\ IInv' /\ CodecKeepsContract /\ CodecKeepsContract' /\ SteadyInv /\ [Next]_vars
      => [stream' # stream /\ Unbroken => wire' = Whole(case, given)]_vars
  BY SteadyStep
<1>4. QED
  BY <1>1, <1>2, <1>3, InvHolds, PTL DEF Spec, ChunksDoNotMatter

-----------------------------------------------------------------------------
(* The ring buffer of the encoder holds its input.                          *)

(* Writes are well defined, like the pieces above. *)
FirstWrite(rb) == [rb |-> rb, from |-> 0]
NextWrite(s0, bytes, ends, k) == CHOOSE r \in {WriteAt(s, bytes, ends, k) : s \in {s0}} : TRUE
IsWritten(rb, bytes, ends, f, n) ==
    f = [k \in 0..n |-> IF k = 0 THEN FirstWrite(rb) ELSE NextWrite(f[k - 1], bytes, ends, k)]

(* A write makes one ring buffer of one. *)
LEMMA NextWriteIs ==
    ASSUME NEW s0, NEW bytes, NEW ends, NEW k
    PROVE  NextWrite(s0, bytes, ends, k) = WriteAt(s0, bytes, ends, k)
<1> DEFINE w == WriteAt(s0, bytes, ends, k)
<1>1. {WriteAt(s, bytes, ends, k) : s \in {s0}} = {w}
  BY Zenon
<1> HIDE DEF w
<1>2. (CHOOSE r \in {w} : TRUE) = w
  OBVIOUS
<1>3. QED
  BY <1>1, <1>2 DEF NextWrite, w

(* So many writes have made some ring buffer. *)
LEMMA SomeWritten ==
    ASSUME NEW rb, NEW bytes, NEW ends, NEW m \in Nat
    PROVE  \E f : IsWritten(rb, bytes, ends, f, m)
<1> DEFINE T == {n \in Nat : ~\E f : IsWritten(rb, bytes, ends, f, n)}
           N(s, k) == NextWrite(s, bytes, ends, k)
<1>1. SUFFICES ASSUME T # {} PROVE FALSE
  OBVIOUS
<1>2. PICK n \in T : \A y \in T : n <= y
  BY <1>1, LeastElement
<1>3. n \in Nat /\ ~\E f : IsWritten(rb, bytes, ends, f, n)
  BY <1>2
<1>4. CASE n = 0
  <2> DEFINE f == [k \in 0..0 |-> FirstWrite(rb)]
  <2>1. f = [k \in 0..0 |-> IF k = 0 THEN FirstWrite(rb) ELSE NextWrite(f[k - 1], bytes, ends, k)]
    OBVIOUS
  <2>2. IsWritten(rb, bytes, ends, f, 0)
    BY <2>1, Zenon DEF IsWritten
  <2>3. QED
    BY <1>3, <1>4, <2>2
<1>5. CASE n # 0
  <2>1. n - 1 \in Nat /\ n - 1 \notin T
    BY <1>2, <1>3, <1>5
  <2>2. PICK f : IsWritten(rb, bytes, ends, f, n - 1)
    BY <2>1
  <2> DEFINE g == [k \in 0..n |-> IF k = n THEN NextWrite(f[n - 1], bytes, ends, n) ELSE f[k]]
  <2>3. f = [k \in 0..n - 1 |-> IF k = 0 THEN FirstWrite(rb) ELSE NextWrite(f[k - 1], bytes, ends, k)]
    BY <2>2 DEF IsWritten
  <2>4. ASSUME NEW k \in 0..n
        PROVE  g[k] = IF k = 0 THEN FirstWrite(rb) ELSE NextWrite(g[k - 1], bytes, ends, k)
    <3>1. CASE k = n
      BY <1>3, <1>5, <3>1
    <3>2. CASE k # n
      <4>1. k \in 0..n - 1 /\ g[k] = f[k] /\ (k # 0 => k - 1 \in 0..n /\ k - 1 # n)
        BY <1>3, <3>2
      <4>2. f[k] = IF k = 0 THEN FirstWrite(rb) ELSE NextWrite(f[k - 1], bytes, ends, k)
        BY <2>3, <4>1
      <4>3. k # 0 => g[k - 1] = f[k - 1]
        BY <4>1
      <4>4. QED
        BY <4>1, <4>2, <4>3
    <3>3. QED
      BY <3>1, <3>2
  <2>5. IsWritten(rb, bytes, ends, g, n)
    <3>1. g = [k \in 0..n |-> g[k]]
      OBVIOUS
    <3> HIDE DEF g
    <3>2. QED
      BY <2>4, <3>1 DEF IsWritten
  <2>6. QED
    BY <1>3, <2>5
<1>6. QED
  BY <1>4, <1>5

(* The ring buffer is that after the last of a sequence of writes. *)
LEMMA WritesFollow ==
    ASSUME NEW rb, NEW bytes, NEW ends, NEW n \in Nat, n = Len(bytes)
    PROVE  \E f : /\ f[0] = FirstWrite(rb) /\ Written(rb, bytes, ends) = f[n].rb
                  /\ \A k \in 1..n : f[k] = WriteAt(f[k - 1], bytes, ends, k)
<1> DEFINE f == CHOOSE f : IsWritten(rb, bytes, ends, f, n)
<1>1. IsWritten(rb, bytes, ends, f, n)
  BY SomeWritten, Zenon
<1>2. Written(rb, bytes, ends) = f[n].rb
  BY Zenon DEF Written, IsWritten, FirstWrite, NextWrite
<1> HIDE DEF f
<1>3. \A k \in 0..n : f[k] = IF k = 0 THEN FirstWrite(rb) ELSE NextWrite(f[k - 1], bytes, ends, k)
  <2>1. f = [k \in 0..n |-> IF k = 0 THEN FirstWrite(rb) ELSE NextWrite(f[k - 1], bytes, ends, k)]
    BY <1>1 DEF IsWritten
  <2>2. QED
    BY <2>1
<1>4. ASSUME NEW k \in 1..n PROVE f[k] = WriteAt(f[k - 1], bytes, ends, k)
  <2>1. k \in 0..n /\ k # 0
    OBVIOUS
  <2>2. f[k] = NextWrite(f[k - 1], bytes, ends, k)
    BY <1>3, <2>1
  <2>3. QED
    BY <2>2, NextWriteIs
<1>5. f[0] = FirstWrite(rb)
  BY <1>3
<1>6. QED
  BY <1>2, <1>4, <1>5

(* A ring buffer, after writes of the first bytes up to a place; from there on the *)
(* next one ends at k or behind it. *)
Upto(s, rb, data, bytes, ends, k) ==
    /\ s.from \in 0..k /\ s.from \in ends \cup {0} /\ \A e \in ends : e <= s.from \/ e > k
    /\ Same(s.rb, rb) /\ Fits(s.rb, data \o SubSeq(bytes, 1, s.from))
    /\ Holds(s.rb, data \o SubSeq(bytes, 1, s.from))

(* Three sequences of numbers in a row. *)
LEMMA NumbersAssociate == \A a, b, c \in Seq(Nat) : (a \o b) \o c = a \o (b \o c)
BY ConcatAssociative

(* A byte more. *)
LEMMA UptoNext ==
    ASSUME NEW rb, NEW data \in Seq(Nat), NEW bytes \in Seq(Nat), NEW ends \in SUBSET Nat,
           EndsOfParts(ends, Len(bytes), rb.tail_size), LapSize % rb.size = 0, rb.tail_size \in Nat,
           NEW k \in 1..Len(bytes), NEW s, Upto(s, rb, data, bytes, ends, k - 1)
    PROVE  Upto(WriteAt(s, bytes, ends, k), rb, data, bytes, ends, k)
<1> DEFINE n == Len(bytes)
           i == s.from
           front == SubSeq(bytes, 1, i)
           part == SubSeq(bytes, i + 1, k)
           w == WriteAt(s, bytes, ends, k)
<1>1. n \in Nat /\ k \in Nat /\ k <= n /\ k # 0 /\ i \in Nat /\ i <= k - 1
  BY LenProperties DEF Upto
<1>2. /\ i \in ends \cup {0} /\ \A e \in ends : e <= i \/ e > k - 1
      /\ Same(s.rb, rb) /\ Fits(s.rb, data \o front) /\ Holds(s.rb, data \o front)
  BY DEF Upto
<1>3. CASE k \notin ends
  <2>1. w = s
    BY <1>3 DEF WriteAt
  <2>2. \A e \in ends : e <= i \/ e > k
    BY <1>1, <1>2, <1>3
  <2>3. QED
    BY <1>1, <1>2, <2>1, <2>2 DEF Upto
<1>4. CASE k \in ends
  <2>1. w = [rb |-> PushInput(s.rb, part), from |-> k]
    BY <1>4 DEF WriteAt
  <2>2. k <= i + rb.tail_size
    <3>1. i \in (ends \cup {0}) \ {n}
      BY <1>1, <1>2
    <3>2. PICK e \in ends : i < e /\ e <= i + rb.tail_size
      BY <3>1 DEF EndsOfParts
    <3>3. e \in Nat /\ e > k - 1
      BY <1>1, <1>2, <3>2
    <3>4. QED
      BY <1>1, <3>2, <3>3
  <2> HIDE DEF w, n, i
  <2>3. part \in Seq(Nat) /\ Len(part) = k - i
    <3>1. i + 1 \in Nat \ {0} /\ i + 1 <= k + 1 /\ k <= Len(bytes) /\ k - (i + 1) + 1 = k - i
      BY <1>1 DEF n
    <3>2. part \in Seq(Nat) /\ Len(part) = k - (i + 1) + 1
      BY <1>1, <3>1, PartOfSeq
    <3>3. QED
      BY <3>1, <3>2
  <2>4. front \in Seq(Nat) /\ data \o front \in Seq(Nat)
    <3>1. i <= Len(bytes)
      BY <1>1 DEF n
    <3>2. front \in Seq(Nat)
      BY <1>1, <3>1, LongerPart, LenProperties
    <3>3. QED
      BY <3>2, ConcatProperties
  <2>5. (data \o front) \o part = data \o SubSeq(bytes, 1, k)
    <3>1. front \o part = SubSeq(bytes, 1, k)
      <4>1. 1 \in 1..Len(bytes) + 1 /\ i \in 1 - 1..Len(bytes) /\ k \in i..Len(bytes)
        BY <1>1 DEF n
      <4>2. QED
        BY <4>1, ConcatAdjacentSubSeq
    <3> HIDE DEF front, part
    <3>2. (data \o front) \o part = data \o (front \o part)
      BY <2>3, <2>4, NumbersAssociate, Zenon
    <3>3. QED
      BY <3>1, <3>2
  <2>6. Len(part) <= s.rb.tail_size /\ LapSize % s.rb.size = 0
    <3>1. s.rb.tail_size = rb.tail_size /\ s.rb.size = rb.size
      BY <1>2 DEF Same
    <3> HIDE DEF part
    <3>2. QED
      BY <1>1, <2>2, <2>3, <3>1
  <2> HIDE DEF front, part
  <2>7. /\ Same(PushInput(s.rb, part), s.rb)
        /\ Fits(PushInput(s.rb, part), (data \o front) \o part)
        /\ Holds(PushInput(s.rb, part), (data \o front) \o part)
    BY <1>2, <2>3, <2>4, <2>6, RingBufferKeepsInput, Zenon
  <2>8. w.from = k /\ w.rb = PushInput(s.rb, part)
    BY <2>1
  <2>9. Same(w.rb, rb)
    BY <1>2, <2>7, <2>8 DEF Same
  <2>10. Fits(w.rb, data \o SubSeq(bytes, 1, k)) /\ Holds(w.rb, data \o SubSeq(bytes, 1, k))
    BY <2>5, <2>7, <2>8
  <2>11. k \in 0..k /\ \A e \in ends : e <= k \/ e > k
    BY <1>1
  <2>12. Upto(w, rb, data, bytes, ends, k)
    BY <1>4, <2>8, <2>9, <2>10, <2>11, Zenon DEF Upto
  <2>13. QED
    BY <2>12 DEF w
<1>5. QED
  BY <1>3, <1>4

(* Writes keep the input, if none is longer than the tail: by induction over the *)
(* bytes. *)
LEMMA WritesKeepInput ==
    ASSUME NEW rb, NEW data \in Seq(Nat), NEW bytes \in Seq(Nat), NEW ends \in SUBSET Nat,
           EndsOfParts(ends, Len(bytes), rb.tail_size), LapSize % rb.size = 0,
           Fits(rb, data), Holds(rb, data)
    PROVE  LET next == Written(rb, bytes, ends)
           IN  Same(next, rb) /\ Fits(next, data \o bytes) /\ Holds(next, data \o bytes)
<1> DEFINE n == Len(bytes)
<1>1. n \in Nat /\ rb.tail_size \in Nat
  BY LenProperties, FitsIs
<1>2. PICK f : /\ f[0] = FirstWrite(rb) /\ Written(rb, bytes, ends) = f[n].rb
               /\ \A k \in 1..n : f[k] = WriteAt(f[k - 1], bytes, ends, k)
  BY <1>1, WritesFollow
<1> HIDE DEF n
<1>3. \A k \in 0..n : Upto(f[k], rb, data, bytes, ends, k)
  <2> DEFINE T == {k \in 0..n : ~Upto(f[k], rb, data, bytes, ends, k)}
  <2>1. SUFFICES ASSUME T # {} PROVE FALSE
    OBVIOUS
  <2>2. PICK k \in T : \A y \in T : k <= y
    <3>1. T \subseteq Nat
      BY <1>1
    <3> HIDE DEF T
    <3>2. QED
      BY <2>1, <3>1, LeastElement
  <2>3. k \in 0..n /\ ~Upto(f[k], rb, data, bytes, ends, k)
    BY <2>2
  <2>4. CASE k = 0
    <3>1. f[0].rb = rb /\ f[0].from = 0
      BY <1>2 DEF FirstWrite
    <3>2. SubSeq(bytes, 1, 0) = <<>>
      BY SubSeqEmpty
    <3>3. data \o <<>> = data
      BY ConcatEmptySeq
    <3>4. \A e \in ends : e <= 0 \/ e > 0
      OBVIOUS
    <3>5. Same(rb, rb)
      BY DEF Same
    <3>6. Upto(f[0], rb, data, bytes, ends, 0)
      <4> DEFINE s == f[0]
      <4>1. s.from = 0 /\ s.rb = rb /\ 0 \in 0..0
        BY <3>1
      <4> HIDE DEF s
      <4>2. data \o SubSeq(bytes, 1, s.from) = data
        BY <3>2, <3>3, <4>1
      <4>3. Upto(s, rb, data, bytes, ends, 0)
        BY <3>4, <3>5, <4>1, <4>2 DEF Upto
      <4>4. QED
        BY <4>3 DEF s
    <3>7. QED
      BY <2>3, <2>4, <3>6
  <2>5. CASE k # 0
    <3>1. k \in 1..n /\ k - 1 \in 0..n /\ k - 1 \notin T
      BY <1>1, <2>2, <2>3, <2>5
    <3>2. Upto(f[k - 1], rb, data, bytes, ends, k - 1)
      BY <3>1
    <3> HIDE DEF T
    <3>3. Upto(WriteAt(f[k - 1], bytes, ends, k), rb, data, bytes, ends, k)
      BY <1>1, <3>1, <3>2, UptoNext DEF n
    <3>4. QED
      BY <1>2, <2>3, <3>1, <3>3
  <2>6. QED
    BY <2>4, <2>5
<1>4. Upto(f[n], rb, data, bytes, ends, n)
  BY <1>1, <1>3
<1>5. f[n].from = n
  <2>1. n \in ends
    BY DEF EndsOfParts, n
  <2>2. f[n].from \in 0..n /\ (n <= f[n].from \/ n > n)
    BY <1>4, <2>1 DEF Upto
  <2>3. QED
    BY <1>1, <2>2
<1>6. SubSeq(bytes, 1, n) = bytes
  BY SubSeqFull DEF n
<1>7. QED
  BY <1>2, <1>4, <1>5, <1>6 DEF Upto

(* The input of the encoder: at qualities 0 and 1, none. *)
Pushed == IF case.quality < 2 THEN <<>> ELSE taken
RingInv ==
    /\ enc.input_pos = Len(Pushed)
    /\ ~enc.is_initialized => Pushed = <<>>
    /\ context = "holding" => taken = <<>>
    /\ enc.is_initialized =>
            /\ LapSize % enc.ringbuffer.size = 0
            /\ Fits(enc.ringbuffer, Pushed) /\ Holds(enc.ringbuffer, Pushed)

(* An encoder that is not set up has got no input. *)
LEMMA RingInitially == Init => RingInv
<1> SUFFICES ASSUME Init PROVE RingInv
  OBVIOUS
<1>1. case \in Cases /\ 0 \in 0..Len(case.data) /\ enc = NewEncoder(case, 0) /\ taken = <<>>
  BY CasesAssumption, LenProperties DEF Init
<1>2. ~enc.is_initialized /\ enc.input_pos = 0
  BY <1>1, CodecAssumption
<1>3. Pushed = <<>> /\ Len(<<>>) = 0
  BY <1>1, EmptySeq DEF Pushed
<1>4. QED
  BY <1>1, <1>2, <1>3 DEF RingInv

(* The contract, for a call of the encoder: what the ring buffer was, and where the *)
(* parts end that were written to it. *)
Writing(e, old, bytes, ends) ==
    /\ enc.is_initialized => old = enc.ringbuffer
    /\ ~enc.is_initialized =>
          /\ old = NewRing(old) /\ LapSize % old.size = 0
          /\ old.size \in Nat /\ old.tail_size \in Nat /\ old.tail_size >= 2
          /\ old.size >= 2 * old.tail_size
    /\ e.is_initialized /\ e.input_pos = enc.input_pos + Len(bytes)
    /\ ends \subseteq (1..Len(bytes) - 1) \cup {Len(bytes)}
    /\ EndsOfParts(ends, Len(bytes), old.tail_size)
    /\ e.ringbuffer = Written(old, bytes, ends)

(* A call that takes data writes it in parts. *)
LEMMA WritesContract ==
    ASSUME CodecKeepsContract, Calling, NEW room \in case.rooms, NEW t,
           t = Encode(enc, call.op, call.input, room), NEW bytes,
           bytes = IF case.quality < 2 THEN <<>> ELSE DataOf(Len(call.input) - Len(t.input))
    PROVE  \E old, ends : Writing(t.e, old, bytes, ends)
<1> DEFINE old == IF enc.is_initialized THEN enc.ringbuffer ELSE NewRing(t.e.ringbuffer)
<1>1. EncoderWrites
  BY DEF CodecKeepsContract
<1>2. Wrote(t.e, old, bytes)
  BY <1>1, Zenon DEF EncoderWrites
<1>3. /\ enc.is_initialized => old = enc.ringbuffer
      /\ ~enc.is_initialized => old = NewRing(old)
  BY DEF NewRing
<1> HIDE DEF old
<1>4. PICK inner \in SUBSET (1..Len(bytes) - 1) :
              /\ EndsOfParts(inner \cup {Len(bytes)}, Len(bytes), old.tail_size)
              /\ t.e.ringbuffer = Written(old, bytes, inner \cup {Len(bytes)})
  BY <1>2, Zenon DEF Wrote
<1>5. /\ t.e.is_initialized /\ t.e.input_pos = enc.input_pos + Len(bytes)
      /\ ~enc.is_initialized => /\ old.size \in Nat /\ old.tail_size \in Nat /\ old.tail_size >= 2
                                /\ old.size >= 2 * old.tail_size /\ LapSize % old.size = 0
  BY <1>2, Zenon DEF Wrote
<1>6. inner \cup {Len(bytes)} \subseteq (1..Len(bytes) - 1) \cup {Len(bytes)}
  OBVIOUS
<1>7. Writing(t.e, old, bytes, inner \cup {Len(bytes)})
  BY <1>3, <1>4, <1>5, <1>6, Zenon DEF Writing
<1>8. QED
  BY <1>7, Zenon

(* The ring buffer is of numbers. *)
LEMMA BytesAreNumbers == \A s \in Seq(Byte) : s \in Seq(Nat)
<1> SUFFICES ASSUME NEW s \in Seq(Byte) PROVE s \in Seq(Nat)
  OBVIOUS
<1>1. Len(s) \in Nat
  BY LenProperties
<1>2. \A i \in 1..Len(s) : s[i] \in Nat
  <2> SUFFICES ASSUME NEW i \in 1..Len(s) PROVE s[i] \in Nat
    OBVIOUS
  <2>1. s[i] \in Byte
    BY ElementOfSeq
  <2>2. \A b \in Byte : b \in Nat
    BY DEF Byte
  <2>3. QED
    BY <2>1, <2>2
<1>3. s = [i \in 1..Len(s) |-> s[i]]
  BY LenProperties
<1>4. QED
  BY <1>1, <1>2, <1>3

(* A call of the encoder writes what it takes behind all that came before. *)
LEMMA RingEncoder ==
    ASSUME IInv, IInv', CodecKeepsContract, RingInv, EncoderStep
    PROVE  RingInv'
<1>1. PICK room \in case.rooms : EncoderCall(room)
  BY DEF EncoderStep
<1>2. PICK t : t = Encode(enc, call.op, call.input, room)
  OBVIOUS
<1> DEFINE took == DataOf(Len(call.input) - Len(t.input))
           bytes == IF case.quality < 2 THEN <<>> ELSE took
<1>3. /\ Calling /\ enc' = t.e /\ case' = case /\ taken' = taken \o took
      /\ context' = IF t.ok THEN context ELSE "failed"
  BY <1>1, <1>2 DEF EncoderCall
<1>4. /\ taken \in Seq(Byte) /\ taken' \in Seq(Byte) /\ TypeInv /\ call \in CallType
      /\ context' # "failed" /\ context # "holding" /\ Legal(enc, call.op, call.input)
  BY <1>3 DEF IInv, TypeInv, CallInv, EncoderInv
<1>5. took \in Seq(Byte)
  <2> DEFINE n == Len(call.input) - Len(t.input)
  <2>1. n \in 0..Len(call.input)
    BY <1>2, <1>3, <1>4, EncoderContract
  <2> HIDE DEF n
  <2>2. call.input \in Seq(Byte) /\ Len(call.input) \in Nat /\ n <= Len(call.input) /\ n \in Nat
    BY <1>4, <2>1, LenProperties DEF CallType
  <2>3. SubSeq(call.input, 1, n) \in Seq(Byte) /\ <<>> \in Seq(Byte)
    BY <2>2, LongerPart, EmptySeq
  <2>4. QED
    BY <2>3 DEF DataOf, n
<1> HIDE DEF took
<1>6. bytes \in Seq(Nat) /\ Pushed \in Seq(Nat)
  BY <1>4, <1>5, BytesAreNumbers, EmptySeq DEF Pushed
<1>7. Pushed' = Pushed \o bytes
  <2>1. CASE case.quality < 2
    BY <1>3, <1>6, <2>1, ConcatEmptySeq DEF Pushed
  <2>2. CASE ~(case.quality < 2)
    BY <1>3, <2>2 DEF Pushed
  <2>3. QED
    BY <2>1, <2>2
<1>b. bytes = IF case.quality < 2 THEN <<>> ELSE DataOf(Len(call.input) - Len(t.input))
  BY DEF took
<1> HIDE DEF bytes
<1>8. PICK old, ends : Writing(t.e, old, bytes, ends)
  BY <1>2, <1>3, <1>b, WritesContract, Zenon
<1>9. Fits(old, Pushed) /\ Holds(old, Pushed) /\ LapSize % old.size = 0
  <2>1. CASE enc.is_initialized
    BY <1>8, <2>1 DEF RingInv, Writing
  <2>2. CASE ~enc.is_initialized
    <3>1. Pushed = <<>>
      BY <2>2 DEF RingInv
    <3>2. /\ old = NewRing(old) /\ old.size \in Nat /\ old.tail_size \in Nat /\ old.tail_size >= 2
          /\ old.size >= 2 * old.tail_size /\ LapSize % old.size = 0
      BY <1>8, <2>2 DEF Writing
    <3>3. Fits(old, <<>>) /\ Holds(old, <<>>)
      BY <3>2, NewRingBufferFits DEF NewRing
    <3>4. QED
      BY <3>1, <3>2, <3>3
  <2>3. QED
    BY <2>1, <2>2
<1>10. ends \in SUBSET Nat
  <2>1. Len(bytes) \in Nat
    BY <1>6, LenProperties
  <2>2. QED
    BY <1>8, <2>1 DEF Writing
<1>w. /\ EndsOfParts(ends, Len(bytes), old.tail_size) /\ t.e.ringbuffer = Written(old, bytes, ends)
      /\ t.e.is_initialized /\ t.e.input_pos = enc.input_pos + Len(bytes)
  BY <1>8, Zenon DEF Writing
<1>11. /\ Same(t.e.ringbuffer, old) /\ Fits(t.e.ringbuffer, Pushed \o bytes)
       /\ Holds(t.e.ringbuffer, Pushed \o bytes)
  BY <1>6, <1>9, <1>10, <1>w, WritesKeepInput, Zenon
<1>12. enc'.input_pos = Len(Pushed')
  <2>1. Len(Pushed \o bytes) = Len(Pushed) + Len(bytes)
    BY <1>6, ConcatProperties
  <2>2. QED
    BY <1>3, <1>7, <1>w, <2>1 DEF RingInv
<1>13. LapSize' = LapSize /\ LapSize % t.e.ringbuffer.size = 0
  BY <1>9, <1>11 DEF Same
<1>14. QED
  BY <1>3, <1>4, <1>7, <1>w, <1>11, <1>12, <1>13 DEF RingInv

(* Every step keeps it: but for the encoder, only the finish of a context that *)
(* holds its input changes the encoder, and that makes a new one. *)
LEMMA RingStep ==
    ASSUME IInv, IInv', CodecKeepsContract, RingInv, [Next]_vars
    PROVE  RingInv'
<1>1. ASSUME UNCHANGED <<case, enc, taken>>, context' = "holding" => context = "holding"
      PROVE  RingInv'
  BY <1>1 DEF RingInv, Pushed
<1>2. ASSUME NEW n \in case.chunks, Transform(Least(n, Len(case.data) - given))
      PROVE  RingInv'
  BY <1>1, <1>2 DEF Transform
<1>3. CASE Flush
  BY <1>1, <1>3 DEF Flush
<1>4. CASE Finish
  <2>1. CASE context = "streaming"
    BY <1>1, <1>4, <2>1 DEF Finish
  <2>2. CASE context = "holding"
    <3>1. /\ ~Calling /\ context' = "finished" /\ enc' = NewEncoder(case, Len(held))
          /\ UNCHANGED <<case, taken>> /\ taken = <<>>
      BY <1>4, <2>2 DEF Finish, RingInv
    <3>2. case \in Cases /\ Len(held) \in 0..Len(case.data)
      BY <3>1, Idle
    <3>3. ~enc'.is_initialized /\ enc'.input_pos = 0
      BY <3>1, <3>2, CodecAssumption
    <3>4. Pushed' = <<>> /\ Len(<<>>) = 0
      BY <3>1, EmptySeq DEF Pushed
    <3>5. QED
      BY <3>1, <3>3, <3>4 DEF RingInv
  <2>3. QED
    BY <1>4, <2>1, <2>2 DEF Finish
<1>5. CASE EmitMetadata
  BY <1>1, <1>5 DEF EmitMetadata
<1>6. CASE EncoderStep
  BY <1>6, RingEncoder
<1>7. CASE Follow
  BY <1>1, <1>7 DEF Follow
<1>8. CASE Receive \/ DecoderFinish \/ DecoderStep \/ UNCHANGED vars
  BY <1>1, <1>8 DEF Receive, Decompress, DecoderFinish, DecoderStep, DecoderCall, vars, compressor
<1>9. QED
  BY <1>2, <1>3, <1>4, <1>5, <1>6, <1>7, <1>8 DEF Next

(* The ring buffer has the last bytes that the encoder took at their places,  *)
(* whatever the sizes of the calls and of the ring: so that a match, a hash   *)
(* or a block is of the input (CopyInputToRingBuffer, encode.c:818-871).      *)
THEOREM RingHoldsInputHolds == Spec /\ []CodecKeepsContract => []RingHoldsInput
<1>1. IInv /\ RingInv => RingHoldsInput
  <2> SUFFICES ASSUME IInv, RingInv, enc.is_initialized
               PROVE  /\ Fits(enc.ringbuffer, SubSeq(case.data, 1, enc.input_pos))
                      /\ Holds(enc.ringbuffer, SubSeq(case.data, 1, enc.input_pos))
    BY DEF RingHoldsInput
  <2>1. Fits(enc.ringbuffer, Pushed) /\ Holds(enc.ringbuffer, Pushed) /\ enc.input_pos = Len(Pushed)
    BY DEF RingInv
  <2>2. SubSeq(case.data, 1, Len(Pushed)) = Pushed
    <3>1. taken = SubSeq(case.data, 0 + 1, 0 + Len(taken)) /\ Len(taken) \in Nat
      BY LenProperties DEF IInv, TypeInv, FlowInv, Flow, Part
    <3>2. taken = SubSeq(case.data, 1, Len(taken))
      BY <3>1
    <3>3. SubSeq(case.data, 1, Len(<<>>)) = <<>>
      BY SubSeqEmpty, EmptySeq
    <3>4. QED
      BY <3>2, <3>3 DEF Pushed
  <2>3. QED
    BY <2>1, <2>2
<1>2. IInv /\ IInv' /\ CodecKeepsContract /\ RingInv /\ [Next]_vars => RingInv'
  BY RingStep
<1>3. QED
  BY <1>1, <1>2, RingInitially, InvHolds, PTL DEF Spec
--------------------------------------------------------------------------------
(* The bits and the codes that both ends of libbrotli compute.             *)

(* A power of two counts the subsets of a set, and one more element doubles it. *)
LEMMA PowerStep ==
    ASSUME NEW n \in Nat
    PROVE  2^n \in Nat \ {0} /\ 2^(n + 1) = 2 * 2^n
<1> DEFINE A == 1..n
           B == 1..n + 1
           x == n + 1
           More == {T \cup {x} : T \in SUBSET A}
           f == [T \in SUBSET A |-> T \cup {x}]
<1>1. /\ IsFiniteSet(A) /\ Cardinality(A) = n /\ IsFiniteSet(B) /\ Cardinality(B) = n + 1
  BY FS_Interval
<1>2. x \notin A /\ B = A \cup {x}
  OBVIOUS
<1> HIDE DEF A, B, x
<1>3. /\ IsFiniteSet(SUBSET A) /\ Cardinality(SUBSET A) = 2^n
      /\ IsFiniteSet(SUBSET B) /\ Cardinality(SUBSET B) = 2^(n + 1)
  BY <1>1, FS_SUBSET
<1>4. SUBSET B = (SUBSET A) \cup More
  <2>1. ASSUME NEW T \in SUBSET B PROVE T \in (SUBSET A) \cup More
    <3>1. CASE x \in T
      <4>1. T \ {x} \in SUBSET A /\ T = (T \ {x}) \cup {x}
        BY <1>2, <3>1
      <4>2. QED
        BY <4>1
    <3>2. CASE x \notin T
      BY <1>2, <3>2
    <3>3. QED
      BY <3>1, <3>2
  <2>2. More \subseteq SUBSET B /\ SUBSET A \subseteq SUBSET B
    BY <1>2
  <2>3. QED
    BY <2>1, <2>2
<1>5. (SUBSET A) \cap More = {}
  BY <1>2
<1>6. ExistsBijection(SUBSET A, More)
  <2>1. f \in [SUBSET A -> More]
    OBVIOUS
  <2>2. \A S, T \in SUBSET A : f[S] = f[T] => S = T
    <3> SUFFICES ASSUME NEW S \in SUBSET A, NEW T \in SUBSET A, f[S] = f[T] PROVE S = T
      OBVIOUS
    <3>1. S \cup {x} = T \cup {x}
      OBVIOUS
    <3>2. S = (S \cup {x}) \ {x} /\ T = (T \cup {x}) \ {x}
      BY <1>2
    <3>3. QED
      BY <3>1, <3>2
  <2>3. \A t \in More : \E s \in SUBSET A : f[s] = t
    OBVIOUS
  <2> HIDE DEF f, More
  <2>4. f \in Bijection(SUBSET A, More)
    BY <2>1, <2>2, <2>3 DEF Bijection, Injection, Surjection, IsInjective
  <2>5. QED
    BY <2>4 DEF ExistsBijection
<1>7. IsFiniteSet(More) /\ Cardinality(More) = 2^n
  BY <1>3, <1>6, FS_Bijection
<1>8. Cardinality(SUBSET B) =
        Cardinality(SUBSET A) + Cardinality(More) - Cardinality((SUBSET A) \cap More)
  BY <1>3, <1>4, <1>7, FS_Union
<1>9. Cardinality((SUBSET A) \cap More) = 0
  BY <1>5, FS_EmptySet
<1>10. 2^n \in Nat /\ 2^n # 0
  <2>1. Cardinality(SUBSET A) \in Nat
    BY <1>3, FS_CardinalityType
  <2>2. SUBSET A # {}
    OBVIOUS
  <2>3. Cardinality(SUBSET A) # 0
    BY <1>3, <2>2, FS_EmptySet
  <2>4. QED
    BY <1>3, <2>1, <2>3
<1>11. QED
  <2> DEFINE p == 2^n
             q == 2^(n + 1)
  <2>1. p \in Nat /\ p # 0 /\ q = p + p - 0
    BY <1>3, <1>7, <1>8, <1>9, <1>10
  <2> HIDE DEF p, q
  <2>2. p \in Nat \ {0} /\ q = 2 * p
    BY <2>1
  <2>3. QED
    BY <2>2 DEF p, q

(* The empty set has one subset. *)
LEMMA PowerZero == 2^0 = 1
<1>1. IsFiniteSet({}) /\ Cardinality({}) = 0
  BY FS_EmptySet
<1>2. Cardinality(SUBSET {}) = 2^0
  BY <1>1, FS_SUBSET
<1>3. SUBSET {} = {{}}
  OBVIOUS
<1>4. Cardinality({{}}) = 1
  BY FS_Singleton
<1>5. QED
  BY <1>2, <1>3, <1>4

(* Powers of sums. *)
LEMMA PowerPlus ==
    ASSUME NEW a \in Nat, NEW b \in Nat
    PROVE  2^(a + b) = 2^a * 2^b
<1> DEFINE T == {k \in Nat : 2^(a + k) # 2^a * 2^k}
<1>1. SUFFICES ASSUME T # {} PROVE FALSE
  OBVIOUS
<1>2. PICK k \in T : \A y \in T : k <= y
  BY <1>1, LeastElement
<1>3. k \in Nat /\ 2^(a + k) # 2^a * 2^k
  BY <1>2
<1>4. 2^a \in Nat
  BY PowerStep
<1>5. CASE k = 0
  <2>1. a + k = a /\ 2^k = 1
    BY <1>5, PowerZero
  <2>2. QED
    BY <1>3, <1>4, <2>1
<1>6. CASE k # 0
  <2>1. k - 1 \in Nat /\ k - 1 \notin T
    BY <1>2, <1>3, <1>6
  <2> DEFINE m == k - 1
  <2>2. 2^(a + m) = 2^a * 2^m
    BY <2>1
  <2>3. a + m \in Nat /\ m \in Nat /\ (a + m) + 1 = a + k /\ m + 1 = k
    BY <1>3, <2>1
  <2> HIDE DEF m
  <2>4. 2^((a + m) + 1) = 2 * 2^(a + m) /\ 2^(m + 1) = 2 * 2^m /\ 2^m \in Nat
    BY <2>3, PowerStep
  <2>5. 2 * (2^a * 2^m) = 2^a * (2 * 2^m)
    <3> DEFINE p == 2^a
               q == 2^m
    <3>1. p \in Nat /\ q \in Nat
      BY <1>4, <2>4
    <3> HIDE DEF p, q
    <3>2. 2 * (p * q) = p * (2 * q)
      BY <3>1
    <3>3. QED
      BY <3>2 DEF p, q
  <2>6. QED
    BY <1>3, <2>2, <2>3, <2>4, <2>5
<1>7. QED
  BY <1>5, <1>6

(* Larger exponents, larger powers. *)
LEMMA PowerGrows ==
    ASSUME NEW a \in Nat, NEW b \in Nat, a <= b
    PROVE  2^a <= 2^b
<1> DEFINE p == 2^a
           d == 2^(b - a)
<1>1. b - a \in Nat /\ a + (b - a) = b
  OBVIOUS
<1>2. p \in Nat \ {0} /\ d \in Nat \ {0} /\ 2^(a + (b - a)) = p * d
  BY <1>1, PowerStep, PowerPlus
<1> HIDE DEF p, d
<1>3. p <= p * d
  BY <1>2
<1>4. QED
  BY <1>1, <1>2, <1>3 DEF p

(* The quotient of a number that is given as quotient and remainder. *)
LEMMA DivIs == ASSUME NEW s \in Nat \ {0}, NEW q \in Nat, NEW r \in 0..s-1
  PROVE (s * q + r) \div s = q
<1> DEFINE a == s * q + r
           t == a \div s
           u == a % s
<1>1. s * q \in Nat
  OBVIOUS
<1>2. a \in Nat
  BY <1>1
<1> HIDE DEF a
<1>3. t \in Nat /\ u \in 0..s-1 /\ a = s * t + u
  BY <1>2, DivMod
<1> HIDE DEF t, u
<1>4. s * q + r = s * t + u
  BY <1>3 DEF a
<1>5. q = t
  BY <1>3, <1>4, Quotient
<1>. QED BY <1>5 DEF a, t

(* A remainder of remainders. *)
LEMMA TwoDigits == ASSUME NEW s \in Nat \ {0}, NEW m \in Nat \ {0}, NEW u \in 0..m-1, NEW r \in 0..s-1
  PROVE s * u + r \in 0..s*m-1
<1>1. s * u \in Nat /\ s * u <= s * (m - 1) /\ s * (m - 1) = s * m - s
  OBVIOUS
<1>2. QED
  BY <1>1

(* To divide twice. *)
LEMMA DivDiv == ASSUME NEW s \in Nat \ {0}, NEW m \in Nat \ {0}, NEW a \in Nat
  PROVE (a \div s) \div m = a \div (s * m)
<1> DEFINE q == a \div s
           r == a % s
           t == q \div m
           u == q % m
           p == s * m
<1>1. q \in Nat /\ r \in 0..s-1 /\ a = s * q + r
  BY DivMod
<1> HIDE DEF q, r
<1>2. t \in Nat /\ u \in 0..m-1 /\ q = m * t + u
  BY <1>1, DivMod
<1> HIDE DEF t, u
<1>3. s * q = s * (m * t) + s * u /\ s * (m * t) = p * t
  BY <1>1, <1>2
<1>4. p \in Nat \ {0} /\ s * u + r \in 0..p-1
  BY <1>1, <1>2, TwoDigits
<1>5. a = p * t + (s * u + r)
  BY <1>1, <1>2, <1>3
<1> HIDE DEF p
<1>6. a \div p = t
  BY <1>2, <1>4, <1>5, DivIs
<1>7. QED
  BY <1>6 DEF p, t, q

(* The width of a number that fits into 31 bits. *)
LEMMA BitWidthIs ==
    ASSUME NEW v \in Nat, v # 0, v < 2^31
    PROVE  \E w \in 1..31 : BitWidth(v) = w /\ 2^(w - 1) <= v /\ v < 2^w
<1> DEFINE T == {n \in Nat : v < 2^n}
           W(n) == (n = 31 \/ v < 2^n) /\ (n = 0 \/ v >= 2^(n - 1))
<1>0. 31 \in T
  OBVIOUS
<1>1. PICK n \in T : \A y \in T : n <= y
  <2>2. T \subseteq Nat /\ T # {}
    BY <1>0
  <2> HIDE DEF T
  <2>3. QED
    BY <2>2, LeastElement
<1>2. n \in 0..31 /\ v < 2^n
  <2>1. n \in Nat /\ v < 2^n
    BY <1>1
  <2> HIDE DEF T
  <2>2. n <= 31
    BY <1>0, <1>1
  <2>3. QED
    BY <2>1, <2>2
<1>3. n # 0 => v >= 2^(n - 1)
  <2> SUFFICES ASSUME n # 0 PROVE v >= 2^(n - 1)
    OBVIOUS
  <2>1. n - 1 \in Nat /\ n - 1 \notin T
    BY <1>1, <1>2
  <2>2. 2^(n - 1) \in Nat
    BY <2>1, PowerStep
  <2>3. ~(v < 2^(n - 1))
    BY <2>1
  <2>4. QED
    BY <2>2, <2>3
<1>4. \E k \in 0..31 : W(k)
  BY <1>2, <1>3
<1>5. BitWidth(v) = CHOOSE k \in 0..31 : W(k)
  BY DEF BitWidth
<1>6. BitWidth(v) \in 0..31 /\ W(BitWidth(v))
  BY <1>4, <1>5, Zenon
<1>7. BitWidth(v) # 0
  <2> SUFFICES ASSUME BitWidth(v) = 0 PROVE FALSE
    OBVIOUS
  <2>1. W(0)
    BY <1>6, Zenon
  <2>2. v < 2^0
    BY <2>1
  <2>3. QED
    BY <2>2, PowerZero
<1>8. BitWidth(v) \in 1..31 /\ 2^(BitWidth(v) - 1) <= v
  <2>1. BitWidth(v) - 1 \in Nat
    BY <1>6, <1>7
  <2>2. 2^(BitWidth(v) - 1) \in Nat
    BY <2>1, PowerStep
  <2>3. QED
    BY <1>6, <1>7, <2>2
<1>9. v < 2^BitWidth(v)
  BY <1>6
<1>10. QED
  BY <1>8, <1>9

--------------------------------------------------------------------------------
(* Bits.                                                                    *)

(* The number of the first i bits from the top, i = 0, 1, ...: BitsValue is *)
(* the last of them. *)
NumbersOf(s, g) ==
    g = [i \in 0..Len(s) |-> IF i = 0 THEN 0 ELSE 2 * g[i - 1] + s[Len(s) - i + 1]]

(* These numbers are determined by the bits. *)
LEMMA BitsValueIs ==
    ASSUME NEW s, Len(s) \in Nat, NEW g, NumbersOf(s, g)
    PROVE  BitsValue(s) = g[Len(s)]
<1> DEFINE n == Len(s)
           f == CHOOSE h : NumbersOf(s, h)
           T == {k \in Nat : k <= n /\ f[k] # g[k]}
<1>1. NumbersOf(s, f)
  BY Zenon
<1>2. BitsValue(s) = f[n]
  BY DEF BitsValue, NumbersOf
<1> HIDE DEF f
<1>3. SUFFICES ASSUME f[n] # g[n] PROVE FALSE
  BY <1>2
<1>4. n \in T
  BY <1>3
<1>5. PICK k \in T : \A y \in T : k <= y
  <2> HIDE DEF T
  <2>1. T \subseteq Nat /\ T # {}
    BY <1>4 DEF T
  <2>2. QED
    BY <2>1, LeastElement
<1>6. k \in 0..n /\ f[k] # g[k]
  BY <1>5
<1>7. /\ f[k] = IF k = 0 THEN 0 ELSE 2 * f[k - 1] + s[n - k + 1]
      /\ g[k] = IF k = 0 THEN 0 ELSE 2 * g[k - 1] + s[n - k + 1]
  BY <1>1, <1>6 DEF NumbersOf
<1>8. k # 0
  BY <1>6, <1>7
<1>9. k - 1 \in Nat /\ k - 1 <= n /\ k - 1 \notin T
  BY <1>5, <1>6, <1>8
<1>10. f[k - 1] = g[k - 1]
  BY <1>9
<1>11. QED
  BY <1>6, <1>7, <1>8, <1>10

(* The decoder gets back the number whose bits the encoder wrote. *)
LEMMA NumberOfItsBits ==
    ASSUME NEW n \in Nat, NEW v \in Nat, v < 2^n
    PROVE  BitsValue(ToBits(n, v)) = v
<1> DEFINE s == ToBits(n, v)
           g == [i \in 0..n |-> v \div 2^(n - i)]
<1>1. Len(s) = n /\ DOMAIN s = 1..n
  BY DEF ToBits
<1>2. ASSUME NEW i \in 0..n, i # 0
      PROVE  g[i] = 2 * g[i - 1] + s[n - i + 1]
  <2> DEFINE p == 2^(n - i)
             q == v \div p
  <2>1. n - i \in Nat /\ n - (i - 1) = (n - i) + 1 /\ i - 1 \in 0..n /\ n - i + 1 \in 1..n
    BY <1>2
  <2>2. p \in Nat \ {0} /\ 2^(n - (i - 1)) = 2 * p
    BY <2>1, PowerStep
  <2>3. s[n - i + 1] = q % 2
    BY <2>1 DEF ToBits
  <2>4. g[i] = q
    OBVIOUS
  <2>5. g[i - 1] = v \div (p * 2)
    BY <2>1, <2>2
  <2> HIDE DEF s, g, p
  <2>6. g[i - 1] = q \div 2
    BY <2>2, <2>5, DivDiv
  <2>7. q \in Nat
    BY <2>2, DivMod
  <2> HIDE DEF q
  <2>8. q = 2 * (q \div 2) + (q % 2)
    BY <2>7
  <2>9. QED
    BY <2>3, <2>4, <2>6, <2>8
<1>3. g[0] = 0
  <2> DEFINE p == 2^n
  <2>1. g[0] = v \div p
    OBVIOUS
  <2>2. p \in Nat \ {0} /\ v < p
    BY PowerStep
  <2> HIDE DEF p
  <2>3. v = p * 0 + v /\ v \in 0..p-1
    BY <2>2
  <2>4. v \div p = 0
    BY <2>2, <2>3, DivIs
  <2>5. QED
    BY <2>1, <2>4
<1>4. g[n] = v
  <2>1. g[n] = v \div 2^0
    OBVIOUS
  <2>2. QED
    BY <2>1, PowerZero
<1>5. NumbersOf(s, g)
  <2>1. \A i \in 0..n : g[i] = IF i = 0 THEN 0 ELSE 2 * g[i - 1] + s[n - i + 1]
    <3> HIDE DEF s, g
    <3>1. QED
      BY <1>2, <1>3
  <2>2. g = [i \in 0..n |-> g[i]]
    OBVIOUS
  <2> HIDE DEF s, g
  <2>3. g = [i \in 0..n |-> IF i = 0 THEN 0 ELSE 2 * g[i - 1] + s[n - i + 1]]
    BY <2>1, <2>2
  <2>4. QED
    BY <1>1, <2>3 DEF NumbersOf
<1> HIDE DEF s, g
<1>6. QED
  BY <1>1, <1>4, <1>5, BitsValueIs DEF s

(* The elements of a concatenation. *)
LEMMA Joined ==
    ASSUME NEW S, NEW s \in Seq(S), NEW t \in Seq(S)
    PROVE  /\ s \o t \in Seq(S) /\ Len(s \o t) = Len(s) + Len(t)
           /\ \A k \in 1..Len(s) : (s \o t)[k] = s[k]
           /\ \A k \in 1..Len(t) : (s \o t)[Len(s) + k] = t[k]
BY ConcatProperties, LenProperties

(* Two sequences, and their concatenation cut where they meet. *)
LEMMA Halves ==
    ASSUME NEW S, NEW s \in Seq(S), NEW t \in Seq(S)
    PROVE  /\ Len(s \o t) = Len(s) + Len(t) /\ Len(s) \in Nat /\ Len(t) \in Nat
           /\ SubSeq(s \o t, 1, Len(s)) = s /\ SubSeq(s \o t, Len(s) + 1, Len(s \o t)) = t
<1> DEFINE m == Len(s)
           n == Len(t)
           c == s \o t
           front == SubSeq(c, 0 + 1, 0 + m)
           back == SubSeq(c, m + 1, m + n)
<1>1. /\ m \in Nat /\ n \in Nat /\ c \in Seq(S) /\ Len(c) = m + n
      /\ \A i \in 1..m : c[i] = s[i]
      /\ \A i \in 1..n : c[m + i] = t[i]
  BY ConcatProperties, LenProperties
<1> HIDE DEF c
<1>2. front \in Seq(S) /\ Len(front) = m /\ \A i \in 1..m : front[i] = c[0 + i]
  <2>1. 0 \in Nat /\ 0 + m <= Len(c)
    BY <1>1
  <2>2. QED
    BY <1>1, <2>1, Slice
<1>3. back \in Seq(S) /\ Len(back) = n /\ \A i \in 1..n : back[i] = c[m + i]
  <2>1. m + n <= Len(c)
    BY <1>1
  <2>2. QED
    BY <1>1, <2>1, Slice
<1> HIDE DEF front, back
<1>4. front = s
  <2>1. \A i \in 1..m : front[i] = s[i]
    BY <1>1, <1>2
  <2>2. QED
    BY <1>2, <2>1, SeqEqual
<1>5. back = t
  <2>1. \A i \in 1..n : back[i] = t[i]
    BY <1>1, <1>3
  <2>2. QED
    BY <1>3, <2>1, SeqEqual
<1>6. 0 + 1 = 1 /\ 0 + m = m
  BY <1>1
<1>7. QED
  BY <1>1, <1>4, <1>5, <1>6 DEF c, front, back

(***************************************************************************)
(* What BrotliWriteBits puts behind the bits that were read is what the      *)
(* decoder takes next, with any bits behind it: BrotliReadBits of the same   *)
(* width sees the number and leaves the bits behind it.                      *)
(***************************************************************************)
THEOREM BitsAreRead ==
    ASSUME NEW n \in Nat, NEW v \in Nat, v < 2^n, NEW rest \in Seq({0, 1}),
           NEW br, "held" \in DOMAIN br, br.held = WriteBits(<<>>, n, v) \o rest
    PROVE  PeekBits(br, n) = v /\ DropBits(br, n).held = rest
<1> DEFINE s == ToBits(n, v)
<1>1. s \in Seq({0, 1}) /\ Len(s) = n
  <2>1. \A i \in 1..n : (v \div 2^(i - 1)) % 2 \in {0, 1}
    <3> SUFFICES ASSUME NEW i \in 1..n PROVE (v \div 2^(i - 1)) % 2 \in {0, 1}
      OBVIOUS
    <3> DEFINE p == 2^(i - 1)
               q == v \div p
    <3>1. i - 1 \in Nat
      OBVIOUS
    <3>2. p \in Nat \ {0}
      BY <3>1, PowerStep
    <3> HIDE DEF p
    <3>3. q \in Nat
      BY <3>2, DivMod
    <3> HIDE DEF q
    <3>4. q % 2 \in {0, 1}
      BY <3>3
    <3>5. QED
      BY <3>4 DEF q, p
  <2>2. QED
    BY <2>1 DEF ToBits
<1> HIDE DEF s
<1>2. br.held = s \o rest
  <2>1. <<>> \o s = s
    BY <1>1
  <2>2. QED
    BY <2>1 DEF WriteBits, s
<1>3. /\ Len(br.held) = n + Len(rest) /\ Len(rest) \in Nat
      /\ SubSeq(br.held, 1, n) = s /\ SubSeq(br.held, n + 1, Len(br.held)) = rest
  <2>1. /\ Len(s \o rest) = Len(s) + Len(rest) /\ Len(rest) \in Nat
        /\ SubSeq(s \o rest, 1, Len(s)) = s
        /\ SubSeq(s \o rest, Len(s) + 1, Len(s \o rest)) = rest
    <3> DEFINE S == {0, 1}
    <3>1. s \in Seq(S) /\ rest \in Seq(S)
      BY <1>1
    <3> HIDE DEF S
    <3>2. QED
      BY <3>1, Halves
  <2>2. QED
    BY <1>1, <1>2, <2>1, Zenon
<1>4. Least(n, Len(br.held)) = n
  BY <1>3 DEF Least
<1>5. PeekBits(br, n) = v
  BY <1>3, <1>4, NumberOfItsBits DEF PeekBits, s
<1>6. DropBits(br, n).held = rest
  BY <1>3 DEF DropBits
<1>7. QED
  BY <1>5, <1>6

(* The numbers of the bits from the top exist for every sequence. *)
LEMMA SomeNumbers ==
    ASSUME NEW s, Len(s) \in Nat
    PROVE  \E g : NumbersOf(s, g)
<1> DEFINE n == Len(s)
           Made(g, m) == g = [i \in 0..m |-> IF i = 0 THEN 0 ELSE 2 * g[i - 1] + s[n - i + 1]]
           T == {m \in Nat : m <= n /\ ~\E g : Made(g, m)}
<1>1. SUFFICES ASSUME ~\E g : Made(g, n) PROVE FALSE
  BY DEF NumbersOf
<1>2. PICK m \in T : \A y \in T : m <= y
  <2>1. n \in T
    BY <1>1
  <2>2. T \subseteq Nat
    OBVIOUS
  <2> HIDE DEF T
  <2>3. QED
    BY <2>1, <2>2, LeastElement
<1>3. m \in 0..n /\ ~\E g : Made(g, m)
  BY <1>2
<1>4. CASE m = 0
  <2> DEFINE g == [i \in 0..m |-> 0]
  <2>1. Made(g, m)
    BY <1>4
  <2>2. QED
    BY <1>3, <2>1
<1>5. CASE m # 0
  <2>1. m - 1 \in Nat /\ m - 1 <= n /\ m - 1 \notin T
    <3>1. m - 1 \in Nat /\ m - 1 <= n /\ ~(m <= m - 1)
      BY <1>3, <1>5
    <3> HIDE DEF T
    <3>2. QED
      BY <1>2, <3>1
  <2>2. PICK g : Made(g, m - 1)
    BY <2>1
  <2> DEFINE h == [i \in 0..m |-> IF i < m THEN g[i] ELSE 2 * g[m - 1] + s[n - m + 1]]
  <2>3. \A i \in 0..m : h[i] = IF i = 0 THEN 0 ELSE 2 * h[i - 1] + s[n - i + 1]
    <3> SUFFICES ASSUME NEW i \in 0..m
                 PROVE  h[i] = IF i = 0 THEN 0 ELSE 2 * h[i - 1] + s[n - i + 1]
      OBVIOUS
    <3>1. CASE i < m
      <4>1. i \in 0..m - 1 /\ (i # 0 => i - 1 \in 0..m /\ i - 1 < m)
        BY <1>3, <3>1
      <4>2. h[i] = g[i] /\ (i # 0 => h[i - 1] = g[i - 1])
        BY <3>1, <4>1
      <4>3. g[i] = IF i = 0 THEN 0 ELSE 2 * g[i - 1] + s[n - i + 1]
        BY <2>2, <4>1
      <4> HIDE DEF h, Made
      <4>4. QED
        BY <4>2, <4>3
    <3>2. CASE ~(i < m)
      <4>1. i = m /\ m - 1 \in 0..m /\ m - 1 < m
        BY <1>3, <1>5, <3>2
      <4>2. h[m] = 2 * g[m - 1] + s[n - m + 1] /\ h[m - 1] = g[m - 1]
        BY <1>3, <4>1
      <4> HIDE DEF h, Made
      <4>3. QED
        BY <1>5, <4>1, <4>2
    <3>3. QED
      BY <3>1, <3>2
  <2>4. h = [i \in 0..m |-> h[i]]
    OBVIOUS
  <2> HIDE DEF h
  <2>5. Made(h, m)
    BY <2>3, <2>4
  <2>6. QED
    BY <1>3, <2>5
<1>6. QED
  BY <1>4, <1>5

(* The number that a sequence of bits stands for has these bits, and no more. *)
LEMMA BitsOfItsNumber ==
    ASSUME NEW s \in Seq({0, 1})
    PROVE  /\ BitsValue(s) \in Nat /\ BitsValue(s) < 2^Len(s)
           /\ \A k \in 1..Len(s) : (BitsValue(s) \div 2^(k - 1)) % 2 = s[k]
<1> DEFINE n == Len(s)
           v == BitsValue(s)
<1>1. n \in Nat /\ \A k \in 1..n : s[k] \in {0, 1}
  BY LenProperties, ElementOfSeq
<1>2. PICK g : NumbersOf(s, g)
  BY <1>1, SomeNumbers
<1>3. v = g[n]
  BY <1>1, <1>2, BitsValueIs
<1>4. g[0] = 0 /\ \A i \in 1..n : g[i] = 2 * g[i - 1] + s[n - i + 1]
  <2>1. \A i \in 0..n : g[i] = IF i = 0 THEN 0 ELSE 2 * g[i - 1] + s[n - i + 1]
    BY <1>2 DEF NumbersOf
  <2>2. QED
    BY <1>1, <2>1
<1> DEFINE Small(i) == g[i] \in Nat /\ g[i] < 2^i
           T == {i \in Nat : i <= n /\ ~Small(i)}
<1>5. \A i \in 0..n : Small(i)
  <2> SUFFICES ASSUME NEW j \in 0..n, ~Small(j) PROVE FALSE
    OBVIOUS
  <2>1. PICK i \in T : \A y \in T : i <= y
    <3>1. j \in T /\ T \subseteq Nat
      OBVIOUS
    <3> HIDE DEF T
    <3>2. QED
      BY <3>1, LeastElement
  <2>2. i \in 0..n /\ ~Small(i)
    BY <1>1, <2>1
  <2>3. i # 0
    <3>1. 0 \in Nat /\ 0 < 1
      OBVIOUS
    <3>2. Small(0)
      BY <1>4, <3>1, PowerZero
    <3> HIDE DEF Small
    <3>3. QED
      BY <2>2, <3>2
  <2>4. i - 1 \in Nat /\ i - 1 <= n /\ i - 1 \notin T /\ i \in 1..n /\ n - i + 1 \in 1..n
    BY <1>1, <2>1, <2>2, <2>3
  <2>5. Small(i - 1)
    BY <2>4
  <2> DEFINE p == 2^(i - 1)
             q == 2^i
  <2>6. p \in Nat /\ q = 2 * p
    <3>1. (i - 1) + 1 = i
      BY <2>4
    <3>2. QED
      BY <2>4, <3>1, PowerStep
  <2>7. g[i - 1] \in Nat /\ g[i - 1] < p
    BY <2>5
  <2>8. g[i] = 2 * g[i - 1] + s[n - i + 1] /\ s[n - i + 1] \in {0, 1}
    BY <1>1, <1>4, <2>4
  <2> HIDE DEF p, q
  <2>9. g[i] \in Nat /\ g[i] < q
    BY <2>6, <2>7, <2>8
  <2>10. QED
    BY <2>2, <2>9 DEF q
<1> HIDE DEF Small, T
<1>6. \A i \in 0..n : g[i] \in Nat
  BY <1>5 DEF Small
<1> DEFINE U == {k \in Nat : k <= n /\ g[n - k] # v \div 2^k}
<1>7. \A k \in 0..n : g[n - k] = v \div 2^k
  <2> SUFFICES ASSUME NEW j \in 0..n, g[n - j] # v \div 2^j PROVE FALSE
    OBVIOUS
  <2>1. PICK k \in U : \A y \in U : k <= y
    <3>1. j \in U /\ U \subseteq Nat
      OBVIOUS
    <3> HIDE DEF U
    <3>2. QED
      BY <3>1, LeastElement
  <2>2. k \in 0..n /\ g[n - k] # v \div 2^k
    BY <1>1, <2>1
  <2>v. v \in Nat
    BY <1>1, <1>3, <1>6
  <2>3. k # 0
    <3>1. ASSUME k = 0 PROVE FALSE
      <4>1. n - k = n /\ 2^k = 1
        BY <1>1, <3>1, PowerZero
      <4>2. v \div 1 = v
        BY <2>v
      <4>3. QED
        BY <1>3, <2>2, <4>1, <4>2
    <3>2. QED
      BY <3>1
  <2>4. /\ k - 1 \in Nat /\ k - 1 <= n /\ k - 1 \notin U /\ n - k + 1 \in 1..n
        /\ n - (k - 1) = n - k + 1 /\ n - (n - k + 1) + 1 = k /\ (n - k + 1) - 1 = n - k
        /\ n - k \in 0..n /\ k \in 1..n
    BY <1>1, <2>1, <2>2, <2>3
  <2>5. g[n - k + 1] = v \div 2^(k - 1)
    BY <2>4
  <2>6. g[n - k + 1] = 2 * g[n - k] + s[k]
    BY <1>4, <2>4
  <2> DEFINE a == g[n - k]
             b == g[n - k + 1]
             p == 2^(k - 1)
  <2>7. p \in Nat \ {0} /\ 2^k = p * 2
    <3>1. (k - 1) + 1 = k
      BY <2>4
    <3>2. 2^((k - 1) + 1) = 2 * 2^(k - 1) /\ 2^(k - 1) \in Nat \ {0}
      BY <2>4, PowerStep
    <3>3. QED
      BY <3>1, <3>2
  <2>8. a \in Nat /\ s[k] \in {0, 1} /\ b = v \div p
    BY <1>1, <1>6, <2>4, <2>5
  <2>9. b = 2 * a + s[k]
    BY <2>6
  <2> HIDE DEF a, b, p
  <2>10. b \div 2 = a
    BY <2>8, <2>9
  <2>11. (v \div p) \div 2 = v \div (p * 2)
    BY <2>v, <2>7, DivDiv
  <2>12. QED
    BY <2>2, <2>7, <2>8, <2>10, <2>11 DEF a
<1>8. ASSUME NEW k \in 1..n PROVE (v \div 2^(k - 1)) % 2 = s[k]
  <2>1. /\ k - 1 \in 0..n /\ n - (k - 1) \in 1..n /\ n - (n - (k - 1)) + 1 = k
        /\ (n - (k - 1)) - 1 \in 0..n
    BY <1>1
  <2> DEFINE j == n - (k - 1)
             a == g[j - 1]
             b == g[j]
  <2>2. b = v \div 2^(k - 1)
    BY <1>7, <2>1
  <2>3. b = 2 * a + s[k] /\ a \in Nat /\ s[k] \in {0, 1}
    BY <1>1, <1>4, <1>6, <2>1
  <2> HIDE DEF a, b
  <2>4. b % 2 = s[k]
    BY <2>3
  <2>5. QED
    BY <2>2, <2>4
<1>9. v \in Nat /\ v < 2^n
  BY <1>1, <1>3, <1>5 DEF Small
<1>10. QED
  BY <1>8, <1>9

(***************************************************************************)
(* The bits of an encoder, stored as bytes (BrotliWriteBits) and loaded from *)
(* them (the bit reader), are the bits that it wrote, and the zeros that      *)
(* JumpToByteBoundary puts behind them when the last byte is not full.       *)
(***************************************************************************)
THEOREM BytesKeepBits ==
    ASSUME NEW bits \in Seq({0, 1})
    PROVE  BytesToBits(BitsToBytes(bits)) = JumpToByteBoundary(bits)
<1> DEFINE N == Len(bits)
           M == (N + 7) \div 8
           bytes == BitsToBytes(bits)
           loaded == BytesToBits(bytes)
           Z == (-N) % 8
           padded == JumpToByteBoundary(bits)
           S == {0, 1}
<1>1. N \in Nat /\ M \in Nat /\ Z \in 0..7 /\ 8 * M = N + Z
  <2>1. N \in Nat
    BY LenProperties
  <2> HIDE DEF N
  <2>2. QED
    BY <2>1
<1>2. /\ Len(bytes) = M
      /\ \A i \in 1..M : bytes[i] = BitsValue(SubSeq(bits, 8 * i - 7, Least(8 * i, N)))
  BY <1>1 DEF BitsToBytes
<1>3. /\ loaded = [j \in 1..8 * M |-> loaded[j]]
      /\ \A j \in 1..8 * M : loaded[j] = (bytes[(j - 1) \div 8 + 1] \div 2^((j - 1) % 8)) % 2
  <2> HIDE DEF bytes
  <2>1. QED
    BY <1>2 DEF BytesToBits
<1>4. Zeros(Z) \in Seq(S) /\ Len(Zeros(Z)) = Z /\ \A k \in 1..Z : Zeros(Z)[k] = 0
  <2> HIDE DEF Z
  <2>1. QED
    BY <1>1 DEF Zeros, Fill
<1>5. /\ padded = [j \in 1..8 * M |-> padded[j]]
      /\ \A j \in 1..8 * M : padded[j] = IF j <= N THEN bits[j] ELSE 0
  <2> DEFINE zeros == Zeros(Z)
             c == bits \o zeros
  <2>0. zeros \in Seq(S) /\ Len(zeros) = Z /\ \A k \in 1..Z : zeros[k] = 0
    BY <1>4
  <2>1. padded = c
    BY DEF JumpToByteBoundary
  <2> HIDE DEF zeros, padded
  <2>2. /\ c \in Seq(S) /\ Len(c) = N + Z
        /\ \A k \in 1..N : c[k] = bits[k]
        /\ \A k \in 1..Z : c[N + k] = zeros[k]
    <3>1. bits \in Seq(S)
      OBVIOUS
    <3>0. zeros \in Seq(S)
      BY <2>0
    <3> HIDE DEF S, Z, M, N, bytes, loaded
    <3>2. /\ c \in Seq(S) /\ Len(c) = Len(bits) + Len(zeros)
          /\ \A k \in 1..Len(bits) : c[k] = bits[k]
          /\ \A k \in 1..Len(zeros) : c[Len(bits) + k] = zeros[k]
      BY <3>0, <3>1, Joined
    <3>3. QED
      BY <2>0, <3>2, Zenon DEF N
  <2> HIDE DEF c, N, Z, M
  <2>3. \A j \in 1..8 * M : c[j] = IF j <= N THEN bits[j] ELSE 0
    <3> SUFFICES ASSUME NEW j \in 1..8 * M PROVE c[j] = IF j <= N THEN bits[j] ELSE 0
      OBVIOUS
    <3>1. CASE j <= N
      BY <1>1, <2>2, <3>1
    <3>2. CASE ~(j <= N)
      <4>1. j - N \in 1..Z /\ N + (j - N) = j
        BY <1>1, <3>2
      <4>2. QED
        BY <2>0, <2>2, <3>2, <4>1
    <3>3. QED
      BY <3>1, <3>2
  <2>4. c = [j \in 1..Len(c) |-> c[j]]
    BY <2>2
  <2>5. QED
    BY <1>1, <2>1, <2>2, <2>3, <2>4
<1>6. ASSUME NEW j \in 1..8 * M PROVE loaded[j] = padded[j]
  <2> DEFINE b == (j - 1) % 8
             i == (j - 1) \div 8 + 1
             top == Least(8 * i, N)
             chunk == SubSeq(bits, 8 * i - 7, top)
             L == top - (8 * i - 7) + 1
             v == BitsValue(chunk)
  <2>1. b \in 0..7 /\ i \in 1..M /\ j = 8 * i - 7 + b
    <3> HIDE DEF N, M
    <3>1. QED
      BY <1>1
  <2> HIDE DEF N, M, Z, bytes, loaded, padded
  <2>2. loaded[j] = (v \div 2^b) % 2
    BY <1>2, <1>3, <2>1 DEF N
  <2>3. padded[j] = IF j <= N THEN bits[j] ELSE 0
    BY <1>5
  <2> HIDE DEF b, i
  <2>4. 8 * i - 7 <= N
    BY <1>1, <2>1
  <2>5. /\ top \in Nat /\ top <= N /\ 8 * i - 7 <= top /\ 8 * i - 7 \in Nat \ {0}
        /\ L \in 1..8 /\ (j <= N <=> b + 1 <= L)
    BY <1>1, <2>1, <2>4 DEF Least
  <2> HIDE DEF top
  <2>6. chunk \in Seq(S) /\ Len(chunk) = L /\ \A k \in 1..L : chunk[k] = bits[8 * i - 7 + k - 1]
    <3> DEFINE from == 8 * i - 7
    <3>1. from \in Nat \ {0} /\ from <= top + 1 /\ top <= Len(bits) /\ top \in Nat
      BY <2>5 DEF N
    <3> HIDE DEF from, S
    <3>2. /\ SubSeq(bits, from, top) \in Seq(S) /\ Len(SubSeq(bits, from, top)) = top - from + 1
          /\ \A k \in 1..top - from + 1 : SubSeq(bits, from, top)[k] = bits[from + k - 1]
      BY <3>1, PartOfSeq DEF S
    <3>3. QED
      BY <3>2 DEF from
  <2> HIDE DEF chunk, L
  <2>7. v \in Nat /\ v < 2^L /\ \A k \in 1..L : (v \div 2^(k - 1)) % 2 = chunk[k]
    BY <2>6, BitsOfItsNumber DEF S
  <2> HIDE DEF v
  <2>8. CASE j <= N
    <3>1. b + 1 \in 1..L /\ (b + 1) - 1 = b /\ 8 * i - 7 + (b + 1) - 1 = j
      BY <2>1, <2>5, <2>8
    <3>2. /\ (v \div 2^((b + 1) - 1)) % 2 = chunk[b + 1]
          /\ chunk[b + 1] = bits[8 * i - 7 + (b + 1) - 1]
      BY <2>6, <2>7, <3>1
    <3>3. QED
      BY <2>2, <2>3, <2>8, <3>1, <3>2
  <2>9. CASE ~(j <= N)
    <3> DEFINE p == 2^b
               q == 2^L
    <3>1. L \in Nat /\ b \in Nat /\ L <= b
      BY <2>1, <2>5, <2>9
    <3>2. p \in Nat \ {0} /\ q \in Nat /\ q <= p
      BY <3>1, PowerStep, PowerGrows
    <3>3. v < q
      BY <2>7
    <3> HIDE DEF p, q
    <3>4. v \in 0..p - 1 /\ v = p * 0 + v
      BY <2>7, <3>2, <3>3
    <3>5. v \div p = 0
      BY <3>2, <3>4, DivIs
    <3>6. QED
      BY <2>2, <2>3, <2>9, <3>5 DEF p
  <2>10. QED
    BY <2>8, <2>9
<1> HIDE DEF loaded, padded, M
<1>7. loaded = padded
  BY <1>3, <1>5, <1>6
<1>8. QED
  BY <1>7 DEF loaded, padded

--------------------------------------------------------------------------------
(* Distances.                                                               *)

(* The parts of a distance code that is beyond the short and the direct ones: far *)
(* is 2 + prefix buckets of size 2^nbits * P, where P = 2^postfix, and a rest. *)
LEMMA FarCode ==
    ASSUME NEW postfix \in Nat, NEW far \in Nat, 2^(postfix + 2) <= far, far < 2^31
    PROVE  LET bucket == Log2Floor(far) - 1
               prefix == (far \div 2^bucket) % 2
               nbits == bucket - postfix
               rest == far - (2 + prefix) * 2^bucket
           IN  /\ bucket \in Nat /\ nbits \in Nat \ {0} /\ prefix \in {0, 1}
               /\ 2^bucket = 2^postfix * 2^nbits /\ rest \in 0..2^bucket - 1
<1> DEFINE bucket == Log2Floor(far) - 1
           nbits == bucket - postfix
           B == 2^bucket
           q == far \div B
           rest == far % B
<1>1. 2^(postfix + 2) \in Nat \ {0}
  BY PowerStep
<1>2. far # 0
  BY <1>1
<1>3. PICK w \in 1..31 : BitWidth(far) = w /\ 2^(w - 1) <= far /\ far < 2^w
  BY <1>2, BitWidthIs
<1>4. w >= postfix + 3
  <2>1. SUFFICES ASSUME w <= postfix + 2 PROVE FALSE
    OBVIOUS
  <2>2. 2^w <= 2^(postfix + 2)
    BY <2>1, PowerGrows
  <2>3. 2^w \in Nat
    BY PowerStep
  <2>4. QED
    BY <1>1, <1>3, <2>2, <2>3
<1>5. bucket = w - 2 /\ bucket \in Nat /\ nbits \in Nat \ {0} /\ postfix + nbits = bucket
  BY <1>3, <1>4 DEF Log2Floor
<1>6. B \in Nat \ {0} /\ 2^(w - 1) = 2 * B /\ 2^w = 4 * B
  <2>1. w - 1 = bucket + 1 /\ w = (bucket + 1) + 1 /\ bucket + 1 \in Nat
    BY <1>5
  <2> HIDE DEF bucket
  <2>2. /\ 2^(bucket + 1) = 2 * 2^bucket /\ 2^((bucket + 1) + 1) = 2 * 2^(bucket + 1)
        /\ 2^bucket \in Nat \ {0}
    BY <1>5, <2>1, PowerStep
  <2>3. QED
    BY <2>1, <2>2
<1>7. 2 * B <= far /\ far < 4 * B
  BY <1>3, <1>6
<1>8. B = 2^postfix * 2^nbits
  BY <1>5, PowerPlus
<1> HIDE DEF bucket, B
<1>9. q \in Nat /\ rest \in 0..B - 1 /\ far = B * q + rest
  BY <1>6, DivMod
<1> HIDE DEF q, rest
<1>10. q \in {2, 3}
  <2>1. q <= 1 => B * q <= B * 1
    BY <1>6, <1>9
  <2>2. q >= 4 => B * q >= B * 4
    BY <1>6, <1>9
  <2>3. QED
    BY <1>6, <1>7, <1>9, <2>1, <2>2
<1>11. q % 2 \in {0, 1} /\ q = 2 + (q % 2)
  BY <1>10
<1>12. far - (2 + (q % 2)) * B = rest
  <2>1. B * q = q * B
    BY <1>6, <1>9
  <2>2. QED
    BY <1>6, <1>9, <1>11, <2>1
<1>13. QED
  BY <1>5, <1>8, <1>9, <1>11, <1>12 DEF bucket, B, q

(***************************************************************************)
(* The two ends agree on distances, for all parameters of a metablock: what  *)
(* PrefixEncodeCopyDistance (prefix.h) makes of a distance code fits into its *)
(* extra bits, CommandRestoreDistanceCode (command.h) gets the code back, and  *)
(* the decoder, which knows the symbol and the extra bits, computes the       *)
(* distance from its table (CalculateDistanceLut, decode.c).                  *)
(***************************************************************************)
THEOREM DistancesAgree ==
    ASSUME NEW postfix \in Nat, NEW ndirect \in Nat, NEW code \in Nat,
           2^(postfix + 2) + code - NumShortCodes - ndirect < 2^31
    PROVE  LET p == PrefixEncodeCopyDistance(code, ndirect, postfix)
               cmd == [dist_prefix |-> p.symbol, dist_nbits |-> p.nbits, dist_extra |-> p.extra]
               lut == DistanceLut(p.symbol, postfix, ndirect)
           IN  /\ p.symbol \in Nat /\ p.nbits \in Nat /\ p.extra \in 0..2^p.nbits - 1
               /\ CommandRestoreDistanceCode(cmd, [postfix |-> postfix, ndirect |-> ndirect]) = code
               /\ lut.extra_bits = p.nbits
               /\ lut.offset + p.extra * 2^postfix = code - NumShortCodes + 1
<1> DEFINE p == PrefixEncodeCopyDistance(code, ndirect, postfix)
           cmd == [dist_prefix |-> p.symbol, dist_nbits |-> p.nbits, dist_extra |-> p.extra]
           dist == [postfix |-> postfix, ndirect |-> ndirect]
           lut == DistanceLut(p.symbol, postfix, ndirect)
           P == 2^postfix
<1>0. P \in Nat \ {0} /\ NumShortCodes = 16
  BY PowerStep DEF NumShortCodes
<1>1. CASE code < NumShortCodes + ndirect
  <2>1. p = [symbol |-> code, nbits |-> 0, extra |-> 0]
    BY <1>1 DEF PrefixEncodeCopyDistance
  <2>2. p.symbol = code /\ p.nbits = 0 /\ p.extra = 0
    BY <2>1
  <2> HIDE DEF p, P
  <2>3. CommandRestoreDistanceCode(cmd, dist) = code
    <3>1. code - ndirect - NumShortCodes < 0
      BY <1>0, <1>1
    <3>2. cmd.dist_prefix = code /\ dist.ndirect = ndirect
      BY <2>2
    <3>3. QED
      BY <3>1, <3>2 DEF CommandRestoreDistanceCode
  <2>4. lut = [extra_bits |-> 0, offset |-> code - NumShortCodes + 1]
    BY <1>1, <2>2 DEF DistanceLut
  <2>5. lut.extra_bits = 0 /\ lut.offset = code - NumShortCodes + 1 /\ 0 * P = 0
    BY <1>0, <2>4
  <2>6. 0 \in 0..2^0 - 1
    BY PowerZero
  <2> HIDE DEF lut
  <2>7. lut.offset + p.extra * P = code - NumShortCodes + 1
    BY <1>0, <2>2, <2>5
  <2>8. QED
    BY <2>2, <2>3, <2>5, <2>6, <2>7 DEF p, lut, P
<1>2. CASE ~(code < NumShortCodes + ndirect)
  <2> DEFINE far == 2^(postfix + 2) + code - NumShortCodes - ndirect
             bucket == Log2Floor(far) - 1
             prefix == (far \div 2^bucket) % 2
             nbits == bucket - postfix
             N == 2^nbits
             rest == far - (2 + prefix) * 2^bucket
             extra == rest \div P
             low == rest % P
             high == 2 * (nbits - 1) + prefix
             symbol == NumShortCodes + ndirect + high * P + low
  <2>1. 2^(postfix + 2) = 4 * P
    <3>1. postfix + 1 \in Nat /\ (postfix + 1) + 1 = postfix + 2
      OBVIOUS
    <3>2. 2^((postfix + 1) + 1) = 2 * 2^(postfix + 1) /\ 2^(postfix + 1) = 2 * P
      BY <3>1, PowerStep
    <3>3. QED
      BY <1>0, <3>1, <3>2
  <2>2. far \in Nat /\ 2^(postfix + 2) <= far /\ far < 2^31
    BY <1>0, <1>2, <2>1
  <2>f. far = 4 * P + code - 16 - ndirect
    BY <1>0, <2>1
  <2>p. p = [symbol |-> NumShortCodes + ndirect + high * P + (far % P), nbits |-> nbits,
             extra |-> extra]
    BY <1>2 DEF PrefixEncodeCopyDistance
  <2> HIDE DEF far, P, p
  <2>3. /\ bucket \in Nat /\ nbits \in Nat \ {0} /\ prefix \in {0, 1}
        /\ 2^bucket = P * N /\ rest \in 0..2^bucket - 1
    BY <2>2, FarCode, Zenon DEF P
  <2>4. N \in Nat \ {0}
    BY <2>3, PowerStep
  <2>5. rest \in 0..P * N - 1 /\ far = P * ((2 + prefix) * N) + rest
    <3>1. far = (2 + prefix) * (P * N) + rest
      <4> DEFINE b == 2^bucket
                 c == (2 + prefix) * b
      <4>1. b \in Nat /\ b = P * N
        BY <1>0, <2>3, <2>4
      <4>2. c \in Nat
        BY <2>3, <4>1
      <4>3. rest = far - c
        OBVIOUS
      <4> HIDE DEF c, rest
      <4>4. far = c + rest
        BY <2>2, <4>2, <4>3
      <4> HIDE DEF b
      <4>5. QED
        BY <4>1, <4>4 DEF c
    <3>2. (2 + prefix) * (P * N) = P * ((2 + prefix) * N)
      <4> HIDE DEF prefix, N
      <4>1. CASE prefix = 0
        BY <1>0, <2>4, <4>1
      <4>2. CASE prefix = 1
        BY <1>0, <2>4, <4>2
      <4>3. QED
        BY <2>3, <4>1, <4>2
    <3> HIDE DEF rest, prefix, N
    <3>3. QED
      BY <2>3, <3>1, <3>2
  <2> HIDE DEF prefix, nbits, N, rest
  <2>6. extra \in Nat /\ low \in 0..P - 1 /\ rest = P * extra + low
    <3> DEFINE top == P * N
    <3>1. top \in Nat
      BY <1>0, <2>4
    <3> HIDE DEF top
    <3>2. rest \in 0..top - 1
      BY <2>5 DEF top
    <3>3. rest \in Nat
      BY <3>1, <3>2
    <3>4. QED
      BY <1>0, <3>3, DivMod
  <2> HIDE DEF extra, low
  <2>7. extra <= N - 1
    <3>1. SUFFICES ASSUME extra >= N PROVE FALSE
      BY <2>4, <2>6
    <3>2. P * extra >= P * N
      BY <1>0, <2>4, <2>6, <3>1
    <3>3. P * extra \in Nat /\ P * N \in Nat
      BY <1>0, <2>4, <2>6
    <3>4. QED
      BY <2>5, <2>6, <3>2, <3>3
  <2>8. far % P = low
    <3> DEFINE k == (2 + prefix) * N
               m == k + extra
    <3>1. k \in Nat
      BY <2>3, <2>4
    <3>3. far = P * k + rest
      BY <2>5
    <3> HIDE DEF k
    <3>2. P * m = P * k + P * extra /\ m \in Nat
      BY <1>0, <2>6, <3>1
    <3> HIDE DEF m
    <3> DEFINE a == P * k
               b == P * extra
    <3>4. a \in Nat /\ b \in Nat
      BY <1>0, <2>6, <3>1
    <3>5. far = P * m + low
      <4>1. far = a + rest /\ rest = b + low /\ P * m = a + b /\ low \in Nat
        BY <1>0, <2>6, <3>2, <3>3
      <4> HIDE DEF a, b
      <4>2. far = a + b + low
        BY <3>4, <4>1
      <4>3. QED
        BY <4>1, <4>2
    <3>6. QED
      BY <1>0, <2>6, <3>2, <3>5, ModIs
  <2>9. p.symbol = symbol /\ p.nbits = nbits /\ p.extra = extra
    <3> HIDE DEF high
    <3>1. QED
      BY <2>8, <2>p
  <2>10. high \in Nat /\ high % 2 = prefix /\ high \div 2 + 1 = nbits
    BY <2>3
  <2> HIDE DEF high
  <2>11. /\ symbol - NumShortCodes - ndirect = P * high + low
         /\ symbol - ndirect - NumShortCodes = P * high + low /\ P * high + low \in Nat
    BY <1>0, <2>6, <2>10
  <2>12. symbol \in Nat /\ ~(symbol < NumShortCodes + ndirect)
    BY <1>0, <2>6, <2>10
  <2> HIDE DEF symbol
  <2>13. (P * high + low) \div P = high /\ (P * high + low) % P = low
    BY <1>0, <2>6, <2>10, DivIs, ModIs
  <2> DEFINE reach == (2 + prefix) * N - 4
  <2>14. (reach + extra) * P + low + ndirect + NumShortCodes = code
    <3> DEFINE k == (2 + prefix) * N
    <3>1. k \in Nat
      BY <2>3, <2>4
    <3>2. far = P * k + rest
      BY <2>5
    <3> HIDE DEF k
    <3>3. (k - 4 + extra) * P = P * k - 4 * P + P * extra
      BY <1>0, <2>6, <3>1
    <3> DEFINE a == P * k
               b == P * extra
               c == 4 * P
               whole == (k - 4 + extra) * P
    <3>4. a \in Nat /\ b \in Nat /\ c \in Nat /\ low \in Nat
      BY <1>0, <2>6, <3>1
    <3>5. far = a + rest /\ rest = b + low /\ whole = a - c + b /\ far = c + code - 16 - ndirect
      BY <2>f, <2>6, <3>2, <3>3
    <3> HIDE DEF a, b, c, whole
    <3>6. whole + low + ndirect + 16 = code
      BY <3>4, <3>5
    <3>7. QED
      BY <1>0, <3>6 DEF k, whole
  <2>15. CommandRestoreDistanceCode(cmd, dist) = code
    <3>1. /\ cmd.dist_prefix = symbol /\ cmd.dist_nbits = nbits /\ cmd.dist_extra = extra
          /\ dist.ndirect = ndirect /\ dist.postfix = postfix
      BY <2>9
    <3> HIDE DEF cmd, dist
    <3>2. CommandRestoreDistanceCode(cmd, dist) =
            IF P * high + low < 0 THEN symbol
            ELSE ((2 + (high % 2)) * N - 4 + extra) * P + low + ndirect + NumShortCodes
      BY <2>11, <2>13, <3>1 DEF CommandRestoreDistanceCode, P, N
    <3>3. QED
      BY <2>10, <2>11, <2>14, <3>2
  <2>16. lut = [extra_bits |-> nbits, offset |-> ndirect + reach * P + 1 + low]
    BY <2>9, <2>10, <2>11, <2>12, <2>13 DEF DistanceLut, P, N
  <2>17. lut.extra_bits = nbits /\ lut.offset = ndirect + reach * P + 1 + low
    BY <2>16
  <2>18. lut.offset + extra * P = code - NumShortCodes + 1
    <3>1. reach \in Int
      BY <2>3, <2>4
    <3> HIDE DEF lut, reach
    <3> DEFINE a == reach * P
               b == extra * P
               whole == (reach + extra) * P
    <3>2. whole = a + b /\ a \in Int /\ b \in Int /\ low \in Nat
      BY <1>0, <2>6, <3>1
    <3>3. whole + low + ndirect + 16 = code /\ lut.offset = ndirect + a + 1 + low
      BY <1>0, <2>14, <2>17
    <3> HIDE DEF a, b, whole
    <3>4. lut.offset + b = code - 16 + 1
      BY <3>2, <3>3
    <3>5. QED
      BY <1>0, <3>4 DEF b
  <2>19. extra \in 0..N - 1
    BY <2>4, <2>6, <2>7
  <2> HIDE DEF lut, cmd, dist
  <2>20. QED
    BY <2>3, <2>9, <2>12, <2>15, <2>17, <2>18, <2>19 DEF N, P, p, lut, cmd, dist
<1>3. QED
  BY <1>1, <1>2

--------------------------------------------------------------------------------
(* Lengths.                                                                 *)

(* The first length of every code, as the source's tables list them. *)
InsFirst == <<0, 1, 2, 3, 4, 5, 6, 8, 10, 14, 18, 26, 34, 50, 66, 98, 130, 194, 322, 578,
              1090, 2114, 6210, 22594>>
CopyFirst == <<2, 3, 4, 5, 6, 7, 8, 9, 10, 12, 14, 18, 22, 30, 38, 54, 70, 102, 134, 198,
               326, 582, 1094, 2118>>

(* Ranges that follow each other from the first length on. *)
Ranges(g, first, extra) ==
    g = [c \in 0..23 |-> IF c = 0 THEN first ELSE g[c - 1] + 2^extra[c]]

(* The ranges are determined by their sizes. *)
LEMMA BasesIs ==
    ASSUME NEW first, NEW extra, NEW g, Ranges(g, first, extra)
    PROVE  Bases(first, extra) = g
<1> DEFINE f == CHOOSE h : Ranges(h, first, extra)
           T == {k \in Nat : k <= 23 /\ f[k] # g[k]}
<1>1. Ranges(f, first, extra)
  BY Zenon
<1>2. Bases(first, extra) = f
  BY DEF Bases, Ranges
<1> HIDE DEF f
<1>3. \A k \in 0..23 : f[k] = g[k]
  <2> SUFFICES ASSUME NEW j \in 0..23, f[j] # g[j] PROVE FALSE
    OBVIOUS
  <2>1. PICK k \in T : \A y \in T : k <= y
    <3>1. j \in T /\ T \subseteq Nat
      OBVIOUS
    <3> HIDE DEF T
    <3>2. QED
      BY <3>1, LeastElement
  <2>2. k \in 0..23 /\ f[k] # g[k]
    BY <2>1
  <2>3. /\ f[k] = IF k = 0 THEN first ELSE f[k - 1] + 2^extra[k]
        /\ g[k] = IF k = 0 THEN first ELSE g[k - 1] + 2^extra[k]
    BY <1>1, <2>2 DEF Ranges
  <2>4. k # 0
    BY <2>2, <2>3
  <2>5. k - 1 \in Nat /\ k - 1 <= 23 /\ ~(k <= k - 1)
    BY <2>2, <2>4
  <2>6. k - 1 \notin T
    <3> HIDE DEF T
    <3>1. QED
      BY <2>1, <2>5
  <2>7. f[k - 1] = g[k - 1]
    BY <2>5, <2>6
  <2>8. QED
    BY <2>2, <2>3, <2>4, <2>7
<1>4. f = [k \in 0..23 |-> f[k]] /\ g = [k \in 0..23 |-> g[k]]
  BY <1>1 DEF Ranges
<1>5. QED
  BY <1>2, <1>3, <1>4

(* Numbers that follow each other like the first lengths of the codes are these. *)
LEMMA FirstLengths ==
    ASSUME NEW first, NEW extra, NEW low, low[1] = first,
           \A c \in 1..23 : low[c + 1] = low[c] + 2^extra[c]
    PROVE  \A c \in 0..23 : Bases(first, extra)[c] = low[c + 1]
<1> DEFINE g == [c \in 0..23 |-> low[c + 1]]
<1>1. \A c \in 0..23 : g[c] = IF c = 0 THEN first ELSE g[c - 1] + 2^extra[c]
  <2> SUFFICES ASSUME NEW c \in 0..23
               PROVE  g[c] = IF c = 0 THEN first ELSE g[c - 1] + 2^extra[c]
    OBVIOUS
  <2>1. CASE c = 0
    BY <2>1
  <2>2. CASE c # 0
    <3>1. c \in 1..23 /\ c - 1 \in 0..23 /\ (c - 1) + 1 = c
      BY <2>2
    <3>2. g[c] = low[c + 1] /\ g[c - 1] = low[c]
      BY <3>1
    <3> HIDE DEF g
    <3>3. QED
      BY <2>2, <3>1, <3>2
  <2>3. QED
    BY <2>1, <2>2
<1>2. g = [c \in 0..23 |-> g[c]]
  OBVIOUS
<1>3. Ranges(g, first, extra)
  <2> HIDE DEF g
  <2>1. QED
    BY <1>1, <1>2 DEF Ranges
<1>4. Bases(first, extra) = g
  <2> HIDE DEF g
  <2>1. QED
    BY <1>3, BasesIs
<1>5. QED
  BY <1>4

(* The tables that the source computes from the extra bits are the listed ones. *)
LEMMA InsBaseIs == \A c \in 0..23 : InsBase[c] = InsFirst[c + 1]
<1> DEFINE F(c) == InsFirst[c + 1] = InsFirst[c] + 2^InsExtra[c]
<1>1. /\ F(1) /\ F(2) /\ F(3) /\ F(4) /\ F(5) /\ F(6) /\ F(7) /\ F(8)
      /\ F(9) /\ F(10) /\ F(11) /\ F(12) /\ F(13) /\ F(14) /\ F(15) /\ F(16)
      /\ F(17) /\ F(18) /\ F(19) /\ F(20) /\ F(21) /\ F(22) /\ F(23)
  BY DEF InsFirst, InsExtra
<1> HIDE DEF F
<1>2. \A c \in 1..23 : F(c)
  BY <1>1
<1>3. InsFirst[1] = 0
  BY DEF InsFirst
<1>4. QED
  BY <1>2, <1>3, FirstLengths DEF InsBase, F

(* As for the lengths of inserts. *)
LEMMA CopyBaseIs == \A c \in 0..23 : CopyBase[c] = CopyFirst[c + 1]
<1> DEFINE F(c) == CopyFirst[c + 1] = CopyFirst[c] + 2^CopyExtra[c]
<1>1. /\ F(1) /\ F(2) /\ F(3) /\ F(4) /\ F(5) /\ F(6) /\ F(7) /\ F(8)
      /\ F(9) /\ F(10) /\ F(11) /\ F(12) /\ F(13) /\ F(14) /\ F(15) /\ F(16)
      /\ F(17) /\ F(18) /\ F(19) /\ F(20) /\ F(21) /\ F(22) /\ F(23)
  BY DEF CopyFirst, CopyExtra
<1> HIDE DEF F
<1>2. \A c \in 1..23 : F(c)
  BY <1>1
<1>3. CopyFirst[1] = 2
  BY DEF CopyFirst
<1>4. QED
  BY <1>2, <1>3, FirstLengths DEF CopyBase, F

(* The logarithm of a number between two powers. *)
LEMMA LogIs ==
    ASSUME NEW v \in Nat, NEW k \in 0..29, 2^k <= v, v < 2^(k + 1)
    PROVE  Log2Floor(v) = k
<1>1. k + 1 \in Nat /\ k + 1 <= 31 /\ k \in Nat
  OBVIOUS
<1>2. 2^k \in Nat \ {0} /\ 2^(k + 1) \in Nat /\ 2^(k + 1) <= 2^31
  BY <1>1, PowerStep, PowerGrows
<1>3. v # 0 /\ v < 2^31
  BY <1>2
<1>4. PICK w \in 1..31 : BitWidth(v) = w /\ 2^(w - 1) <= v /\ v < 2^w
  BY <1>3, BitWidthIs
<1>5. w - 1 \in Nat /\ w \in Nat /\ 2^(w - 1) \in Nat /\ 2^w \in Nat
  BY PowerStep
<1>6. w <= k + 1
  <2> SUFFICES ASSUME k + 1 <= w - 1 PROVE FALSE
    BY <1>1
  <2>1. 2^(k + 1) <= 2^(w - 1)
    BY <1>1, <1>5, PowerGrows
  <2>2. QED
    BY <1>2, <1>4, <1>5, <2>1
<1>7. w >= k + 1
  <2> SUFFICES ASSUME w <= k PROVE FALSE
    BY <1>1
  <2>1. 2^w <= 2^k
    BY <1>1, <1>5, PowerGrows
  <2>2. QED
    BY <1>2, <1>4, <1>5, <2>1
<1>8. QED
  BY <1>4, <1>6, <1>7 DEF Log2Floor

(* A number between two powers, as quotient and remainder by the power below: the *)
(* prefix codes of lengths take the first bit of the number below its highest. *)
LEMMA TopBits ==
    ASSUME NEW x \in Nat, NEW k \in 0..28, 2 * 2^k <= x, x < 4 * 2^k
    PROVE  /\ Log2Floor(x) = k + 1
           /\ x \div 2^k \in {2, 3} /\ x - (x \div 2^k) * 2^k \in 0..2^k - 1
<1> DEFINE p == 2^k
           q == x \div p
           r == x % p
<1>1. k + 1 \in 0..29 /\ k + 1 \in Nat /\ k \in Nat
  OBVIOUS
<1>2. p \in Nat \ {0} /\ 2^(k + 1) = 2 * p /\ 2^((k + 1) + 1) = 2 * 2^(k + 1)
  BY <1>1, PowerStep
<1> HIDE DEF p
<1>3. 2 * p <= x /\ x < 4 * p
  BY DEF p
<1>4. 2^(k + 1) <= x /\ x < 2^((k + 1) + 1)
  BY <1>2, <1>3
<1>5. Log2Floor(x) = k + 1
  BY <1>1, <1>4, LogIs
<1>6. q \in Nat /\ r \in 0..p - 1 /\ x = p * q + r
  BY <1>2, DivMod
<1> HIDE DEF q, r
<1>7. q \in {2, 3}
  <2>1. q <= 1 => p * q <= p * 1
    BY <1>2, <1>6
  <2>2. q >= 4 => p * q >= p * 4
    BY <1>2, <1>6
  <2>3. QED
    BY <1>2, <1>3, <1>6, <2>1, <2>2
<1>8. x - q * p = r
  BY <1>2, <1>6, <1>7
<1>9. QED
  BY <1>5, <1>6, <1>7, <1>8 DEF p, q

(* The lengths that the last codes reach. *)
InsertEnd == 22594 + 2^24
CopyEnd == 2118 + 2^24

(* The code of a length that an insert may have: the length is in its range. *)
LEMMA InsertCode ==
    ASSUME NEW n \in Nat, n < InsertEnd
    PROVE  LET c == GetInsertLengthCode(n)
           IN  c \in 0..23 /\ n - InsFirst[c + 1] \in 0..2^InsExtra[c + 1] - 1
<1> DEFINE In(c) == c \in 0..23 /\ n - InsFirst[c + 1] \in 0..2^InsExtra[c + 1] - 1
           code == GetInsertLengthCode(n)
           Row(c, low, extra) == InsFirst[c + 1] = low /\ InsExtra[c + 1] = extra
<1>1. SUFFICES In(code)
  OBVIOUS
<1>2. ASSUME NEW c \in 0..23, NEW low, NEW extra, Row(c, low, extra), n - low \in 0..2^extra - 1,
             code = c
      PROVE  In(code)
  BY <1>2
<1> HIDE DEF In
<1>3. CASE n < 6
  <2>1. code = n
    BY <1>3 DEF GetInsertLengthCode
  <2> HIDE DEF code
  <2>2. Row(0, 0, 0) /\ Row(1, 1, 0) /\ Row(2, 2, 0) /\ Row(3, 3, 0) /\ Row(4, 4, 0) /\ Row(5, 5, 0)
    BY DEF InsFirst, InsExtra
  <2> HIDE DEF Row
  <2>3. n \in 0..23 /\ Row(n, n, 0)
    BY <1>3, <2>2
  <2>4. n - n \in 0..2^0 - 1
    BY PowerZero
  <2>5. QED
    BY <1>2, <2>1, <2>3, <2>4, Zenon
<1>4. ASSUME NEW k \in 1..5, 2 * 2^k <= n - 2, n - 2 < 4 * 2^k, n \in 6..129 PROVE In(code)
  <2> DEFINE x == n - 2
             h == x \div 2^k
             c == 2 * k + h + 2
             low == h * 2^k + 2
  <2>1. x \in Nat /\ k \in 0..28 /\ 2 * 2^k <= x /\ x < 4 * 2^k
    BY <1>4
  <2>2. Log2Floor(x) = k + 1 /\ h \in {2, 3} /\ x - h * 2^k \in 0..2^k - 1
    BY <2>1, TopBits, Zenon
  <2>3. code = c
    <3>1. Log2Floor(n - 2) - 1 = k
      BY <1>4, <2>2
    <3>2. code = 2 * (Log2Floor(n - 2) - 1) + ((n - 2) \div 2^(Log2Floor(n - 2) - 1)) + 2
      BY <1>4 DEF GetInsertLengthCode
    <3>3. QED
      BY <3>1, <3>2
  <2> HIDE DEF code
  <2> DEFINE Half(j, g) == Row(2 * j + g + 2, g * 2^j + 2, j)
  <2>4. /\ Half(1, 2) /\ Half(2, 2) /\ Half(3, 2) /\ Half(4, 2) /\ Half(5, 2)
        /\ Half(1, 3) /\ Half(2, 3) /\ Half(3, 3) /\ Half(4, 3) /\ Half(5, 3)
    BY DEF InsFirst, InsExtra
  <2>5. c \in 0..23 /\ Row(c, low, k)
    <3> HIDE DEF Half, h
    <3>1. c \in 0..23
      BY <1>4, <2>2
    <3>2. Half(k, h)
      BY <1>4, <2>2, <2>4
    <3>3. QED
      BY <3>1, <3>2 DEF Half
  <2> HIDE DEF Row, h
  <2>6. n - low \in 0..2^k - 1
    <3> DEFINE y == h * 2^k
               p == 2^k
    <3>1. p \in Nat
      BY <2>1, PowerStep
    <3>2. y \in Nat
      BY <2>2, <3>1
    <3>3. x - y \in 0..p - 1
      BY <2>2
    <3> HIDE DEF y, p
    <3>4. n - (y + 2) \in 0..p - 1
      BY <3>1, <3>2, <3>3
    <3>5. QED
      BY <3>4 DEF y, p
  <2> HIDE DEF c, low
  <2>7. QED
    BY <1>2, <2>3, <2>5, <2>6, Zenon
<1>5. CASE n \in 6..129
  <2>0. 2^1 = 2 /\ 2^2 = 4 /\ 2^3 = 8 /\ 2^4 = 16 /\ 2^5 = 32
    OBVIOUS
  <2>1. \E k \in 1..5 : 2 * 2^k <= n - 2 /\ n - 2 < 4 * 2^k
    <3>1. CASE n - 2 < 8
      BY <1>5, <2>0, <3>1
    <3>2. CASE 8 <= n - 2 /\ n - 2 < 16
      BY <1>5, <2>0, <3>2
    <3>3. CASE 16 <= n - 2 /\ n - 2 < 32
      BY <1>5, <2>0, <3>3
    <3>4. CASE 32 <= n - 2 /\ n - 2 < 64
      BY <1>5, <2>0, <3>4
    <3>5. CASE 64 <= n - 2
      BY <1>5, <2>0, <3>5
    <3>6. QED
      BY <1>5, <3>1, <3>2, <3>3, <3>4, <3>5
  <2> HIDE DEF code
  <2>2. QED
    BY <1>4, <1>5, <2>1
<1>6. ASSUME NEW k \in 6..10, 2^k <= n - 66, n - 66 < 2^(k + 1), n \in 130..2113 PROVE In(code)
  <2>1. /\ n - 66 \in Nat /\ k \in 0..29 /\ k \in Nat
        /\ 2^k <= n - 66 /\ n - 66 < 2^(k + 1)
    BY <1>6
  <2>2. Log2Floor(n - 66) = k
    BY <2>1, LogIs, Zenon
  <2>3. code = k + 10
    <3>1. code = Log2Floor(n - 66) + 10
      BY <1>6 DEF GetInsertLengthCode
    <3>2. QED
      BY <2>2, <3>1
  <2> HIDE DEF code
  <2> DEFINE Span(j) == Row(j + 10, 2^j + 66, j)
  <2>4. Span(6) /\ Span(7) /\ Span(8) /\ Span(9) /\ Span(10)
    BY DEF InsFirst, InsExtra
  <2>5. k + 10 \in 0..23 /\ Row(k + 10, 2^k + 66, k)
    <3> HIDE DEF Span
    <3>1. k + 10 \in 0..23
      BY <1>6
    <3>2. Span(k)
      BY <1>6, <2>4
    <3>3. QED
      BY <3>1, <3>2 DEF Span
  <2> HIDE DEF Row
  <2>6. n - (2^k + 66) \in 0..2^k - 1
    <3> DEFINE p == 2^k
    <3>1. p \in Nat /\ 2^(k + 1) = 2 * p
      BY <2>1, PowerStep
    <3>2. p <= n - 66 /\ n - 66 < 2 * p
      BY <1>6, <3>1
    <3> HIDE DEF p
    <3>3. n - (p + 66) \in 0..p - 1
      BY <3>1, <3>2
    <3>4. QED
      BY <3>3 DEF p
  <2>7. QED
    BY <1>2, <2>3, <2>5, <2>6, Zenon
<1>7. CASE n \in 130..2113
  <2>0. 2^6 = 64 /\ 2^7 = 128 /\ 2^8 = 256 /\ 2^9 = 512 /\ 2^10 = 1024 /\ 2^11 = 2048
    OBVIOUS
  <2>1. \E k \in 6..10 : 2^k <= n - 66 /\ n - 66 < 2^(k + 1)
    <3>1. CASE n - 66 < 128
      BY <1>7, <2>0, <3>1
    <3>2. CASE 128 <= n - 66 /\ n - 66 < 256
      BY <1>7, <2>0, <3>2
    <3>3. CASE 256 <= n - 66 /\ n - 66 < 512
      BY <1>7, <2>0, <3>3
    <3>4. CASE 512 <= n - 66 /\ n - 66 < 1024
      BY <1>7, <2>0, <3>4
    <3>5. CASE 1024 <= n - 66
      BY <1>7, <2>0, <3>5
    <3>6. QED
      BY <1>7, <3>1, <3>2, <3>3, <3>4, <3>5
  <2> HIDE DEF code
  <2>2. QED
    BY <1>6, <1>7, <2>1
<1>8. CASE n \in 2114..6209
  <2> DEFINE low == 2114
  <2>1. code = 21
    BY <1>8 DEF GetInsertLengthCode
  <2>2. 21 \in 0..23 /\ Row(21, low, 12)
    BY DEF InsFirst, InsExtra
  <2>3. n - low \in 0..2^12 - 1
    BY <1>8
  <2> HIDE DEF code, Row, low
  <2>4. QED
    BY <1>2, <2>1, <2>2, <2>3, Zenon
<1>9. CASE n \in 6210..22593
  <2> DEFINE low == 6210
  <2>1. code = 22
    BY <1>9 DEF GetInsertLengthCode
  <2>2. 22 \in 0..23 /\ Row(22, low, 14)
    BY DEF InsFirst, InsExtra
  <2>3. n - low \in 0..2^14 - 1
    BY <1>9
  <2> HIDE DEF code, Row, low
  <2>4. QED
    BY <1>2, <2>1, <2>2, <2>3, Zenon
<1>10. CASE n >= 22594
  <2> DEFINE low == 22594
  <2>1. code = 23
    BY <1>10 DEF GetInsertLengthCode
  <2>2. 23 \in 0..23 /\ Row(23, low, 24)
    BY DEF InsFirst, InsExtra
  <2>3. n - low \in 0..2^24 - 1
    BY <1>10 DEF InsertEnd
  <2> HIDE DEF code, Row, low
  <2>4. QED
    BY <1>2, <2>1, <2>2, <2>3, Zenon
<1>11. QED
  <2> HIDE DEF code
  <2>1. QED
    BY <1>3, <1>5, <1>7, <1>8, <1>9, <1>10

(* The code of a length that a copy may have: the length is in its range. *)
LEMMA CopyCode ==
    ASSUME NEW n \in Nat \ {0, 1}, n < CopyEnd
    PROVE  LET c == GetCopyLengthCode(n)
           IN  c \in 0..23 /\ n - CopyFirst[c + 1] \in 0..2^CopyExtra[c + 1] - 1
<1> DEFINE In(c) == c \in 0..23 /\ n - CopyFirst[c + 1] \in 0..2^CopyExtra[c + 1] - 1
           code == GetCopyLengthCode(n)
           Row(c, low, extra) == CopyFirst[c + 1] = low /\ CopyExtra[c + 1] = extra
<1>1. SUFFICES In(code)
  OBVIOUS
<1>2. ASSUME NEW c \in 0..23, NEW low, NEW extra, Row(c, low, extra), n - low \in 0..2^extra - 1,
             code = c
      PROVE  In(code)
  BY <1>2
<1> HIDE DEF In
<1>3. CASE n < 10
  <2>1. code = n - 2
    BY <1>3 DEF GetCopyLengthCode
  <2> HIDE DEF code
  <2>2. /\ Row(0, 2, 0) /\ Row(1, 3, 0) /\ Row(2, 4, 0) /\ Row(3, 5, 0) /\ Row(4, 6, 0)
        /\ Row(5, 7, 0) /\ Row(6, 8, 0) /\ Row(7, 9, 0)
    BY DEF CopyFirst, CopyExtra
  <2> HIDE DEF Row
  <2>3. n - 2 \in 0..23 /\ Row(n - 2, n, 0)
    BY <1>3, <2>2
  <2>4. n - n \in 0..2^0 - 1
    BY PowerZero
  <2>5. QED
    BY <1>2, <2>1, <2>3, <2>4, Zenon
<1>4. ASSUME NEW k \in 1..5, 2 * 2^k <= n - 6, n - 6 < 4 * 2^k, n \in 10..133 PROVE In(code)
  <2> DEFINE x == n - 6
             h == x \div 2^k
             c == 2 * k + h + 4
             low == h * 2^k + 6
  <2>1. x \in Nat /\ k \in 0..28 /\ 2 * 2^k <= x /\ x < 4 * 2^k
    BY <1>4
  <2>2. Log2Floor(x) = k + 1 /\ h \in {2, 3} /\ x - h * 2^k \in 0..2^k - 1
    BY <2>1, TopBits, Zenon
  <2>3. code = c
    <3>1. Log2Floor(n - 6) - 1 = k
      BY <1>4, <2>2
    <3>2. code = 2 * (Log2Floor(n - 6) - 1) + ((n - 6) \div 2^(Log2Floor(n - 6) - 1)) + 4
      BY <1>4 DEF GetCopyLengthCode
    <3>3. QED
      BY <3>1, <3>2
  <2> HIDE DEF code
  <2> DEFINE Half(j, g) == Row(2 * j + g + 4, g * 2^j + 6, j)
  <2>4. /\ Half(1, 2) /\ Half(2, 2) /\ Half(3, 2) /\ Half(4, 2) /\ Half(5, 2)
        /\ Half(1, 3) /\ Half(2, 3) /\ Half(3, 3) /\ Half(4, 3) /\ Half(5, 3)
    BY DEF CopyFirst, CopyExtra
  <2>5. c \in 0..23 /\ Row(c, low, k)
    <3> HIDE DEF Half, h
    <3>1. c \in 0..23
      BY <1>4, <2>2
    <3>2. Half(k, h)
      BY <1>4, <2>2, <2>4
    <3>3. QED
      BY <3>1, <3>2 DEF Half
  <2> HIDE DEF Row, h
  <2>6. n - low \in 0..2^k - 1
    <3> DEFINE y == h * 2^k
               p == 2^k
    <3>1. p \in Nat
      BY <2>1, PowerStep
    <3>2. y \in Nat
      BY <2>2, <3>1
    <3>3. x - y \in 0..p - 1
      BY <2>2
    <3> HIDE DEF y, p
    <3>4. n - (y + 6) \in 0..p - 1
      BY <3>1, <3>2, <3>3
    <3>5. QED
      BY <3>4 DEF y, p
  <2> HIDE DEF c, low
  <2>7. QED
    BY <1>2, <2>3, <2>5, <2>6, Zenon
<1>5. CASE n \in 10..133
  <2>0. 2^1 = 2 /\ 2^2 = 4 /\ 2^3 = 8 /\ 2^4 = 16 /\ 2^5 = 32
    OBVIOUS
  <2>1. \E k \in 1..5 : 2 * 2^k <= n - 6 /\ n - 6 < 4 * 2^k
    <3>1. CASE n - 6 < 8
      BY <1>5, <2>0, <3>1
    <3>2. CASE 8 <= n - 6 /\ n - 6 < 16
      BY <1>5, <2>0, <3>2
    <3>3. CASE 16 <= n - 6 /\ n - 6 < 32
      BY <1>5, <2>0, <3>3
    <3>4. CASE 32 <= n - 6 /\ n - 6 < 64
      BY <1>5, <2>0, <3>4
    <3>5. CASE 64 <= n - 6
      BY <1>5, <2>0, <3>5
    <3>6. QED
      BY <1>5, <3>1, <3>2, <3>3, <3>4, <3>5
  <2> HIDE DEF code
  <2>2. QED
    BY <1>4, <1>5, <2>1
<1>6. ASSUME NEW k \in 6..10, 2^k <= n - 70, n - 70 < 2^(k + 1), n \in 134..2117 PROVE In(code)
  <2>1. /\ n - 70 \in Nat /\ k \in 0..29 /\ k \in Nat
        /\ 2^k <= n - 70 /\ n - 70 < 2^(k + 1)
    BY <1>6
  <2>2. Log2Floor(n - 70) = k
    BY <2>1, LogIs, Zenon
  <2>3. code = k + 12
    <3>1. code = Log2Floor(n - 70) + 12
      BY <1>6 DEF GetCopyLengthCode
    <3>2. QED
      BY <2>2, <3>1
  <2> HIDE DEF code
  <2> DEFINE Span(j) == Row(j + 12, 2^j + 70, j)
  <2>4. Span(6) /\ Span(7) /\ Span(8) /\ Span(9) /\ Span(10)
    BY DEF CopyFirst, CopyExtra
  <2>5. k + 12 \in 0..23 /\ Row(k + 12, 2^k + 70, k)
    <3> HIDE DEF Span
    <3>1. k + 12 \in 0..23
      BY <1>6
    <3>2. Span(k)
      BY <1>6, <2>4
    <3>3. QED
      BY <3>1, <3>2 DEF Span
  <2> HIDE DEF Row
  <2>6. n - (2^k + 70) \in 0..2^k - 1
    <3> DEFINE p == 2^k
    <3>1. p \in Nat /\ 2^(k + 1) = 2 * p
      BY <2>1, PowerStep
    <3>2. p <= n - 70 /\ n - 70 < 2 * p
      BY <1>6, <3>1
    <3> HIDE DEF p
    <3>3. n - (p + 70) \in 0..p - 1
      BY <3>1, <3>2
    <3>4. QED
      BY <3>3 DEF p
  <2>7. QED
    BY <1>2, <2>3, <2>5, <2>6, Zenon
<1>7. CASE n \in 134..2117
  <2>0. 2^6 = 64 /\ 2^7 = 128 /\ 2^8 = 256 /\ 2^9 = 512 /\ 2^10 = 1024 /\ 2^11 = 2048
    OBVIOUS
  <2>1. \E k \in 6..10 : 2^k <= n - 70 /\ n - 70 < 2^(k + 1)
    <3>1. CASE n - 70 < 128
      BY <1>7, <2>0, <3>1
    <3>2. CASE 128 <= n - 70 /\ n - 70 < 256
      BY <1>7, <2>0, <3>2
    <3>3. CASE 256 <= n - 70 /\ n - 70 < 512
      BY <1>7, <2>0, <3>3
    <3>4. CASE 512 <= n - 70 /\ n - 70 < 1024
      BY <1>7, <2>0, <3>4
    <3>5. CASE 1024 <= n - 70
      BY <1>7, <2>0, <3>5
    <3>6. QED
      BY <1>7, <3>1, <3>2, <3>3, <3>4, <3>5
  <2> HIDE DEF code
  <2>2. QED
    BY <1>6, <1>7, <2>1
<1>8. CASE n >= 2118
  <2> DEFINE low == 2118
  <2>1. code = 23
    BY <1>8 DEF GetCopyLengthCode
  <2>2. 23 \in 0..23 /\ Row(23, low, 24)
    BY DEF CopyFirst, CopyExtra
  <2>3. n - low \in 0..2^24 - 1
    BY <1>8 DEF CopyEnd
  <2> HIDE DEF code, Row, low
  <2>4. QED
    BY <1>2, <2>1, <2>2, <2>3, Zenon
<1>9. QED
  <2> HIDE DEF code
  <2>1. QED
    BY <1>3, <1>5, <1>7, <1>8

(* The decoder's table undoes what CombineLengthCodes makes of two codes. *)
LEMMA CodesAreApart ==
    ASSUME NEW i \in 0..23, NEW c \in 0..23, NEW last \in BOOLEAN
    PROVE  LET lut == CmdLut(CombineLengthCodes(i, c, last))
           IN  /\ lut.insert_extra = InsExtra[i + 1] /\ lut.insert_offset = InsBase[i]
               /\ lut.copy_extra = CopyExtra[c + 1] /\ lut.copy_offset = CopyBase[c]
               /\ lut.distance_code = IF last /\ i < 8 /\ c < 16 THEN 0 ELSE -1
<1> DEFINE symbol == CombineLengthCodes(i, c, last)
           short == last /\ i < 8 /\ c < 16
           ih == i \div 8
           il == i % 8
           ch == c \div 8
           cl == c % 8
           low == cl + 8 * il
           cell == symbol \div 64
           pos == CellPos[cell + 1]
<1>1. ih \in 0..2 /\ il \in 0..7 /\ i = 8 * ih + il /\ ch \in 0..2 /\ cl \in 0..7 /\ c = 8 * ch + cl
  OBVIOUS
<1>2. low \in 0..63 /\ (low \div 8) % 8 = il /\ low % 8 = cl
  <2> HIDE DEF il, cl
  <2>1. QED
    BY <1>1
<1>3. \E n \in 0..10 : 
        /\ symbol = 64 * n + low
        /\ n = IF short THEN ch ELSE ch + 3 * ih + 1 + CellShift[ch + 3 * ih + 1]
  <2> DEFINE index == ch + 3 * ih
  <2>1. symbol = IF short THEN low + (IF c < 8 THEN 0 ELSE 64)
                 ELSE 64 * (index + 1 + CellShift[index + 1]) + low
    BY DEF CombineLengthCodes
  <2> HIDE DEF symbol, low, ih, ch, il, cl
  <2>2. CASE short
    <3>1. ch \in {0, 1} /\ (c < 8 <=> ch = 0)
      BY <1>1, <2>2
    <3>2. symbol = 64 * ch + low
      BY <1>2, <2>1, <2>2, <3>1
    <3>3. QED
      BY <1>1, <2>2, <3>1, <3>2
  <2>3. CASE ~short
    <3> DEFINE n == index + 1 + CellShift[index + 1]
    <3>1. index \in 0..8
      BY <1>1
    <3> HIDE DEF index, short
    <3>2. n \in 0..10
      BY <3>1 DEF CellShift
    <3>3. symbol = 64 * n + low
      BY <2>1, <2>3
    <3> HIDE DEF n
    <3>4. QED
      BY <2>3, <3>2, <3>3 DEF n, index
  <2>4. QED
    BY <2>2, <2>3
<1>4. PICK n \in 0..10 : 
        /\ symbol = 64 * n + low
        /\ n = IF short THEN ch ELSE ch + 3 * ih + 1 + CellShift[ch + 3 * ih + 1]
  BY <1>3
<1>5. cell = n /\ symbol % 8 = cl /\ (symbol \div 8) % 8 = il /\ (symbol < 128 <=> n < 2)
  <2>1. symbol = 64 * n + low
    BY <1>4
  <2> DEFINE s == symbol
  <2> HIDE DEF symbol, low, il, cl
  <2>2. s \in Nat /\ s = 64 * n + low /\ low \in 0..63
    BY <1>2, <2>1
  <2> HIDE DEF s
  <2>3. s \div 64 = n
    BY <2>2
  <2>4. s % 8 = low % 8
    BY <2>2
  <2>5. s \div 8 = 8 * n + (low \div 8)
    BY <2>2
  <2>6. (s \div 8) % 8 = (low \div 8) % 8
    <3> DEFINE h == low \div 8
    <3>1. h \in 0..7
      BY <1>2
    <3> HIDE DEF h
    <3>2. (8 * n + h) % 8 = h % 8
      BY <3>1
    <3>3. QED
      BY <2>5, <3>2 DEF h
  <2>7. s < 128 <=> n < 2
    BY <2>2
  <2>8. QED
    BY <1>2, <2>3, <2>4, <2>6, <2>7 DEF s
<1>6. pos % 4 = ch /\ pos \div 8 = ih /\ (n < 2 <=> short)
  <2> HIDE DEF symbol, cell, low, il, cl
  <2>1. CASE short
    <3>1. n = ch /\ ch \in {0, 1} /\ ih = 0
      BY <1>1, <1>4, <2>1
    <3> HIDE DEF ch, ih, short
    <3>2. QED
      BY <1>5, <2>1, <3>1 DEF CellPos
  <2>2. CASE ~short
    <3>1. n = ch + 3 * ih + 1 + CellShift[ch + 3 * ih + 1]
      BY <1>4, <2>2
    <3> HIDE DEF ch, ih, short
    <3>2. QED
      BY <1>1, <1>5, <2>2, <3>1 DEF CellPos, CellShift
  <2>3. QED
    BY <2>1, <2>2
<1>7. 8 * (pos % 4) + (symbol % 8) = c /\ 8 * (pos \div 8) + ((symbol \div 8) % 8) = i
  <2> HIDE DEF symbol, pos, ch, cl, ih, il
  <2>1. QED
    BY <1>1, <1>5, <1>6
<1> DEFINE lut == CmdLut(symbol)
<1>8. lut = [insert_extra |-> InsExtra[i + 1], insert_offset |-> InsBase[i],
             copy_extra |-> CopyExtra[c + 1], copy_offset |-> CopyBase[c],
             context |-> IF CopyBase[c] > 4 THEN 3 ELSE CopyBase[c] - 2,
             distance_code |-> IF symbol < 128 THEN 0 ELSE -1]
  <2> HIDE DEF symbol
  <2>1. QED
    BY <1>7 DEF CmdLut
<1>9. /\ lut.insert_extra = InsExtra[i + 1] /\ lut.insert_offset = InsBase[i]
      /\ lut.copy_extra = CopyExtra[c + 1] /\ lut.copy_offset = CopyBase[c]
      /\ lut.distance_code = IF symbol < 128 THEN 0 ELSE -1
  <2> HIDE DEF symbol
  <2>1. QED
    BY <1>8
<1> HIDE DEF lut
<1>10. lut.distance_code = IF short THEN 0 ELSE -1
  <2> HIDE DEF symbol
  <2>1. QED
    BY <1>5, <1>6, <1>9
<1>11. QED
  BY <1>9, <1>10 DEF lut

(***************************************************************************)
(* The two ends agree on lengths: the symbol that GetLengthCode (command.h)  *)
(* makes of the lengths of an insert and of a copy leads the decoder, in its  *)
(* table kCmdLut, to ranges in which the lengths are, with the extra bits     *)
(* that StoreCommandExtra writes, for all lengths that the last codes reach;  *)
(* and the decoder takes the last distance without reading one only if the    *)
(* encoder meant it.                                                         *)
(***************************************************************************)
THEOREM LengthsAgree ==
    ASSUME NEW insertlen \in Nat, NEW copylen \in Nat, NEW use_last_distance \in BOOLEAN,
           insertlen < InsertEnd, 2 <= copylen, copylen < CopyEnd
    PROVE  LET lut == CmdLut(GetLengthCode(insertlen, copylen, use_last_distance))
           IN  /\ insertlen - lut.insert_offset \in 0..2^lut.insert_extra - 1
               /\ copylen - lut.copy_offset \in 0..2^lut.copy_extra - 1
               /\ lut.insert_extra = InsExtra[GetInsertLengthCode(insertlen) + 1]
               /\ lut.copy_extra = CopyExtra[GetCopyLengthCode(copylen) + 1]
               /\ lut.distance_code \in {0, -1} /\ (lut.distance_code = 0 => use_last_distance)
<1> DEFINE i == GetInsertLengthCode(insertlen)
           c == GetCopyLengthCode(copylen)
           lut == CmdLut(CombineLengthCodes(i, c, use_last_distance))
<1>1. copylen \in Nat \ {0, 1}
  OBVIOUS
<1>2. /\ i \in 0..23 /\ insertlen - InsFirst[i + 1] \in 0..2^InsExtra[i + 1] - 1
      /\ c \in 0..23 /\ copylen - CopyFirst[c + 1] \in 0..2^CopyExtra[c + 1] - 1
  BY <1>1, InsertCode, CopyCode
<1> HIDE DEF i, c
<1>3. /\ lut.insert_extra = InsExtra[i + 1] /\ lut.insert_offset = InsBase[i]
      /\ lut.copy_extra = CopyExtra[c + 1] /\ lut.copy_offset = CopyBase[c]
      /\ lut.distance_code = IF use_last_distance /\ i < 8 /\ c < 16 THEN 0 ELSE -1
  BY <1>2, CodesAreApart
<1>4. InsBase[i] = InsFirst[i + 1] /\ CopyBase[c] = CopyFirst[c + 1]
  BY <1>2, InsBaseIs, CopyBaseIs
<1> HIDE DEF lut
<1>5. /\ insertlen - lut.insert_offset \in 0..2^lut.insert_extra - 1
      /\ copylen - lut.copy_offset \in 0..2^lut.copy_extra - 1
  BY <1>2, <1>3, <1>4
<1>6. lut.distance_code \in {0, -1} /\ (lut.distance_code = 0 => use_last_distance)
  BY <1>3
<1>7. QED
  BY <1>3, <1>5, <1>6 DEF lut, i, c, GetLengthCode
=============================================================================
