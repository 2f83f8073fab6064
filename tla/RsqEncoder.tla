----------------------------- MODULE RsqEncoder -----------------------------
(***************************************************************************)
(* How the points get their codes: RsqEncoder, RsqBasePoints               *)
(* (engine/algorithms/PipNN/quantization/rsq_encoder.cc),                  *)
(* HadamardAndMatrixRotation (rotation.h) and init_rsq, init_rsq_streaming *)
(* and derive_rsq1_from_rsq8 (pipnn.h).  A point is flipped by random      *)
(* signs, rotated, and each coordinate rounded to a multiple of 1/127 of   *)
(* the largest or reduced to its sign.  The workers of a parallel_for      *)
(* encode the points of a chunk in any order, each with buffers it keeps   *)
(* from point to point.                                                    *)
(*                                                                         *)
(* Coordinates are integers: neither code changes when a vector is scaled, *)
(* so the division by its norm is left out.  A stored scale is the square  *)
(* root of a fraction, here <<numerator, denominator>>.                    *)
(***************************************************************************)
EXTENDS Integers, Sequences, FiniteSets, FiniteSetsExt, Functions, SequencesExt

CONSTANTS
  NF,               \* floats of a vector, a power of two
  CHUNK_POINTS,
  Encoder,          \* the workers
  rotation_matrix,  \* for each number of subspaces, [row, column -> Int]
  Huge,             \* the square of a coordinate so large is infinite
  Sources           \* [how: {"memory", "f32", "f16"}, rsq_bits, signs, rows]

VARIABLES
  src,        \* the points that are encoded
  base,       \* first point of the chunk
  todo,       \* points of the chunk, or of the derivation, still to come
  at,         \* the point a worker encodes, or Nobody
  tl_decode,  \* thread_local: the point a worker decodes
  rotated,    \* rotated[i]: rotated_coordinates of the worker at i, kept for the
              \* properties when it goes on
  tl_code1,   \* thread_local: the 1-bit code a worker derives
  codes,      \* [bits -> [point -> code]]: quantized_data_; a 1-bit code is the
              \* set of the coordinates whose bit is 1
  scales,     \* norm_data_: scaling factors
  byte_sums,  \* norm_data_: sums
  pc

vars == <<src, base, todo, at, tl_decode, rotated, tl_code1, codes, scales, byte_sums, pc>>

num_points == Len(src.rows)
dims == Len(src.signs)
Coord == 0..(dims - 1)
SumUp(f, S) == FoldFunctionOnSet(LAMBDA a, b : a + b, 0, f, S)
Abs(x) == IF x < 0 THEN -x ELSE x

-----------------------------------------------------------------------------
(* The rotation. *)

num_subspaces == Max({o \in 1..dims : o % 2 = 1 /\ dims % o = 0})
subspace_dim == dims \div num_subspaces

\* a, b of two places h apart become a + b, a - b.
Butterfly(data, h, At) ==
  [x \in DOMAIN data |->
     IF x \notin At THEN data[x]
     ELSE IF (x \div h) % 2 = 0 THEN data[x] + data[x + h] ELSE data[x - h] - data[x]]

\* The blocks are taken a vector at a time, ...
FwhtVectorStage(data, n, hbs) ==
  Butterfly(data, hbs, {2 * hbs * blk + half + NF * j + x : blk \in 0..(n \div (2 * hbs) - 1),
                          half \in {0, hbs}, j \in 0..(hbs \div NF - 1), x \in 0..(NF - 1)})
\* ... or the two halves are narrower vectors.
FwhtInVectorStage(data, n, Nh) == Butterfly(data, Nh, 0..(2 * Nh * (n \div (2 * Nh)) - 1))

\* Mutant: the stage of two floats needs a vector of four.
FwhtInPlace_NoLast(data, n) ==
  LET wide == SetToSortSeq({h \in NF..(n \div 2) : n % h = 0}, >)
      vector == FoldLeft(LAMBDA d, h : FwhtVectorStage(d, n, h), data, wide)
      narrow == SelectSeq(<<8, 4, 2>>, LAMBDA h : NF >= 2 * h /\ 2 * h <= n)
  IN  IF n < 2 THEN data ELSE FoldLeft(LAMBDA d, h : FwhtInVectorStage(d, n, h), vector, narrow)

FwhtInPlace(data, n) ==
  LET wide == SetToSortSeq({h \in NF..(n \div 2) : n % h = 0}, >)
      vector == FoldLeft(LAMBDA d, h : FwhtVectorStage(d, n, h), data, wide)
      narrow == SelectSeq(<<8, 4, 2, 1>>, LAMBDA h : NF >= 2 * h /\ 2 * h <= n)
  IN  IF n < 2 THEN data ELSE FoldLeft(LAMBDA d, h : FwhtInVectorStage(d, n, h), vector, narrow)

\* Each subspace is transformed, then they are mixed by the matrix.
Rotate(x) ==
  LET sub == [s \in 0..(num_subspaces - 1) |->
                FwhtInPlace([r \in 0..(subspace_dim - 1) |-> x[s * subspace_dim + r]],
                            subspace_dim)]
      R == rotation_matrix[num_subspaces]
  IN  [d \in Coord |-> SumUp([s \in 0..(num_subspaces - 1) |->
         sub[s][d % subspace_dim] * R[s, d \div subspace_dim]], 0..(num_subspaces - 1))]

FlipSigns(x) == [d \in Coord |-> x[d] * src.signs[d + 1]]

-----------------------------------------------------------------------------
(* The codes. *)

\* To the nearest integer; a half goes to the even one in a vector (NearestInt),
\* away from 0 in the rest (std::round).
HalfEven(a, b) ==
  LET q == a \div b
      r == a % b
  IN  IF 2 * r < b \/ (2 * r = b /\ q % 2 = 0) THEN q ELSE q + 1
HalfAway(a, b) == IF a < 0 THEN -((2 * (-a) + b) \div (2 * b)) ELSE (2 * a + b) \div (2 * b)
Clamp(v) == IF v > 127 THEN 127 ELSE IF v < -127 THEN -127 ELSE v

EightBitEncode(x) ==
  LET max_abs == Max({Abs(x[d]) : d \in Coord})
      whole == NF * (dims \div NF)
  IN  [d \in Coord |-> IF max_abs = 0 THEN 0
                       ELSE IF d < whole THEN Clamp(HalfEven(127 * x[d], max_abs))
                       ELSE Clamp(HalfAway(127 * x[d], max_abs))]

OneBitEncode(x) == {d \in Coord : x[d] < 0}

Squares(f) == SumUp([d \in Coord |-> f[d] * f[d]], Coord)
quantized_sqr_norm(bits, code) == IF bits = 8 THEN Squares(code) ELSE dims * 16129

ComputeByteSum8Bit(code) == SumUp(code, Coord)
ComputeByteSum1Bit(code) == 127 * (dims - 2 * Cardinality(code))
ComputeByteSum(bits, code) ==
  IF bits = 8 THEN ComputeByteSum8Bit(code) ELSE ComputeByteSum1Bit(code)

\* EncodeDatapoint: a code and a scale, or none.  Whether a vector of infinite
\* norm is refused is left to the build: under -ffast-math the compiler may take
\* isfinite for true, and all its coordinates are multiplied by 0.
Nothing(bits) == IF bits = 8 THEN [d \in Coord |-> 0] ELSE {}
Garbage == <<1, 0>>
EncodeDatapoint(bits, x, y) ==
  LET code == IF bits = 8 THEN EightBitEncode(y) ELSE OneBitEncode(y)
  IN  IF \E d \in Coord : Abs(x[d]) >= Huge
      THEN {[ok |-> FALSE], [ok |-> TRUE, code |-> Nothing(bits), scale |-> Garbage]}
      ELSE IF Squares(x) = 0
      THEN {[ok |-> TRUE, code |-> Nothing(bits), scale |-> <<0, 1>>]}
      ELSE {[ok |-> TRUE, code |-> code,
             scale |-> <<Squares(x), quantized_sqr_norm(bits, code)>>]}

-----------------------------------------------------------------------------
Unset == <<>>
Nobody == -1

\* RsqBasePoints: no code is set, the norm data is 0.
Init ==
  /\ src \in Sources
  /\ base = 0 /\ todo = {}
  /\ at = [t \in Encoder |-> Nobody] /\ rotated = [i \in {} |-> 0]
  /\ tl_decode = [t \in Encoder |-> [d \in {} |-> 0]]
  /\ tl_code1 = [t \in Encoder |-> {}]
  /\ codes = [b \in {1, 8} |-> [i \in 0..(num_points - 1) |-> Unset]]
  /\ scales = [b \in {1, 8} |-> [i \in 0..(num_points - 1) |-> <<0, 1>>]]
  /\ byte_sums = [b \in {1, 8} |-> [i \in 0..(num_points - 1) |-> 0]]
  /\ pc = "chunk"

\* UpdatePoint.  Its status is ignored by those who call it.
UpdatePoint(bits, i, update) ==
  IF update.ok
  THEN /\ codes' = [codes EXCEPT ![bits][i] = update.code]
       /\ scales' = [scales EXCEPT ![bits][i] = update.scale]
       /\ byte_sums' = [byte_sums EXCEPT ![bits][i] = ComputeByteSum(bits, update.code)]
  ELSE UNCHANGED <<codes, scales, byte_sums>>

\* The loop over the chunks; init_rsq has all points in one.
Chunk ==
  /\ pc = "chunk" /\ base < num_points
  /\ LET hi == IF src.how = "memory" \/ base + CHUNK_POINTS > num_points
               THEN num_points ELSE base + CHUNK_POINTS
     IN  todo' = base..(hi - 1) /\ base' = hi
  /\ pc' = "encode"
  /\ UNCHANGED <<src, at, tl_decode, rotated, tl_code1, codes, scales, byte_sums>>

\* The row of a point: in memory, in the file, or decoded eight halves at a
\* time and the rest from a copy that is filled up with zeros.
Row(i) == [d \in Coord |-> src.rows[i + 1][d + 1]]
DecodedRow(old, i) ==
  LET whole == 8 * (dims \div 8)
      tmp == [x \in 0..7 |-> IF whole + x < dims THEN Row(i)[whole + x] ELSE 0]
  IN  [d \in Coord \cup DOMAIN old |->
         IF d < whole THEN Row(i)[d] ELSE IF d < dims THEN tmp[d - whole] ELSE old[d]]

Coordinates(t, i) == IF src.how = "f16" THEN Restrict(tl_decode[t], Coord) ELSE Row(i)

Take(t) ==
  /\ pc = "encode" /\ at[t] = Nobody
  /\ \E i \in todo :
       /\ todo' = todo \ {i}
       /\ at' = [at EXCEPT ![t] = i]
       /\ tl_decode' = IF src.how = "f16"
                       THEN [tl_decode EXCEPT ![t] = DecodedRow(@, i)] ELSE tl_decode
  /\ UNCHANGED <<src, base, rotated, tl_code1, codes, scales, byte_sums, pc>>

FlipRandomSignsNormalizeAndRotate(t) ==
  /\ at[t] # Nobody /\ at[t] \notin DOMAIN rotated
  /\ rotated' = (at[t] :> Rotate(FlipSigns(Coordinates(t, at[t])))) @@ rotated
  /\ UNCHANGED <<src, base, todo, at, tl_decode, tl_code1, codes, scales, byte_sums, pc>>

Encode(t) ==
  /\ at[t] \in DOMAIN rotated
  /\ \E update \in EncodeDatapoint(src.rsq_bits, Coordinates(t, at[t]), rotated[at[t]]) :
       UpdatePoint(src.rsq_bits, at[t], update)
  /\ at' = [at EXCEPT ![t] = Nobody]
  /\ UNCHANGED <<src, base, todo, tl_decode, rotated, tl_code1, pc>>

\* When all points have their 8-bit codes, those of one bit are made of them.
ChunkDone ==
  /\ pc = "encode" /\ todo = {} /\ \A t \in Encoder : at[t] = Nobody
  /\ pc' = IF base < num_points THEN "chunk"
           ELSE IF src.rsq_bits = 8 THEN "derive" ELSE "done"
  /\ todo' = IF pc' = "derive" THEN 0..(num_points - 1) ELSE {}
  /\ UNCHANGED <<src, base, at, tl_decode, rotated, tl_code1, codes, scales, byte_sums>>

\* Mutant: the buffer is not cleared.
SignsInto_Stale(code1, c8) == code1 \cup {d \in Coord : c8[d] < 0}
SignsInto(code1, c8) == {d \in Coord : c8[d] < 0}

\* derive_rsq1_from_rsq8: the bit of a coordinate whose 8-bit code is negative,
\* and the norm of the 8-bit code for the scale.  A code that was never set is
\* whatever the allocation held.
Derive(t) ==
  /\ pc = "derive"
  /\ \E i \in todo, garbage \in {Nothing(8), [d \in Coord |-> -1]} :
       LET c8 == IF codes[8][i] = Unset THEN garbage ELSE codes[8][i]
           s == scales[8][i]
       IN  /\ codes[8][i] # Unset => garbage = Nothing(8)
           /\ todo' = todo \ {i}
           /\ tl_code1' = [tl_code1 EXCEPT ![t] = SignsInto(@, c8)]
           /\ UpdatePoint(1, i, [ok |-> TRUE, code |-> tl_code1'[t],
                scale |-> IF s[2] = 0 THEN Garbage
                          ELSE << (s[1] * Squares(c8)) \div s[2], dims * 16129 >>])
  /\ UNCHANGED <<src, base, at, tl_decode, rotated, pc>>

Derived ==
  /\ pc = "derive" /\ todo = {}
  /\ pc' = "done"
  /\ UNCHANGED <<src, base, todo, at, tl_decode, rotated, tl_code1, codes, scales, byte_sums>>

Finished == pc = "done" /\ UNCHANGED vars

Next == \/ Chunk \/ ChunkDone \/ Derived \/ Finished
        \/ \E t \in Encoder : Take(t) \/ FlipRandomSignsNormalizeAndRotate(t) \/ Encode(t) \/ Derive(t)

Spec == Init /\ [][Next]_vars
-----------------------------------------------------------------------------
Dot(x, y) == SumUp([d \in Coord |-> x[d] * y[d]], Coord)

\* Dot products of codes stand for those of the points only if the rotation
\* keeps them, up to one factor, in every dimension: with all stages of the
\* transform in their place, whatever the width of a vector.
RotationKeepsDots ==
  pc = "done" =>
    \A i, j \in DOMAIN rotated :
      LET R == rotation_matrix[num_subspaces]
          stretch == SumUp([s \in 0..(num_subspaces - 1) |-> R[0, s] * R[0, s]],
                           0..(num_subspaces - 1))
      IN  Dot(rotated[i], rotated[j]) = subspace_dim * stretch * Dot(Row(i), Row(j))

\* Whichever worker encodes a point, from whichever kind of source and with
\* whatever its buffers held before: each 8-bit coordinate is within half a
\* step of the rotated one, each bit is the sign of the rotated one, save where
\* the 8-bit code that it was derived of is 0, the scale gives the code the
\* point's own length, and the sum is that of the code.  Only points of
\* infinite norm are let off.
CodesStandForPoints ==
  pc = "done" =>
    \A i \in {p \in 0..(num_points - 1) : \A d \in Coord : Abs(Row(p)[d]) < Huge} :
      LET y == rotated[i]
          c8 == codes[8][i]
          c1 == codes[1][i]
          most == Max({Abs(y[d]) : d \in Coord})
          Lengths(b, sqr) == scales[b][i][1] * sqr = scales[b][i][2] * Squares(Row(i))
      IN  /\ src.rsq_bits = 8 =>
               /\ \A d \in Coord : 2 * Abs(c8[d] * most - 127 * y[d]) <= most
               /\ Lengths(8, Squares(c8))
               /\ byte_sums[8][i] = SumUp(c8, Coord)
          /\ \A d \in Coord : /\ d \in c1 => y[d] < 0
                              /\ y[d] < 0 => d \in c1 \/ (src.rsq_bits = 8 /\ c8[d] = 0)
          /\ Lengths(1, dims * 16129)
          /\ byte_sums[1][i] = SumUp([d \in Coord |-> IF d \in c1 THEN -127 ELSE 127], Coord)
=============================================================================
