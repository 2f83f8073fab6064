----------------------------- MODULE RsqKernels -----------------------------
(***************************************************************************)
(* The micro-kernels behind every score                                    *)
(* (engine/algorithms/PipNN/quantization/pipnn_rsq-inl.h) and the panels   *)
(* they read, built for leaders by PreTransposedRsqDataset::Build          *)
(* (pipnn_rsq.cc) and for leaves by ProcessLeafInit (processleaf_rsq.cc).  *)
(* A panel is a table of four-byte words, a row for each tile of four      *)
(* bytes and a lane for each of kLanes points.  8-bit codes are biased by *)
(* 128 to be multiplied as unsigned bytes; 1-bit codes are compared bit by *)
(* bit and the counts summed in bytes.  Addresses and points count from 0; *)
(* a load outside the memory it reads is an error of evaluation.           *)
(***************************************************************************)
EXTENDS Integers, Sequences, FiniteSets, FiniteSetsExt, Functions

CONSTANTS
  N,       \* bytes of a vector, a multiple of 16
  Codes    \* [bits: {1, 8}, dims, stride, raw: address -> byte, how, points, queries]

VARIABLES
  code,    \* the codes, the points to be scored and the queries
  panels,  \* panel_data: [panel -> [tile, lane -> word]]
  decoded, \* the queries: all_q_decoded and byte sums, or qbuf
  p,       \* next panel
  dots,    \* dots[q][panel][lane], as acc_to_dot leaves them
  pc

vars == <<code, panels, decoded, p, dots, pc>>

kLanes == N \div 4     \* kPoints: 32-bit lanes of a vector, a point each
Lane == 0..(kLanes - 1)
DivCeil(a, b) == (a + b - 1) \div b
SumOf(f, S) == FoldFunctionOnSet(LAMBDA a, b : a + b, 0, f, S)

num_points == Cardinality(DOMAIN code.points)
num_panels == DivCeil(num_points, kLanes)
bytes_per_point == IF code.bits = 8 THEN code.dims ELSE (code.dims + 7) \div 8
num_dim_chunks == DivCeil(bytes_per_point, N)
num_hamming_tiles == DivCeil(bytes_per_point, 4)
total_tiles == IF code.bits = 8 THEN num_dim_chunks * kLanes ELSE num_hamming_tiles

Signed(b) == IF b > 127 THEN b - 256 ELSE b
Bit(b, i) == (b \div 2^i) % 2
PopulationCountXor(a, b) == Cardinality({i \in 0..7 : Bit(a, i) # Bit(b, i)})
ZeroWord == [j \in 0..3 |-> 0]

\* The vector at an address, biased: hn::Xor(hn::LoadU(...), bias).
Biased(db, a) == [w \in Lane |-> [j \in 0..3 |-> (db[a + 4 * w + j] + 128) % 256]]

\* Highway's interleaving, of words and of pairs of words, within each block of
\* four words.
InBlock(w) == w % 4
InterleaveLower(a, b) ==
  [w \in Lane |-> (IF w % 2 = 0 THEN a ELSE b)[w - InBlock(w) + InBlock(w) \div 2]]
InterleaveUpper(a, b) ==
  [w \in Lane |-> (IF w % 2 = 0 THEN a ELSE b)[w - InBlock(w) + 2 + InBlock(w) \div 2]]
InterleaveLower64(a, b) ==
  [w \in Lane |-> IF InBlock(w) < 2 THEN a[w] ELSE b[w - 2]]
InterleaveUpper64(a, b) ==
  [w \in Lane |-> IF InBlock(w) < 2 THEN a[w + 2] ELSE b[w]]

\* Panel pn of the points at the addresses `at': four points at a time are
\* transposed block by block, those left over are stored word by word, and
\* lanes without a point are 0.
DecodeDbPanel8Bit(db, at, pn) ==
  LET first == pn * kLanes
      kP == IF num_points - first < kLanes THEN num_points - first ELSE kLanes
      t(x, c) ==
        LET v == [i \in 0..3 |-> Biased(db, at[first + x + i] + c * N)]
            ab_lo == InterleaveLower(v[0], v[1])
            ab_hi == InterleaveUpper(v[0], v[1])
            cd_lo == InterleaveLower(v[2], v[3])
            cd_hi == InterleaveUpper(v[2], v[3])
        IN  << InterleaveLower64(ab_lo, cd_lo), InterleaveUpper64(ab_lo, cd_lo),
               InterleaveLower64(ab_hi, cd_hi), InterleaveUpper64(ab_hi, cd_hi) >>
      groups == [x \in {4 * i : i \in 0..(kP \div 4 - 1)}, c \in 0..(num_dim_chunks - 1) |->
                   t(x, c)]
  IN  [r \in 0..(total_tiles - 1), x \in Lane |->
         LET c == r \div kLanes
             g == r % kLanes
         IN  IF x < 4 * (kP \div 4) THEN groups[x - (x % 4), c][(g % 4) + 1][g - (g % 4) + (x % 4)]
             ELSE IF x < kP THEN Biased(db, at[first + x] + c * N)[g]
             ELSE ZeroWord]

\* The four bytes of a tile, those past the code's end 0.
TileWord(db, a, r) ==
  [j \in 0..3 |-> IF 4 * r + j < bytes_per_point THEN db[a + 4 * r + j] ELSE 0]

BuildHammingPanel1Bit(db, at, pn) ==
  [r \in 0..(total_tiles - 1), x \in Lane |->
     IF pn * kLanes + x < num_points THEN TileWord(db, at[pn * kLanes + x], r) ELSE ZeroWord]

BuildPanel(db, at, pn) ==
  IF code.bits = 8 THEN DecodeDbPanel8Bit(db, at, pn) ELSE BuildHammingPanel1Bit(db, at, pn)

\* A query's bytes, 0 past its end, and their sum.
DecodeQueries8Bit(a) ==
  LET out == [d \in 0..(num_dim_chunks * N - 1) |->
                IF d < bytes_per_point THEN Signed(code.raw[a + d]) ELSE 0]
      whole == (bytes_per_point \div N) * N
      sum == SumOf(out, 0..(whole - 1)) + SumOf(out, whole..(bytes_per_point - 1))
  IN  [bytes |-> out, sum |-> sum]

PreBroadcastHammingQueries(a) ==
  [bytes |-> [r \in 0..(num_hamming_tiles - 1) |-> TileWord(code.raw, a, r)], sum |-> 0]

\* acc of every lane: unsigned panel bytes times signed query bytes.
MicroKernelAccumulate1(panel, q) ==
  [x \in Lane |->
     SumOf([t \in 0..(total_tiles - 1), j \in 0..3 |-> panel[t, x][j] * q[4 * t + j]],
           (0..(total_tiles - 1)) \X (0..3))]
MicroKernelAccumulate(b, q) == [i \in 0..1 |-> MicroKernelAccumulate1(b[i], q)]
MicroKernelAccumulate4(b, q) == [i \in 0..3 |-> MicroKernelAccumulate1(b[i], q)]

\* Mutant: two tiles more.
kMaxSafeAccumTiles_33 == 33

kMaxSafeAccumTiles == 31

\* Bit counts, summed modulo 256 in the bytes of a lane over at most
\* kMaxSafeAccumTiles tiles, then added to its total.
HammingAccumLoop(panel, qbuf) ==
  LET rounds == 0..(DivCeil(num_hamming_tiles, kMaxSafeAccumTiles) - 1)
      tiles(u) == {t \in 0..(num_hamming_tiles - 1) : t \div kMaxSafeAccumTiles = u}
      sum(u, x, j) ==
        SumOf([t \in tiles(u) |-> PopulationCountXor(panel[t, x][j], qbuf[t][j])], tiles(u)) % 256
  IN  [x \in Lane |-> SumOf([u \in rounds, j \in 0..3 |-> sum(u, x, j)], rounds \X (0..3))]
HammingMicroKernelAccumulate1(panel, qbuf) == HammingAccumLoop(panel, qbuf)
HammingMicroKernelAccumulate(b, qbuf) == [i \in 0..1 |-> HammingAccumLoop(b[i], qbuf)]
HammingMicroKernelAccumulate4(b, qbuf) == [i \in 0..3 |-> HammingAccumLoop(b[i], qbuf)]

acc_to_dot(a, q) == IF code.bits = 8 THEN a - 128 * q.sum
                                     ELSE 16129 * code.dims - 2 * 16129 * a

-----------------------------------------------------------------------------
Init ==
  /\ code \in Codes
  /\ panels = <<>> /\ decoded = <<>> /\ p = 0
  /\ dots = [q \in DOMAIN code.queries |-> <<>>]
  /\ pc = "build"

Built ==
  /\ pc = "build"
  /\ pc' = "decode"
  /\ UNCHANGED <<code, decoded, p, dots>>

\* The points' codes are copied next to each other, with N zero bytes behind.
BuildPreTransposed ==
  /\ code.how = "leaders"
  /\ Built
  /\ LET n == num_points
         gathered == [a \in 0..(n * code.stride + N - 1) |->
                        IF a < n * code.stride
                        THEN code.raw[code.points[a \div code.stride] * code.stride
                                      + (a % code.stride)]
                        ELSE 0]
     IN  panels' = [pn \in 0..(num_panels - 1) |->
                      BuildPanel(gathered, [i \in 0..(n - 1) |-> i * code.stride], pn)]

\* A leaf's panels are read out of the codes where they are.
ProcessLeafInit ==
  /\ code.how = "leaf"
  /\ Built
  /\ panels' = [pn \in 0..(num_panels - 1) |->
       BuildPanel(code.raw, [i \in DOMAIN code.points |-> code.points[i] * code.stride], pn)]

DecodeQueries ==
  /\ pc = "decode"
  /\ decoded' = [q \in DOMAIN code.queries |->
       IF code.bits = 8 THEN DecodeQueries8Bit(code.queries[q] * code.stride)
                        ELSE PreBroadcastHammingQueries(code.queries[q] * code.stride)]
  /\ pc' = "score"
  /\ UNCHANGED <<code, panels, p, dots>>

\* w panels at a time, while there are so many.
Score(w, acc) ==
  /\ pc = "score"
  /\ p + w <= num_panels /\ (w = 4 \/ p + 2 * w > num_panels)
  /\ dots' = [q \in DOMAIN dots |-> dots[q] \o
                [i \in 1..w |-> [x \in Lane |-> acc_to_dot(acc[q][i - 1][x], decoded[q])]]]
  /\ p' = p + w
  /\ UNCHANGED <<code, panels, decoded, pc>>

Score4 == Score(4, [q \in DOMAIN decoded |->
  LET b == [i \in 0..3 |-> panels[p + i]]
  IN  IF code.bits = 8 THEN MicroKernelAccumulate4(b, decoded[q].bytes)
                       ELSE HammingMicroKernelAccumulate4(b, decoded[q].bytes)])
Score2 == Score(2, [q \in DOMAIN decoded |->
  LET b == [i \in 0..1 |-> panels[p + i]]
  IN  IF code.bits = 8 THEN MicroKernelAccumulate(b, decoded[q].bytes)
                       ELSE HammingMicroKernelAccumulate(b, decoded[q].bytes)])
Score1 == Score(1, [q \in DOMAIN decoded |->
  IF code.bits = 8 THEN [i \in 0..0 |-> MicroKernelAccumulate1(panels[p], decoded[q].bytes)]
                   ELSE [i \in 0..0 |-> HammingMicroKernelAccumulate1(panels[p], decoded[q].bytes)]])

Scored == pc = "score" /\ p = num_panels /\ pc' = "done"
          /\ UNCHANGED <<code, panels, decoded, p, dots>>

Finished == pc = "done" /\ UNCHANGED vars

Next == \/ BuildPreTransposed \/ ProcessLeafInit \/ DecodeQueries
        \/ Score4 \/ Score2 \/ Score1 \/ Scored \/ Finished

Spec == Init /\ [][Next]_vars
-----------------------------------------------------------------------------
\* The dot product of two stored codes: of their signed bytes, or 127 squared
\* for every dimension whose bits agree, less as much for every other.
Byte(i, d) == code.raw[i * code.stride + d]
DotOf(i, j) ==
  IF code.bits = 8
  THEN SumOf([d \in 0..(code.dims - 1) |-> Signed(Byte(i, d)) * Signed(Byte(j, d))],
             0..(code.dims - 1))
  ELSE 16129 * (code.dims
                - 2 * Cardinality({d \in 0..(code.dims - 1) :
                                     Bit(Byte(i, d \div 8), d % 8) # Bit(Byte(j, d \div 8), d % 8)}))

\* Transposed, biased, padded, corrected for the bias and summed in narrow
\* counters, the kernels give every query and point the dot product of their
\* codes, whatever lies behind a code in memory and in whichever width the
\* panels are taken.
KernelDots ==
  pc = "done" =>
    \A q \in DOMAIN code.queries : \A i \in 0..(num_points - 1) :
      dots[q][i \div kLanes + 1][i % kLanes] = DotOf(code.queries[q], code.points[i])
=============================================================================
