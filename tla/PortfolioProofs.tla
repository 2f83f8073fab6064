-------------------------- MODULE PortfolioProofs --------------------------
(***************************************************************************)
(* The theorems about one run of the program.  First what the command line *)
(* of a query reads for each flag, said of the records it was written from *)
(* (the line's text, else the command line's, else none); then the         *)
(* invariants of the run that the results' contents follow from.           *)
(***************************************************************************)
EXTENDS Portfolio, SequenceTheorems, TLAPS

-----------------------------------------------------------------------------
(* Reading a sequence of tokens.                                            *)

\* The tokens a query's argument vector may have after the program's name.
Texts ==
  (UNION {{s.mst_deg, s.leaf_k, s.k_build, s.nnd, s.name} : s \in Settings \cup Bases})
    \cup (UNION {{b.bits, b.output} : b \in Bases})
Token == Texts \cup Flags

\* The tokens in current spelling.
Mapped(q) == [i \in DOMAIN q |-> canonical_flag(q[i])]

\* The first of two texts that is there.
Or(v, w) == IF v # Absent THEN v ELSE w

\* q's first text for an option, Absent when the option is not in q at all.
Reads(q, opt, v) ==
  IF v = Absent THEN \A i \in 1..Len(q) : q[i] # opt
  ELSE \E i \in 1..(Len(q) - 1) :
         /\ q[i] = opt /\ q[i + 1] = v
         /\ \A j \in 1..(i - 1) : q[j] # opt

Says(q, opt, v) == Reads(Mapped(q), opt, v)
Has(q, flag) == \E i \in 1..Len(q) : q[i] = flag
Sets(q, flag) == Has(Mapped(q), flag)

LEMMA Canonical ==
  ASSUME NEW t
  PROVE  /\ t = "-turboquant" => canonical_flag(t) = "-rsq"
         /\ t = "-tq_bits" => canonical_flag(t) = "-rsq_bits"
         /\ t = "-build_tq1_panel" => canonical_flag(t) = "-build_rsq1_panel"
         /\ t \notin {"-turboquant", "-tq_bits", "-build_tq1_panel"} => canonical_flag(t) = t
<1>1. DOMAIN kAliases = {"-turboquant", "-tq_bits", "-build_tq1_panel"}
  BY DEF kAliases
<1>2. kAliases["-turboquant"] = "-rsq"
  BY DEF kAliases
<1>3. kAliases["-tq_bits"] = "-rsq_bits"
  BY DEF kAliases
<1>4. kAliases["-build_tq1_panel"] = "-build_rsq1_panel"
  BY DEF kAliases
<1> QED BY <1>1, <1>2, <1>3, <1>4 DEF canonical_flag

LEMMA CanonicalText == \A t \in Token : canonical_flag(t) \in Token
<1> SUFFICES ASSUME NEW t \in Token PROVE canonical_flag(t) \in Token
  OBVIOUS
<1>1. "-rsq" \in Token /\ "-rsq_bits" \in Token /\ "-build_rsq1_panel" \in Token
  BY DEF Token, Flags, PanelFlags
<1> QED BY <1>1, Canonical

LEMMA CanonicalTwice == \A t \in Token : canonical_flag(canonical_flag(t)) = canonical_flag(t)
<1> SUFFICES ASSUME NEW t \in Token
             PROVE  canonical_flag(canonical_flag(t)) = canonical_flag(t)
  OBVIOUS
<1>1. canonical_flag("-rsq") = "-rsq" /\ canonical_flag("-rsq_bits") = "-rsq_bits"
  BY Canonical
<1>2. canonical_flag("-build_rsq1_panel") = "-build_rsq1_panel"
  BY Canonical
<1> QED BY <1>1, <1>2, Canonical

LEMMA MappedIsSeq ==
  ASSUME NEW q \in Seq(Token)
  PROVE  /\ Mapped(q) \in Seq(Token) /\ Len(Mapped(q)) = Len(q)
         /\ DOMAIN Mapped(q) = 1..Len(q)
         /\ \A i \in 1..Len(q) : Mapped(q)[i] = canonical_flag(q[i])
<1>1. DOMAIN q = 1..Len(q) /\ Len(q) \in Nat /\ \A i \in 1..Len(q) : q[i] \in Token
  OBVIOUS
<1>2. Mapped(q) = [i \in 1..Len(q) |-> canonical_flag(q[i])]
  BY <1>1 DEF Mapped
<1>3. \A i \in 1..Len(q) : canonical_flag(q[i]) \in Token
  BY <1>1, CanonicalText
<1>4. Mapped(q) \in [1..Len(q) -> Token]
  BY <1>2, <1>3
<1> QED BY <1>1, <1>2, <1>4

LEMMA MappedConcat ==
  ASSUME NEW p \in Seq(Token), NEW q \in Seq(Token)
  PROVE  Mapped(p \o q) = Mapped(p) \o Mapped(q)
<1>1. PICK r \in Seq(Token) : r = p \o q
  BY ConcatProperties
<1>2. /\ Len(r) = Len(p) + Len(q)
      /\ \A i \in 1..Len(r) : r[i] = IF i <= Len(p) THEN p[i] ELSE q[i - Len(p)]
  BY <1>1, ConcatProperties
<1>3. PICK u \in Seq(Token) : u = Mapped(p) \o Mapped(q)
  BY ConcatProperties, MappedIsSeq
<1>4. /\ Len(u) = Len(p) + Len(q)
      /\ \A i \in 1..Len(u) : u[i] = IF i <= Len(p) THEN Mapped(p)[i] ELSE Mapped(q)[i - Len(p)]
  <2>1. PICK x \in Seq(Token), y \in Seq(Token) : x = Mapped(p) /\ y = Mapped(q)
    BY MappedIsSeq
  <2>2. Len(x) = Len(p) /\ Len(y) = Len(q)
    BY <2>1, MappedIsSeq
  <2>3. /\ Len(u) = Len(x) + Len(y)
        /\ \A i \in 1..(Len(x) + Len(y)) : u[i] = IF i <= Len(x) THEN x[i] ELSE y[i - Len(x)]
    BY <1>3, <2>1, ConcatProperties
  <2> QED BY <2>1, <2>2, <2>3
<1>5. Mapped(r) \in Seq(Token) /\ Len(Mapped(r)) = Len(u)
  BY <1>2, <1>4, MappedIsSeq
<1>6. ASSUME NEW i \in 1..Len(u) PROVE Mapped(r)[i] = u[i]
  <2>1. Mapped(r)[i] = canonical_flag(r[i])
    BY <1>2, <1>4, MappedIsSeq
  <2>2. CASE i <= Len(p)
    <3>1. i \in 1..Len(p)
      BY <2>2
    <3> QED BY <3>1, <2>1, <2>2, <1>2, <1>4, MappedIsSeq
  <2>3. CASE ~(i <= Len(p))
    <3>1. i - Len(p) \in 1..Len(q)
      BY <2>3, <1>4
    <3>2. Mapped(q)[i - Len(p)] = canonical_flag(q[i - Len(p)])
      BY <3>1, MappedIsSeq
    <3> QED BY <3>2, <2>1, <2>3, <1>2, <1>4
  <2> QED BY <2>2, <2>3
<1> QED BY <1>1, <1>3, <1>5, <1>6, SeqEqual

LEMMA MappedTwice ==
  ASSUME NEW q \in Seq(Token) PROVE Mapped(Mapped(q)) = Mapped(q)
<1>1. Mapped(q) \in Seq(Token) /\ Len(Mapped(q)) = Len(q)
  BY MappedIsSeq
<1>2. Mapped(Mapped(q)) \in Seq(Token) /\ Len(Mapped(Mapped(q))) = Len(q)
  BY <1>1, MappedIsSeq
<1>3. ASSUME NEW i \in 1..Len(q) PROVE Mapped(Mapped(q))[i] = Mapped(q)[i]
  <2>1. Mapped(Mapped(q))[i] = canonical_flag(Mapped(q)[i])
    BY <1>1, MappedIsSeq
  <2>2. Mapped(q)[i] = canonical_flag(q[i]) /\ q[i] \in Token
    BY MappedIsSeq
  <2> QED BY <2>1, <2>2, CanonicalTwice
<1> QED BY <1>1, <1>2, <1>3, SeqEqual

\* The first match of two sequences one after the other.
LEMMA ReadsConcat ==
  ASSUME NEW p \in Seq(Token), NEW q \in Seq(Token), NEW opt, NEW v, NEW w,
         Reads(p, opt, v), Reads(q, opt, w)
  PROVE  Reads(p \o q, opt, Or(v, w))
<1>1. PICK r \in Seq(Token) : r = p \o q
  BY ConcatProperties
<1>2. /\ Len(r) = Len(p) + Len(q) /\ Len(p) \in Nat /\ Len(q) \in Nat
      /\ \A i \in 1..Len(r) : r[i] = IF i <= Len(p) THEN p[i] ELSE q[i - Len(p)]
  BY <1>1, ConcatProperties
<1>3. CASE v # Absent
  <2>1. PICK i \in 1..(Len(p) - 1) :
           /\ p[i] = opt /\ p[i + 1] = v
           /\ \A j \in 1..(i - 1) : p[j] # opt
    BY <1>3 DEF Reads
  <2>2. i \in 1..(Len(r) - 1) /\ r[i] = opt /\ r[i + 1] = v
    BY <1>2, <2>1
  <2>3. \A j \in 1..(i - 1) : r[j] # opt
    BY <1>2, <2>1
  <2> QED BY <1>1, <1>3, <2>2, <2>3 DEF Reads, Or
<1>4. CASE v = Absent /\ w = Absent
  <2>1. \A i \in 1..Len(p) : p[i] # opt
    BY <1>4 DEF Reads
  <2>2. \A i \in 1..Len(q) : q[i] # opt
    BY <1>4 DEF Reads
  <2>3. ASSUME NEW i \in 1..Len(r) PROVE r[i] # opt
    <3>1. CASE i <= Len(p)
      BY <3>1, <2>1, <1>2
    <3>2. CASE ~(i <= Len(p))
      <4>1. i - Len(p) \in 1..Len(q)
        BY <3>2, <1>2
      <4> QED BY <4>1, <3>2, <2>2, <1>2
    <3> QED BY <3>1, <3>2
  <2> QED BY <1>1, <1>4, <2>3 DEF Reads, Or
<1>5. CASE v = Absent /\ w # Absent
  <2>1. \A i \in 1..Len(p) : p[i] # opt
    BY <1>5 DEF Reads
  <2>2. PICK i \in 1..(Len(q) - 1) :
           /\ q[i] = opt /\ q[i + 1] = w
           /\ \A j \in 1..(i - 1) : q[j] # opt
    BY <1>5 DEF Reads
  <2>3. PICK k \in Int : k = Len(p) + i
    BY <1>2
  <2>4. k \in 1..(Len(r) - 1) /\ r[k] = opt /\ r[k + 1] = w
    <3>1. k \in 1..(Len(r) - 1) /\ k + 1 \in 1..Len(r) /\ ~(k <= Len(p)) /\ ~(k + 1 <= Len(p))
      BY <1>2, <2>3
    <3>2. k - Len(p) = i /\ (k + 1) - Len(p) = i + 1
      BY <1>2, <2>3
    <3>3. r[k] = q[k - Len(p)] /\ r[k + 1] = q[(k + 1) - Len(p)]
      BY <3>1, <1>2
    <3> QED BY <3>1, <3>2, <3>3, <2>2
  <2>5. ASSUME NEW j \in 1..(k - 1) PROVE r[j] # opt
    <3>1. CASE j <= Len(p)
      <4>1. j \in 1..Len(p) /\ j \in 1..Len(r)
        BY <3>1, <1>2, <2>4
      <4>2. r[j] = p[j]
        BY <4>1, <3>1, <1>2
      <4> QED BY <4>1, <4>2, <2>1
    <3>2. CASE ~(j <= Len(p))
      <4>1. j - Len(p) \in 1..(i - 1)
        BY <3>2, <1>2, <2>3
      <4>2. r[j] = q[j - Len(p)]
        BY <3>2, <1>2, <2>4
      <4> QED BY <4>1, <4>2, <2>2
    <3> QED BY <3>1, <3>2
  <2> QED BY <1>1, <1>5, <2>4, <2>5 DEF Reads, Or
<1> QED BY <1>3, <1>4, <1>5

LEMMA HasConcat ==
  ASSUME NEW p \in Seq(Token), NEW q \in Seq(Token), NEW f
  PROVE  Has(p \o q, f) <=> Has(p, f) \/ Has(q, f)
<1>1. PICK r \in Seq(Token) : r = p \o q
  BY ConcatProperties
<1>2. /\ Len(r) = Len(p) + Len(q) /\ Len(p) \in Nat /\ Len(q) \in Nat
      /\ \A i \in 1..Len(r) : r[i] = IF i <= Len(p) THEN p[i] ELSE q[i - Len(p)]
  BY <1>1, ConcatProperties
<1>3. ASSUME NEW i \in 1..Len(p), p[i] = f PROVE Has(r, f)
  <2>1. i \in 1..Len(r) /\ r[i] = f
    BY <1>2, <1>3
  <2> QED BY <2>1 DEF Has
<1>4. ASSUME NEW i \in 1..Len(q), q[i] = f PROVE Has(r, f)
  <2>1. Len(p) + i \in 1..Len(r) /\ ~(Len(p) + i <= Len(p)) /\ (Len(p) + i) - Len(p) = i
    BY <1>2
  <2>2. r[Len(p) + i] = q[i]
    BY <2>1, <1>2
  <2> QED BY <2>1, <2>2, <1>4 DEF Has
<1>5. ASSUME NEW i \in 1..Len(r), r[i] = f PROVE Has(p, f) \/ Has(q, f)
  <2>1. CASE i <= Len(p)
    <3>1. i \in 1..Len(p) /\ p[i] = f
      BY <2>1, <1>2, <1>5
    <3> QED BY <3>1 DEF Has
  <2>2. CASE ~(i <= Len(p))
    <3>1. i - Len(p) \in 1..Len(q) /\ q[i - Len(p)] = f
      BY <2>2, <1>2, <1>5
    <3> QED BY <3>1 DEF Has
  <2> QED BY <2>1, <2>2
<1> QED BY <1>1, <1>3, <1>4, <1>5 DEF Has

\* The same of tokens in any spelling.
LEMMA SaysConcat ==
  ASSUME NEW p \in Seq(Token), NEW q \in Seq(Token), NEW opt, NEW v, NEW w,
         Says(p, opt, v), Says(q, opt, w)
  PROVE  p \o q \in Seq(Token) /\ Says(p \o q, opt, Or(v, w))
<1>1. p \o q \in Seq(Token)
  BY ConcatProperties
<1>2. Mapped(p) \in Seq(Token) /\ Mapped(q) \in Seq(Token)
  BY MappedIsSeq
<1>3. Reads(Mapped(p) \o Mapped(q), opt, Or(v, w))
  BY <1>2, ReadsConcat DEF Says
<1> QED BY <1>1, <1>3, MappedConcat DEF Says

LEMMA SetsConcat ==
  ASSUME NEW p \in Seq(Token), NEW q \in Seq(Token), NEW f
  PROVE  p \o q \in Seq(Token) /\ (Sets(p \o q, f) <=> Sets(p, f) \/ Sets(q, f))
<1>1. p \o q \in Seq(Token)
  BY ConcatProperties
<1>2. Mapped(p) \in Seq(Token) /\ Mapped(q) \in Seq(Token)
  BY MappedIsSeq
<1>3. Has(Mapped(p) \o Mapped(q), f) <=> Has(Mapped(p), f) \/ Has(Mapped(q), f)
  BY <1>2, HasConcat
<1>4. Mapped(p \o q) = Mapped(p) \o Mapped(q)
  BY MappedConcat
<1> QED BY <1>1, <1>3, <1>4 DEF Sets

\* What sets nothing leaves the flags before it as they are.
LEMMA SetsAfter ==
  ASSUME NEW p \in Seq(Token), NEW q \in Seq(Token), NEW r, r = p \o q, NEW f, ~Sets(q, f)
  PROVE  Sets(r, f) <=> Sets(p, f)
BY SetsConcat

-----------------------------------------------------------------------------
(* The tokens of a record.                                                  *)

\* A record's text for an option.
Field(s, opt) ==
  IF opt = "-mst_deg" THEN s.mst_deg
  ELSE IF opt = "-leaf_k" THEN s.leaf_k
  ELSE IF opt = "-k_build" THEN s.k_build
  ELSE IF opt = "-nn_descent" THEN s.nnd
  ELSE IF opt = "-cfg_name" THEN s.name ELSE Absent

Switches == HammingStages \cup {"-build_rsq1_panel"}

LEMMA AbsentIsNoFlag == Absent \notin Flags
BY DEF Absent, Flags, HammingStages, PanelFlags, ValueFlags

LEMMA Single ==
  ASSUME NEW T, NEW x \in T
  PROVE  <<x>> \in Seq(T) /\ Len(<<x>>) = 1 /\ <<x>>[1] = x
OBVIOUS

LEMMA Pair ==
  ASSUME NEW x \in Token, NEW y \in Token
  PROVE  /\ <<x, y>> \in Seq(Token) /\ Mapped(<<x, y>>) = <<canonical_flag(x), canonical_flag(y)>>
         /\ <<x>> \in Seq(Token) /\ Mapped(<<x>>) = <<canonical_flag(x)>>
BY DEF Mapped

LEMMA Nothing == <<>> \in Seq(Token) /\ Mapped(<<>>) = <<>>
BY DEF Mapped

LEMMA FlagTokensSay ==
  ASSUME NEW sp \in Flags \cup {Absent}, canonical_flag(sp) \notin ValueFlags
  PROVE  /\ FlagTokens(sp) \in Seq(Token)
         /\ \A opt \in ValueFlags : Says(FlagTokens(sp), opt, Absent)
         /\ \A f \in Switches : Sets(FlagTokens(sp), f) <=> (sp # Absent /\ canonical_flag(sp) = f)
<1>1. CASE sp = Absent
  <2>1. FlagTokens(sp) = <<>>
    BY <1>1 DEF FlagTokens
  <2> QED BY <2>1, <1>1, Nothing DEF Says, Reads, Sets, Has
<1>2. CASE sp # Absent
  <2>1. FlagTokens(sp) = <<sp>> /\ sp \in Token
    BY <1>2 DEF FlagTokens, Token
  <2>2. <<sp>> \in Seq(Token) /\ Mapped(<<sp>>) = <<canonical_flag(sp)>>
    BY <2>1, Pair
  <2>3. PICK q \in Seq(Token) : q = Mapped(<<sp>>)
    BY <2>1, <2>2, MappedIsSeq
  <2>4. Len(q) = 1 /\ q[1] = canonical_flag(sp)
    BY <2>2, <2>3
  <2>5. \A opt \in ValueFlags : Reads(q, opt, Absent)
    BY <2>4 DEF Reads
  <2>6. \A f \in Switches : Has(q, f) <=> canonical_flag(sp) = f
    BY <2>4 DEF Has
  <2> QED BY <1>2, <2>1, <2>2, <2>3, <2>5, <2>6 DEF Says, Sets
<1> QED BY <1>1, <1>2

\* An option and its text, which is no flag.
LEMMA ValueTokensSay ==
  ASSUME NEW o \in Flags, NEW text \in Token \ Flags,
         canonical_flag(o) \notin Switches
  PROVE  /\ ValueTokens(o, text) \in Seq(Token)
         /\ \A opt \in ValueFlags :
              Says(ValueTokens(o, text), opt, IF opt = canonical_flag(o) THEN text ELSE Absent)
         /\ \A f \in Switches : ~Sets(ValueTokens(o, text), f)
<1>1. CASE text = Absent
  <2>1. ValueTokens(o, text) = <<>>
    BY <1>1 DEF ValueTokens
  <2>2. \A opt \in ValueFlags : Says(<<>>, opt, Absent)
    BY Nothing DEF Says, Reads
  <2>3. \A f \in Switches : ~Sets(<<>>, f)
    BY Nothing DEF Sets, Has
  <2> QED BY <2>1, <2>2, <2>3, <1>1, Nothing
<1>2. CASE text # Absent
  <2>1. ValueTokens(o, text) = <<o, text>> /\ o \in Token
    BY <1>2 DEF ValueTokens, Token
  <2>2. canonical_flag(text) = text
    <3>1. text \notin {"-turboquant", "-tq_bits", "-build_tq1_panel"}
      BY DEF Flags, PanelFlags
    <3> QED BY <3>1, Canonical
  <2>3. <<o, text>> \in Seq(Token) /\ Mapped(<<o, text>>) = <<canonical_flag(o), text>>
    BY <2>1, <2>2, Pair
  <2>4. PICK q \in Seq(Token) : q = Mapped(<<o, text>>)
    BY <2>3, MappedIsSeq
  <2>5. Len(q) = 2 /\ q[1] = canonical_flag(o) /\ q[2] = text
    BY <2>3, <2>4
  <2>6. text \notin ValueFlags /\ text \notin Switches
    BY DEF Flags, Switches, PanelFlags
  <2>7. \A opt \in ValueFlags : Reads(q, opt, IF opt = canonical_flag(o) THEN text ELSE Absent)
    <3> SUFFICES ASSUME NEW opt \in ValueFlags
                 PROVE  Reads(q, opt, IF opt = canonical_flag(o) THEN text ELSE Absent)
      OBVIOUS
    <3>1. CASE opt = canonical_flag(o)
      <4>1. Reads(q, opt, text)
        BY <3>1, <1>2, <2>5 DEF Reads
      <4> QED BY <4>1, <3>1
    <3>2. CASE opt # canonical_flag(o)
      <4>1. \A i \in 1..Len(q) : q[i] # opt
        BY <3>2, <2>5, <2>6
      <4> QED BY <4>1, <3>2 DEF Reads
    <3> QED BY <3>1, <3>2
  <2>8. \A f \in Switches : ~Has(q, f)
    BY <2>5, <2>6 DEF Has
  <2> QED BY <2>1, <2>3, <2>4, <2>7, <2>8 DEF Says, Sets
<1> QED BY <1>1, <1>2

\* What InputAssumption says of one record.
Written(s) ==
  /\ s.panel \in PanelFlags \cup {Absent}
  /\ s.hamming \in HammingStages \cup {Absent}
  /\ {s.mst_deg, s.leaf_k, s.k_build, s.nnd, s.name} \subseteq Token \ Flags

LEMMA RecordsAreWritten == \A s \in Settings \cup Bases : Written(s)
<1> SUFFICES ASSUME NEW s \in Settings \cup Bases PROVE Written(s)
  OBVIOUS
<1>1. {s.mst_deg, s.leaf_k, s.k_build, s.nnd, s.name} \subseteq Token
  BY DEF Token, Texts
<1> QED BY <1>1, InputAssumption DEF Written, InputAssumption

LEMMA FlagsOfRecord ==
  ASSUME NEW s, Written(s)
  PROVE  /\ FlagTokens(s.panel) \in Seq(Token) /\ FlagTokens(s.hamming) \in Seq(Token)
         /\ \A opt \in ValueFlags : /\ Says(FlagTokens(s.panel), opt, Absent)
                                    /\ Says(FlagTokens(s.hamming), opt, Absent)
         /\ \A f \in Switches :
              /\ Sets(FlagTokens(s.panel), f) <=> (s.panel # Absent /\ f = "-build_rsq1_panel")
              /\ Sets(FlagTokens(s.hamming), f) <=> s.hamming = f
<1>1. s.panel \in Flags \cup {Absent} /\ s.hamming \in Flags \cup {Absent}
  BY DEF Written, Flags
<1>2. s.panel # Absent => canonical_flag(s.panel) = "-build_rsq1_panel"
  <2>1. s.panel # Absent => s.panel \in {"-build_rsq1_panel", "-build_tq1_panel"}
    BY DEF Written, PanelFlags
  <2> QED BY <2>1, Canonical
<1>3. canonical_flag(s.hamming) = s.hamming
  <2>1. s.hamming \in {"-hamming_leaf", "-hamming_assign", ""}
    BY DEF Written, HammingStages, Absent
  <2> QED BY <2>1, Canonical
<1>4. canonical_flag(Absent) = Absent
  <2>1. Absent \notin {"-turboquant", "-tq_bits", "-build_tq1_panel"}
    BY DEF Absent
  <2> QED BY <2>1, Canonical
<1>5. canonical_flag(s.panel) \notin ValueFlags /\ s.hamming \notin ValueFlags
  BY <1>2, <1>4 DEF Written, ValueFlags, HammingStages, Absent
<1>6. \A f \in Switches : f # Absent
  BY DEF Switches, HammingStages, Absent
<1>7. FlagTokens(s.panel) \in Seq(Token) /\ FlagTokens(s.hamming) \in Seq(Token)
  BY <1>1, <1>3, <1>5, FlagTokensSay
<1>8. \A opt \in ValueFlags : /\ Says(FlagTokens(s.panel), opt, Absent)
                             /\ Says(FlagTokens(s.hamming), opt, Absent)
  BY <1>1, <1>3, <1>5, FlagTokensSay
<1>9. ASSUME NEW f \in Switches
      PROVE  /\ Sets(FlagTokens(s.panel), f) <=> (s.panel # Absent /\ f = "-build_rsq1_panel")
             /\ Sets(FlagTokens(s.hamming), f) <=> s.hamming = f
  <2>1. Sets(FlagTokens(s.panel), f) <=> (s.panel # Absent /\ canonical_flag(s.panel) = f)
    BY <1>1, <1>5, FlagTokensSay
  <2>2. Sets(FlagTokens(s.hamming), f) <=> (s.hamming # Absent /\ canonical_flag(s.hamming) = f)
    BY <1>1, <1>3, <1>5, FlagTokensSay
  <2> QED BY <2>1, <2>2, <1>2, <1>3, <1>6
<1> QED BY <1>7, <1>8, <1>9

LEMMA ValuesOfRecord ==
  ASSUME NEW s, Written(s), NEW o \in ValueFlags
  PROVE  \A text \in {s.mst_deg, s.leaf_k, s.k_build, s.nnd, s.name} :
           /\ ValueTokens(o, text) \in Seq(Token)
           /\ \A opt \in ValueFlags :
                Says(ValueTokens(o, text), opt, IF opt = o THEN text ELSE Absent)
           /\ \A f \in Switches : ~Sets(ValueTokens(o, text), f)
<1>1. o \in Flags /\ canonical_flag(o) = o /\ o \notin Switches
  <2>1. o \notin {"-turboquant", "-tq_bits", "-build_tq1_panel"}
    BY DEF ValueFlags
  <2> QED BY <2>1, Canonical DEF Flags, ValueFlags, Switches, HammingStages
<1> SUFFICES ASSUME NEW text \in {s.mst_deg, s.leaf_k, s.k_build, s.nnd, s.name}
             PROVE  /\ ValueTokens(o, text) \in Seq(Token)
                    /\ \A opt \in ValueFlags :
                         Says(ValueTokens(o, text), opt, IF opt = o THEN text ELSE Absent)
                    /\ \A f \in Switches : ~Sets(ValueTokens(o, text), f)
  OBVIOUS
<1>2. text \in Token \ Flags
  BY DEF Written
<1> QED BY <1>1, <1>2, ValueTokensSay

LEMMA TokensSay ==
  ASSUME NEW s, Written(s)
  PROVE  /\ Tokens(s) \in Seq(Token)
         /\ \A opt \in ValueFlags : Says(Tokens(s), opt, Field(s, opt))
         /\ \A f \in HammingStages : Sets(Tokens(s), f) <=> s.hamming = f
         /\ Sets(Tokens(s), "-build_rsq1_panel") <=> s.panel # Absent
<1>1. PICK p1 \in Seq(Token), p2 \in Seq(Token) :
         p1 = FlagTokens(s.panel) /\ p2 = FlagTokens(s.hamming)
  BY FlagsOfRecord
<1>2. /\ "-mst_deg" \in ValueFlags /\ "-leaf_k" \in ValueFlags /\ "-k_build" \in ValueFlags
      /\ "-nn_descent" \in ValueFlags /\ "-cfg_name" \in ValueFlags
  BY DEF ValueFlags
<1>3. PICK p3 \in Seq(Token) : p3 = ValueTokens("-mst_deg", s.mst_deg)
  BY <1>2, ValuesOfRecord
<1>4. PICK p4 \in Seq(Token) : p4 = ValueTokens("-leaf_k", s.leaf_k)
  BY <1>2, ValuesOfRecord
<1>5. PICK p5 \in Seq(Token) : p5 = ValueTokens("-k_build", s.k_build)
  BY <1>2, ValuesOfRecord
<1>6. PICK p6 \in Seq(Token) : p6 = ValueTokens("-nn_descent", s.nnd)
  BY <1>2, ValuesOfRecord
<1>7. PICK p7 \in Seq(Token) : p7 = ValueTokens("-cfg_name", s.name)
  BY <1>2, ValuesOfRecord
<1>8. PICK q2 \in Seq(Token), q3 \in Seq(Token), q4 \in Seq(Token), q5 \in Seq(Token),
           q6 \in Seq(Token), q7 \in Seq(Token) :
         /\ q2 = p1 \o p2 /\ q3 = q2 \o p3 /\ q4 = q3 \o p4 /\ q5 = q4 \o p5
         /\ q6 = q5 \o p6 /\ q7 = q6 \o p7
  <2>1. PICK q2 \in Seq(Token) : q2 = p1 \o p2
    BY ConcatProperties
  <2>2. PICK q3 \in Seq(Token) : q3 = q2 \o p3
    BY ConcatProperties
  <2>3. PICK q4 \in Seq(Token) : q4 = q3 \o p4
    BY ConcatProperties
  <2>4. PICK q5 \in Seq(Token) : q5 = q4 \o p5
    BY ConcatProperties
  <2>5. PICK q6 \in Seq(Token) : q6 = q5 \o p6
    BY ConcatProperties
  <2>6. PICK q7 \in Seq(Token) : q7 = q6 \o p7
    BY ConcatProperties
  <2> QED BY <2>1, <2>2, <2>3, <2>4, <2>5, <2>6
<1>9. Tokens(s) = q7
  BY <1>1, <1>3, <1>4, <1>5, <1>6, <1>7, <1>8 DEF Tokens
<1>10. ASSUME NEW opt \in ValueFlags PROVE Says(q7, opt, Field(s, opt))
  <2>1. Says(p1, opt, Absent) /\ Says(p2, opt, Absent)
    BY <1>1, FlagsOfRecord
  <2>2. PICK v3, v4, v5, v6, v7 :
          /\ v3 = IF opt = "-mst_deg" THEN s.mst_deg ELSE Absent
          /\ v4 = IF opt = "-leaf_k" THEN s.leaf_k ELSE Absent
          /\ v5 = IF opt = "-k_build" THEN s.k_build ELSE Absent
          /\ v6 = IF opt = "-nn_descent" THEN s.nnd ELSE Absent
          /\ v7 = IF opt = "-cfg_name" THEN s.name ELSE Absent
    OBVIOUS
  <2>3. Says(p3, opt, v3)
    BY <1>2, <1>3, <2>2, ValuesOfRecord
  <2>4. Says(p4, opt, v4)
    BY <1>2, <1>4, <2>2, ValuesOfRecord
  <2>5. Says(p5, opt, v5)
    BY <1>2, <1>5, <2>2, ValuesOfRecord
  <2>6. Says(p6, opt, v6)
    BY <1>2, <1>6, <2>2, ValuesOfRecord
  <2>7. Says(p7, opt, v7)
    BY <1>2, <1>7, <2>2, ValuesOfRecord
  <2>8. Says(q2, opt, Absent)
    <3>1. Says(q2, opt, Or(Absent, Absent))
      BY <1>8, <2>1, SaysConcat
    <3> QED BY <3>1 DEF Or
  <2>9. Says(q3, opt, v3)
    <3>1. Says(q3, opt, Or(Absent, v3))
      BY <1>8, <2>8, <2>3, SaysConcat
    <3> QED BY <3>1 DEF Or
  <2>10. Says(q4, opt, Or(v3, v4))
    BY <1>8, <2>9, <2>4, SaysConcat
  <2>11. Says(q5, opt, Or(Or(v3, v4), v5))
    BY <1>8, <2>10, <2>5, SaysConcat
  <2>12. Says(q6, opt, Or(Or(Or(v3, v4), v5), v6))
    BY <1>8, <2>11, <2>6, SaysConcat
  <2>13. Says(q7, opt, Or(Or(Or(Or(v3, v4), v5), v6), v7))
    BY <1>8, <2>12, <2>7, SaysConcat
  <2>14. Or(Or(Or(Or(v3, v4), v5), v6), v7) = Field(s, opt)
    BY <2>2 DEF Or, Field
  <2> QED BY <2>13, <2>14
<1>11. ASSUME NEW f \in Switches
       PROVE  Sets(q7, f) <=> s.hamming = f \/ (s.panel # Absent /\ f = "-build_rsq1_panel")
  <2>1. /\ Sets(p1, f) <=> (s.panel # Absent /\ f = "-build_rsq1_panel")
        /\ Sets(p2, f) <=> s.hamming = f
    BY <1>1, FlagsOfRecord
  <2>2. ~Sets(p3, f) /\ ~Sets(p4, f) /\ ~Sets(p5, f) /\ ~Sets(p6, f) /\ ~Sets(p7, f)
    BY <1>2, <1>3, <1>4, <1>5, <1>6, <1>7, ValuesOfRecord
  <2>3. Sets(q2, f) <=> Sets(p1, f) \/ Sets(p2, f)
    BY <1>8, SetsConcat
  <2>4. Sets(q3, f) <=> Sets(q2, f)
    <3>1. q3 = q2 \o p3
      BY <1>8
    <3>2. ~Sets(p3, f)
      BY <2>2
    <3> QED BY <3>1, <3>2, SetsAfter
  <2>5. Sets(q4, f) <=> Sets(q3, f)
    <3>1. q4 = q3 \o p4
      BY <1>8
    <3>2. ~Sets(p4, f)
      BY <2>2
    <3> QED BY <3>1, <3>2, SetsAfter
  <2>6. Sets(q5, f) <=> Sets(q4, f)
    <3>1. q5 = q4 \o p5
      BY <1>8
    <3>2. ~Sets(p5, f)
      BY <2>2
    <3> QED BY <3>1, <3>2, SetsAfter
  <2>7. Sets(q6, f) <=> Sets(q5, f)
    <3>1. q6 = q5 \o p6
      BY <1>8
    <3>2. ~Sets(p6, f)
      BY <2>2
    <3> QED BY <3>1, <3>2, SetsAfter
  <2>8. Sets(q7, f) <=> Sets(q6, f)
    <3>1. q7 = q6 \o p7
      BY <1>8
    <3>2. ~Sets(p7, f)
      BY <2>2
    <3> QED BY <3>1, <3>2, SetsAfter
  <2> QED BY <2>1, <2>3, <2>4, <2>5, <2>6, <2>7, <2>8
<1>12. s.hamming # "-build_rsq1_panel" /\ "-build_rsq1_panel" \in Switches
       /\ \A f \in HammingStages : f \in Switches /\ f # "-build_rsq1_panel"
  BY DEF Written, Switches, HammingStages, Absent
<1> QED BY <1>9, <1>10, <1>11, <1>12

-----------------------------------------------------------------------------
(* The argument vector of a query.                                          *)

\* The command line's text for an option, and the line's before it.
BaseField(opt) == IF opt = "-output" THEN base.output ELSE Field(base, opt)
Given(s, opt) == Or(Field(s, opt), BaseField(opt))

LEMMA RestSays ==
  ASSUME base \in Bases
  PROVE  /\ Rest(base) \in Seq(Token)
         /\ BaseArgv(base) = <<"neighbors">> \o Rest(base)
         /\ \A opt \in ValueFlags : Says(Rest(base), opt, BaseField(opt))
         /\ \A f \in HammingStages : Sets(Rest(base), f) <=> base.hamming = f
         /\ Sets(Rest(base), "-build_rsq1_panel") <=> base.panel # Absent
<1>1. /\ base.rsq \in {"-rsq", "-turboquant", Absent}
      /\ base.bits_flag \in {"-rsq_bits", "-tq_bits"}
      /\ base.bits \in Token \ Flags /\ base.output \in Token \ Flags
  <2>1. base.rsq \in {"-rsq", "-turboquant", Absent} /\ base.bits_flag \in {"-rsq_bits", "-tq_bits"}
    BY InputAssumption DEF InputAssumption
  <2>2. base.bits \notin Flags /\ base.output \notin Flags
    BY InputAssumption DEF InputAssumption
  <2>3. base.bits \in Texts /\ base.output \in Texts
    <3>1. {base.bits, base.output} \in {{b.bits, b.output} : b \in Bases}
      OBVIOUS
    <3>2. PICK U : U = UNION {{b.bits, b.output} : b \in Bases}
      OBVIOUS
    <3>3. base.bits \in U /\ base.output \in U
      BY <3>1, <3>2
    <3> QED BY <3>2, <3>3 DEF Texts
  <2> QED BY <2>1, <2>2, <2>3 DEF Token
<1>2. Written(base)
  BY RecordsAreWritten
<1>3. canonical_flag(base.rsq) \in {"-rsq", Absent}
  <2>1. Absent \notin {"-turboquant", "-tq_bits", "-build_tq1_panel"}
    BY DEF Absent
  <2>2. "-rsq" \notin {"-turboquant", "-tq_bits", "-build_tq1_panel"}
    OBVIOUS
  <2> QED BY <1>1, <2>1, <2>2, Canonical
<1>4. canonical_flag(base.bits_flag) = "-rsq_bits"
  <2>1. "-rsq_bits" \notin {"-turboquant", "-tq_bits", "-build_tq1_panel"}
    OBVIOUS
  <2> QED BY <1>1, <2>1, Canonical
<1>5. canonical_flag("-output") = "-output"
  <2>1. "-output" \notin {"-turboquant", "-tq_bits", "-build_tq1_panel"}
    OBVIOUS
  <2> QED BY <2>1, Canonical
<1>6. /\ "-rsq" \notin ValueFlags /\ Absent \notin ValueFlags /\ "-rsq_bits" \notin ValueFlags
      /\ "-rsq" \notin Switches /\ Absent \notin Switches /\ "-rsq_bits" \notin Switches
      /\ "-output" \in ValueFlags /\ "-output" \notin Switches /\ "-output" \in Flags
  BY DEF ValueFlags, Switches, HammingStages, Absent, Flags
<1>7. PICK p1 \in Seq(Token) : p1 = FlagTokens(base.rsq)
  BY <1>1, <1>3, <1>6, FlagTokensSay DEF Flags
<1>8. PICK p2 \in Seq(Token) : p2 = ValueTokens(base.bits_flag, base.bits)
  BY <1>1, <1>4, <1>6, ValueTokensSay DEF Flags
<1>9. PICK p3 \in Seq(Token) : p3 = Tokens(base)
  BY <1>2, TokensSay
<1>10. PICK p4 \in Seq(Token) : p4 = ValueTokens("-output", base.output)
  BY <1>1, <1>5, <1>6, ValueTokensSay
<1>11. PICK q2 \in Seq(Token) : q2 = p1 \o p2
  BY ConcatProperties
<1>12. PICK q3 \in Seq(Token) : q3 = q2 \o p3
  BY ConcatProperties
<1>13. PICK q4 \in Seq(Token) : q4 = q3 \o p4
  BY ConcatProperties
<1>14. Rest(base) = q4
  BY <1>7, <1>8, <1>9, <1>10, <1>11, <1>12, <1>13 DEF Rest
<1>15. BaseArgv(base) = <<"neighbors">> \o q4
  BY <1>14 DEF BaseArgv
<1>16. ASSUME NEW opt \in ValueFlags PROVE Says(q4, opt, BaseField(opt))
  <2>1. Says(p1, opt, Absent)
    BY <1>1, <1>3, <1>6, <1>7, FlagTokensSay DEF Flags
  <2>2. Says(p2, opt, Absent)
    <3>1. Says(p2, opt, IF opt = "-rsq_bits" THEN base.bits ELSE Absent)
      BY <1>1, <1>4, <1>6, <1>8, ValueTokensSay DEF Flags
    <3> QED BY <3>1, <1>6
  <2>3. Says(p3, opt, Field(base, opt))
    BY <1>2, <1>9, TokensSay
  <2>4. PICK v : v = IF opt = "-output" THEN base.output ELSE Absent
    OBVIOUS
  <2>5. Says(p4, opt, v)
    BY <1>1, <1>5, <1>6, <1>10, <2>4, ValueTokensSay
  <2>6. Says(q2, opt, Or(Absent, Absent))
    BY <1>11, <2>1, <2>2, SaysConcat
  <2>7. Says(q2, opt, Absent)
    BY <2>6 DEF Or
  <2>8. Says(q3, opt, Or(Absent, Field(base, opt)))
    BY <1>12, <2>3, <2>7, SaysConcat
  <2>9. Says(q3, opt, Field(base, opt))
    BY <2>8 DEF Or
  <2>10. Says(q4, opt, Or(Field(base, opt), v))
    BY <1>13, <2>5, <2>9, SaysConcat
  <2>11. Or(Field(base, opt), v) = BaseField(opt)
    BY <2>4 DEF Or, BaseField, Field, Absent
  <2> QED BY <2>10, <2>11
<1>17. ASSUME NEW f \in Switches PROVE Sets(q4, f) <=> Sets(p3, f)
  <2>1. ~Sets(p1, f)
    <3>1. base.rsq \in Flags \cup {Absent} /\ canonical_flag(base.rsq) \notin ValueFlags
      BY <1>1, <1>3, <1>6 DEF Flags
    <3>2. canonical_flag(base.rsq) # f
      BY <1>3, <1>6
    <3> QED BY <3>1, <3>2, <1>7, FlagTokensSay
  <2>2. ~Sets(p2, f)
    BY <1>1, <1>4, <1>6, <1>8, ValueTokensSay DEF Flags
  <2>3. ~Sets(p4, f)
    BY <1>1, <1>5, <1>6, <1>10, ValueTokensSay
  <2>4. Sets(q2, f) <=> Sets(p1, f) \/ Sets(p2, f)
    BY <1>11, SetsConcat
  <2>5. Sets(q3, f) <=> Sets(q2, f) \/ Sets(p3, f)
    BY <1>12, SetsConcat
  <2>6. Sets(q4, f) <=> Sets(q3, f) \/ Sets(p4, f)
    BY <1>13, SetsConcat
  <2> QED BY <2>1, <2>2, <2>3, <2>4, <2>5, <2>6
<1>18. /\ \A f \in HammingStages : Sets(q4, f) <=> base.hamming = f
       /\ Sets(q4, "-build_rsq1_panel") <=> base.panel # Absent
  BY <1>2, <1>9, <1>17, TokensSay DEF Switches
<1> QED BY <1>14, <1>15, <1>16, <1>18

\* An argument vector is read after its first entry.
LEMMA ArgvReads ==
  ASSUME NEW x, NEW q \in Seq(Token), NEW av, av = <<x>> \o q
  PROVE  /\ Len(av) = Len(q) + 1 /\ DOMAIN av = 1..(Len(q) + 1)
         /\ av[1] = x /\ \A i \in 1..Len(q) : av[i + 1] = q[i]
         /\ Tail(av) = q
<1>1. PICK T : T = Token \cup {x} /\ x \in T
  OBVIOUS
<1>2. PICK n \in Seq(T) : n = <<x>> /\ Len(n) = 1 /\ n[1] = x
  BY <1>1, Single
<1>3. q \in Seq(T) /\ Len(q) \in Nat
  BY <1>1
<1>4. /\ n \o q \in Seq(T) /\ Len(n \o q) = 1 + Len(q)
      /\ \A i \in 1..(1 + Len(q)) : (n \o q)[i] = IF i <= 1 THEN n[i] ELSE q[i - 1]
  BY <1>2, <1>3, ConcatProperties
<1>5. PICK r \in Seq(T) : r = av
  BY <1>2, <1>4
<1>6. /\ Len(r) = Len(q) + 1 /\ r[1] = x
      /\ \A i \in 1..Len(q) : r[i + 1] = q[i]
  <2>1. Len(r) = Len(q) + 1
    BY <1>2, <1>3, <1>4, <1>5
  <2>2. \A i \in 1..(1 + Len(q)) : r[i] = IF i <= 1 THEN n[i] ELSE q[i - 1]
    BY <1>2, <1>4, <1>5
  <2>3. r[1] = x
    BY <1>2, <1>3, <2>2
  <2>4. ASSUME NEW i \in 1..Len(q) PROVE r[i + 1] = q[i]
    <3>1. i + 1 \in 1..(1 + Len(q)) /\ ~(i + 1 <= 1) /\ (i + 1) - 1 = i
      BY <1>3
    <3>2. r[i + 1] = q[(i + 1) - 1]
      BY <2>2, <3>1
    <3> QED BY <3>1, <3>2
  <2> QED BY <2>1, <2>3, <2>4
<1>7. Tail(r) = q
  <2>1. r # <<>> /\ Tail(r) \in Seq(T) /\ Len(Tail(r)) = Len(q)
    BY <1>3, <1>6
  <2>2. \A i \in 1..Len(q) : Tail(r)[i] = q[i]
    BY <1>3, <1>6, <2>1
  <2> QED BY <1>3, <2>1, <2>2, SeqEqual
<1> QED BY <1>3, <1>5, <1>6, <1>7

LEMMA CanonicalArgv ==
  ASSUME NEW x, NEW q \in Seq(Token)
  PROVE  canonicalize_flags(<<x>> \o q) = <<x>> \o Mapped(q)
<1>1. PICK av : av = <<x>> \o q
  OBVIOUS
<1>2. PICK m \in Seq(Token) : m = Mapped(q) /\ Len(m) = Len(q)
                            /\ \A i \in 1..Len(q) : m[i] = canonical_flag(q[i])
  BY MappedIsSeq
<1>3. PICK bv : bv = <<x>> \o m
  OBVIOUS
<1>4. PICK T : T = Token \cup {x}
  OBVIOUS
<1>5. PICK r \in Seq(T) : r = bv
  <2>1. <<x>> \in Seq(T) /\ m \in Seq(T)
    BY <1>4
  <2> QED BY <2>1, <1>3, ConcatProperties
<1>6. canonicalize_flags(av) = [i \in 1..(Len(q) + 1) |-> IF i = 1 THEN x ELSE canonical_flag(av[i])]
  BY <1>1, ArgvReads DEF canonicalize_flags
<1>7. Len(bv) = Len(q) + 1 /\ bv[1] = x /\ \A i \in 1..Len(q) : bv[i + 1] = m[i]
  BY <1>2, <1>3, ArgvReads
<1>8. \A i \in 1..Len(q) : av[i + 1] = q[i]
  BY <1>1, ArgvReads
<1>9. ASSUME NEW i \in 1..(Len(q) + 1)
      PROVE  bv[i] = IF i = 1 THEN x ELSE canonical_flag(av[i])
  <2>1. CASE i = 1
    BY <2>1, <1>7
  <2>2. CASE i # 1
    <3>1. PICK j \in 1..Len(q) : i = j + 1
      <4>1. i - 1 \in 1..Len(q) /\ i = (i - 1) + 1
        BY <2>2
      <4> QED BY <4>1
    <3> QED BY <3>1, <2>2, <1>2, <1>7, <1>8
  <2> QED BY <2>1, <2>2
<1>10. r = [i \in 1..(Len(q) + 1) |-> r[i]]
  BY <1>5, <1>7
<1> QED BY <1>1, <1>2, <1>3, <1>5, <1>6, <1>9, <1>10

Follows(av, q) == /\ q \in Seq(Token) /\ Len(av) = Len(q) + 1
                  /\ \A i \in 1..Len(q) : av[i + 1] = q[i]

LEMMA ArgvFlags ==
  ASSUME NEW q \in Seq(Token), NEW av, Follows(av, q), NEW f
  PROVE  getOption(av, f) <=> Has(q, f)
<1>1. PICK n \in Nat : n = Len(q)
  OBVIOUS
<1>2. Len(av) = n + 1 /\ \A i \in 1..n : av[i + 1] = q[i]
  BY <1>1 DEF Follows
<1>3. ASSUME NEW i \in 1..n, q[i] = f PROVE getOption(av, f)
  <2>1. i + 1 \in 2..Len(av) /\ av[i + 1] = f
    BY <1>2, <1>3
  <2> QED BY <2>1 DEF getOption
<1>4. ASSUME NEW i \in 2..Len(av), av[i] = f PROVE Has(q, f)
  <2>1. i - 1 \in 1..n /\ (i - 1) + 1 = i
    BY <1>2
  <2>2. q[i - 1] = f
    BY <2>1, <1>2, <1>4
  <2> QED BY <2>1, <2>2, <1>1 DEF Has
<1> QED BY <1>3, <1>4, <1>1 DEF getOption, Has

LEMMA ArgvValues ==
  ASSUME NEW q \in Seq(Token), NEW av, Follows(av, q),
         NEW opt, NEW v, NEW d, Reads(q, opt, v)
  PROVE  /\ getOptionValue(av, opt, d) = (IF v = Absent THEN d ELSE v)
         /\ getOptionIntValue(av, opt, d) = (IF v = Absent THEN d ELSE atoi(v))
<1>1. PICK n \in Nat : n = Len(q)
  OBVIOUS
<1>2. Len(av) = n + 1 /\ \A i \in 1..n : av[i + 1] = q[i]
  BY <1>1 DEF Follows
<1>5. CASE v = Absent
  <2>1. \A i \in 1..n : q[i] # opt
    BY <1>1, <1>5 DEF Reads
  <2>2. ASSUME NEW i \in 2..(Len(av) - 1) PROVE av[i] # opt
    <3>1. i - 1 \in 1..n /\ (i - 1) + 1 = i
      BY <1>2
    <3> QED BY <3>1, <2>1, <1>2
  <2>3. Places(av, opt) = {}
    BY <2>2 DEF Places
  <2> QED BY <2>3, <1>5 DEF getOptionValue, getOptionIntValue
<1>6. CASE v # Absent
  <2>1. PICK i \in 1..(n - 1) :
           /\ q[i] = opt /\ q[i + 1] = v
           /\ \A j \in 1..(i - 1) : q[j] # opt
    BY <1>1, <1>6 DEF Reads
  <2>2. PICK k \in Nat : k = i + 1
    OBVIOUS
  <2>3. k \in 2..(Len(av) - 1) /\ av[k] = opt /\ av[k + 1] = v
    BY <1>2, <2>1, <2>2
  <2>4. k \in Places(av, opt)
    BY <2>3 DEF Places
  <2>5. ASSUME NEW j \in Places(av, opt) PROVE k =< j
    <3>1. j \in 2..(Len(av) - 1) /\ av[j] = opt
      BY DEF Places
    <3>2. j - 1 \in 1..n /\ (j - 1) + 1 = j
      BY <3>1, <1>2
    <3>3. q[j - 1] = opt
      BY <3>1, <3>2, <1>2
    <3>4. ~(j - 1 \in 1..(i - 1))
      BY <3>3, <2>1
    <3> QED BY <3>2, <3>4, <2>2
  <2>6. \A j \in Places(av, opt) : j \in Nat
    BY <1>2 DEF Places
  <2>7. ASSUME NEW l \in Places(av, opt), \A j \in Places(av, opt) : l =< j PROVE l = k
    BY <2>4, <2>5, <2>6, <2>7
  <2>8. \A e : getOptionValue(av, opt, e) = v
    <3>1. (CHOOSE l \in Places(av, opt) : \A j \in Places(av, opt) : l =< j) = k
      BY <2>4, <2>5, <2>7
    <3> QED BY <3>1, <2>3, <2>4 DEF getOptionValue
  <2> QED BY <2>4, <2>8, <1>6 DEF getOptionIntValue
<1> QED BY <1>5, <1>6

\* What the query of line s reads.
LEMMA ArgvGives ==
  ASSUME NEW q, NEW av, Follows(av, q), NEW s,
         \A opt \in ValueFlags : Reads(q, opt, Given(s, opt))
  PROVE  \A opt \in ValueFlags : \A d :
           /\ getOptionValue(av, opt, d)
                = (IF Given(s, opt) = Absent THEN d ELSE Given(s, opt))
           /\ getOptionIntValue(av, opt, d)
                = (IF Given(s, opt) = Absent THEN d ELSE atoi(Given(s, opt)))
<1> SUFFICES ASSUME NEW opt \in ValueFlags, NEW d
             PROVE  /\ getOptionValue(av, opt, d)
                         = (IF Given(s, opt) = Absent THEN d ELSE Given(s, opt))
                    /\ getOptionIntValue(av, opt, d)
                         = (IF Given(s, opt) = Absent THEN d ELSE atoi(Given(s, opt)))
  OBVIOUS
<1>1. PICK v : v = Given(s, opt)
  OBVIOUS
<1>2. Reads(q, opt, v) /\ q \in Seq(Token)
  BY <1>1 DEF Follows
<1>3. /\ getOptionValue(av, opt, d) = (IF v = Absent THEN d ELSE v)
      /\ getOptionIntValue(av, opt, d) = (IF v = Absent THEN d ELSE atoi(v))
  BY <1>2, ArgvValues
<1> QED BY <1>1, <1>3

LEMMA LineFollows ==
  ASSUME base \in Bases, NEW s \in Settings, NEW av,
         av = PerConfigArgv(canonicalize_flags(BaseArgv(base)), Tokens(s))
  PROVE  \E q : /\ Follows(av, q)
                /\ \A opt \in ValueFlags : Reads(q, opt, Given(s, opt))
                /\ \A f \in HammingStages : Has(q, f) <=> (s.hamming = f \/ base.hamming = f)
                /\ Has(q, "-build_rsq1_panel") <=> (s.panel # Absent \/ base.panel # Absent)
<1>1. Written(s)
  BY RecordsAreWritten
<1>2. PICK t \in Seq(Token) : t = Tokens(s)
  BY <1>1, TokensSay
<1>3. PICK r \in Seq(Token) : r = Rest(base)
  BY RestSays
<1>4. PICK m \in Seq(Token) : m = Mapped(r)
  BY MappedIsSeq
<1>5. canonicalize_flags(BaseArgv(base)) = <<"neighbors">> \o m
  BY <1>3, <1>4, RestSays, CanonicalArgv
<1>6. /\ canonicalize_flags(BaseArgv(base))[1] = "neighbors"
      /\ Tail(canonicalize_flags(BaseArgv(base))) = m
  BY <1>5, ArgvReads
<1>7. PICK u \in Seq(Token) : u = t \o m
  BY ConcatProperties
<1>8. av = canonicalize_flags(<<"neighbors">> \o u)
  BY <1>2, <1>6, <1>7 DEF PerConfigArgv
<1>9. PICK q \in Seq(Token) : q = Mapped(u)
  BY MappedIsSeq
<1>10. Follows(av, q)
  <2>1. av = <<"neighbors">> \o q
    BY <1>8, <1>9, CanonicalArgv
  <2> QED BY <2>1, ArgvReads DEF Follows
<1>11. q = Mapped(t) \o m
  <2>1. Mapped(u) = Mapped(t) \o Mapped(m)
    BY <1>7, MappedConcat
  <2>2. Mapped(m) = m
    BY <1>4, MappedTwice
  <2> QED BY <1>9, <2>1, <2>2
<1>12. Mapped(t) \in Seq(Token)
  BY MappedIsSeq
<1>13. \A opt \in ValueFlags : Reads(q, opt, Given(s, opt))
  <2> SUFFICES ASSUME NEW opt \in ValueFlags PROVE Reads(q, opt, Given(s, opt))
    OBVIOUS
  <2>1. Reads(Mapped(t), opt, Field(s, opt))
    BY <1>1, <1>2, TokensSay DEF Says
  <2>2. Reads(m, opt, BaseField(opt))
    BY <1>3, <1>4, RestSays DEF Says
  <2> QED BY <2>1, <2>2, <1>11, <1>12, ReadsConcat DEF Given
<1>14. \A f : Has(q, f) <=> Has(Mapped(t), f) \/ Has(m, f)
  BY <1>11, <1>12, HasConcat
<1>15. \A f \in HammingStages : Has(q, f) <=> (s.hamming = f \/ base.hamming = f)
  BY <1>1, <1>2, <1>3, <1>4, <1>14, TokensSay, RestSays DEF Sets
<1>16. Has(q, "-build_rsq1_panel") <=> (s.panel # Absent \/ base.panel # Absent)
  BY <1>1, <1>2, <1>3, <1>4, <1>14, TokensSay, RestSays DEF Sets
<1> QED BY <1>10, <1>13, <1>15, <1>16

LEMMA LineReads ==
  ASSUME base \in Bases, NEW s \in Settings, NEW av,
         av = PerConfigArgv(canonicalize_flags(BaseArgv(base)), Tokens(s))
  PROVE  /\ \A opt \in ValueFlags : \A d :
              /\ getOptionValue(av, opt, d)
                   = (IF Given(s, opt) = Absent THEN d ELSE Given(s, opt))
              /\ getOptionIntValue(av, opt, d)
                   = (IF Given(s, opt) = Absent THEN d ELSE atoi(Given(s, opt)))
         /\ \A f \in HammingStages :
              getOption(av, f) <=> (s.hamming = f \/ base.hamming = f)
         /\ getOption(av, "-build_rsq1_panel") <=> (s.panel # Absent \/ base.panel # Absent)
<1>1. PICK q : /\ Follows(av, q)
               /\ \A opt \in ValueFlags : Reads(q, opt, Given(s, opt))
               /\ \A f \in HammingStages : Has(q, f) <=> (s.hamming = f \/ base.hamming = f)
               /\ Has(q, "-build_rsq1_panel") <=> (s.panel # Absent \/ base.panel # Absent)
  BY LineFollows
<1>2. \A f : getOption(av, f) <=> Has(q, f)
  <2>1. Follows(av, q) /\ q \in Seq(Token)
    BY <1>1 DEF Follows
  <2> QED BY <2>1, ArgvFlags
<1>3. \A opt \in ValueFlags : \A d :
        /\ getOptionValue(av, opt, d)
             = (IF Given(s, opt) = Absent THEN d ELSE Given(s, opt))
        /\ getOptionIntValue(av, opt, d)
             = (IF Given(s, opt) = Absent THEN d ELSE atoi(Given(s, opt)))
  BY <1>1, ArgvGives
<1> QED BY <1>1, <1>2, <1>3

-----------------------------------------------------------------------------
(* What holds whatever the inputs.                                          *)

Query == {"encode", "panel", "params", "trees", "descend", "create", "write", "next"}
Place == {"main", "read", "done", "refused", "aborted", "killed"} \cup Query

Recipe == [leaf_k : 0..30, k_build : 0..30 \cup {K}, hamming : SUBSET HammingStages,
           passes : Nat, filtered : BOOLEAN]
File == [whole : BOOLEAN, recipe : Recipe, buildtime : 0..(Eight + One), line : Nat]

Types ==
  /\ base \in Bases /\ lines \in UNION {[1..n -> Settings] : n \in 1..MaxLines}
  /\ pc \in Place
  /\ line_no \in 0..Len(lines) /\ cfg_idx \in 0..line_no
  /\ codes \in BOOLEAN /\ panel \in BOOLEAN /\ codes_cached_ \in BOOLEAN
  /\ did_encode \in BOOLEAN /\ have_buildtime \in BOOLEAN
  /\ enc_s \in 0..(Eight + One) /\ shared_buildtime \in 0..(Eight + One)
  /\ passes \in 0..30 /\ recipe \in Recipe
  /\ restarts \in 0..MaxRestarts
  /\ files = [f \in DOMAIN files |-> files[f]]
  /\ \A f \in DOMAIN files : files[f] \in File

\* The work done is what is there.
WorkInv ==
  /\ work = (IF codes THEN Eight ELSE 0) + (IF panel THEN One ELSE 0)
  /\ panel => codes
  /\ spent \in 0..work
  /\ pc = "panel" => codes

\* The query being run is that of the line read last, and no later one has
\* been numbered.
LineInv ==
  /\ pc = "main" => line_no = 0
  /\ pc \in Query =>
       /\ line_no \in Queries /\ cfg_idx < line_no
       /\ argv = PerConfigArgv(canonicalize_flags(BaseArgv(base)), Tokens(lines[line_no]))

\* A file bears the name its line asks for.
NameInv ==
  /\ \A f \in DOMAIN files : files[f].line \in Queries /\ f = NameOf(lines[files[f].line])
  /\ pc = "write" => NameOf(lines[line_no]) \in DOMAIN files

Basics == Types /\ WorkInv /\ LineInv /\ NameInv

LEMMA LinesAreSettings ==
  ASSUME lines \in UNION {[1..n -> Settings] : n \in 1..MaxLines}
  PROVE  /\ Len(lines) \in Nat /\ DOMAIN lines = 1..Len(lines)
         /\ \A i \in 1..Len(lines) : lines[i] \in Settings
<1>1. PICK n \in 1..MaxLines : lines \in [1..n -> Settings]
  OBVIOUS
<1>2. n \in Nat
  BY <1>1, BoundsAssumption DEF BoundsAssumption
<1>3. lines \in Seq(Settings) /\ Len(lines) = n
  BY <1>1, <1>2
<1> QED BY <1>1, <1>2, <1>3

LEMMA Atoi == \A tok : atoi(tok) \in 0..30
BY DEF atoi

LEMMA FieldsGiven ==
  ASSUME NEW s
  PROVE  /\ Given(s, "-mst_deg") = Pick(s, "mst_deg", Absent)
         /\ Given(s, "-leaf_k") = Pick(s, "leaf_k", Absent)
         /\ Given(s, "-k_build") = Pick(s, "k_build", Absent)
         /\ Given(s, "-nn_descent") = Pick(s, "nnd", Absent)
         /\ Given(s, "-cfg_name") = Pick(s, "name", Absent)
         /\ Given(s, "-output") = base.output
BY DEF Given, Or, Field, BaseField, Pick

\* What the current query reads, said of its line.
LEMMA QueryReads ==
  ASSUME Types, LineInv, pc \in Query, NEW s, s = lines[line_no]
  PROVE  /\ s \in Settings
         /\ LeafK = Wanted(s).leaf_k /\ KBuild = Wanted(s).k_build
         /\ getOptionIntValue(argv, "-nn_descent", 0) = Wanted(s).passes
         /\ RefusesLeafK <=> (Pick(s, "leaf_k", Absent) # Absent
                               /\ atoi(Pick(s, "leaf_k", Absent)) < 1)
         /\ FileName = NameOf(s)
         /\ getOptionValue(argv, "-output", Absent) = base.output
         /\ \A f \in HammingStages :
              getOption(argv, f) <=> (s.hamming = f \/ base.hamming = f)
         /\ getOption(argv, "-build_rsq1_panel") <=> (s.panel # Absent \/ base.panel # Absent)
<1>1. base \in Bases /\ line_no \in Queries
  BY DEF Types, LineInv
<1>2. s \in Settings /\ argv = PerConfigArgv(canonicalize_flags(BaseArgv(base)), Tokens(s))
  BY <1>1, LinesAreSettings DEF Types, LineInv, Queries
<1>3. /\ "-mst_deg" \in ValueFlags /\ "-leaf_k" \in ValueFlags /\ "-k_build" \in ValueFlags
      /\ "-nn_descent" \in ValueFlags /\ "-cfg_name" \in ValueFlags /\ "-output" \in ValueFlags
  BY DEF ValueFlags
<1>4. \A opt \in ValueFlags : \A d :
        /\ getOptionValue(argv, opt, d) = (IF Given(s, opt) = Absent THEN d ELSE Given(s, opt))
        /\ getOptionIntValue(argv, opt, d)
             = (IF Given(s, opt) = Absent THEN d ELSE atoi(Given(s, opt)))
  BY <1>1, <1>2, LineReads
<1>5. LeafK = Wanted(s).leaf_k
  <2>1. getOptionIntValue(argv, "-mst_deg", 2) = Number(s, "mst_deg", 2)
    BY <1>3, <1>4, FieldsGiven DEF Number
  <2>2. \A d : getOptionIntValue(argv, "-leaf_k", d) = Number(s, "leaf_k", d)
    BY <1>3, <1>4, FieldsGiven DEF Number
  <2> QED BY <2>1, <2>2 DEF LeafK, Wanted
<1>6. KBuild = Wanted(s).k_build
  <2>1. getOptionIntValue(argv, "-k_build", 0) = Number(s, "k_build", 0)
    BY <1>3, <1>4, FieldsGiven DEF Number
  <2> QED BY <2>1 DEF KBuild, Wanted
<1>7. getOptionIntValue(argv, "-nn_descent", 0) = Wanted(s).passes
  <2>1. getOptionIntValue(argv, "-nn_descent", 0) = Number(s, "nnd", 0)
    BY <1>3, <1>4, FieldsGiven DEF Number
  <2> QED BY <2>1 DEF Wanted
<1>8. RefusesLeafK <=> (Pick(s, "leaf_k", Absent) # Absent
                        /\ atoi(Pick(s, "leaf_k", Absent)) < 1)
  BY <1>3, <1>4, FieldsGiven DEF RefusesLeafK
<1>9. FileName = NameOf(s)
  <2>1. getOptionValue(argv, "-cfg_name", "cfg")
         = (IF Pick(s, "name", Absent) = Absent THEN "cfg" ELSE Pick(s, "name", Absent))
    BY <1>3, <1>4, FieldsGiven
  <2> QED BY <2>1 DEF FileName, NameOf, Pick
<1>10. getOptionValue(argv, "-output", Absent) = base.output
  BY <1>3, <1>4, FieldsGiven
<1>11. /\ \A f \in HammingStages :
            getOption(argv, f) <=> (s.hamming = f \/ base.hamming = f)
       /\ getOption(argv, "-build_rsq1_panel") <=> (s.panel # Absent \/ base.panel # Absent)
  BY <1>1, <1>2, LineReads
<1> QED BY <1>2, <1>5, <1>6, <1>7, <1>8, <1>9, <1>10, <1>11

LEMMA NumbersWanted ==
  ASSUME NEW s
  PROVE  /\ Wanted(s).leaf_k \in 0..30 /\ Wanted(s).k_build \in 0..30 \cup {K}
         /\ Wanted(s).passes \in 0..30
<1>1. \A f, d : Number(s, f, d) = d \/ Number(s, f, d) \in 0..30
  BY Atoi DEF Number
<1>2. Number(s, "mst_deg", 2) \in 0..30 /\ Number(s, "nnd", 0) \in 0..30
      /\ Number(s, "k_build", 0) \in 0..30
  <2>1. 2 \in 0..30 /\ 0 \in 0..30
    OBVIOUS
  <2> QED BY <1>1, <2>1
<1>3. Number(s, "leaf_k", Number(s, "mst_deg", 2)) \in 0..30
  BY <1>1, <1>2
<1> QED BY <1>2, <1>3 DEF Wanted

LEMMA InputsFixed ==
  ASSUME base' = base, lines' = lines
  PROVE  /\ \A s : NameOf(s)' = NameOf(s) /\ Wanted(s)' = Wanted(s)
         /\ Queries' = Queries
BY DEF NameOf, Wanted, Number, Pick, AsksForPanel, Queries

LEMMA InputsNeverChange ==
  ASSUME [Next]_vars PROVE base' = base /\ lines' = lines
BY DEF Next, vars, Step, Main, ReadLine, EndOfPortfolio, Encode, EncodePanel, PanelFails,
       Parameters, ClusterTrees, Descend, CopyToGraph, CreateFile, WriteFile, NextQuery,
       Kill, Restart, Stopped

LEMMA BasicsInit ==
  ASSUME Init PROVE Basics
<1>1. NoRecipe \in Recipe
  BY DEF NoRecipe, Recipe
<1>2. Len(lines) \in Nat
  <2>1. PICK n \in 1..MaxLines : lines \in [1..n -> Settings]
    BY DEF Init
  <2> QED BY <2>1, LinesAreSettings
<1>3. DOMAIN files = {}
  BY DEF Init
<1>4. files = [f \in DOMAIN files |-> files[f]]
  BY <1>3 DEF Init
<1>5. Types
  <2>1. base \in Bases /\ lines \in UNION {[1..n -> Settings] : n \in 1..MaxLines}
    BY DEF Init
  <2>2. line_no \in 0..Len(lines) /\ cfg_idx \in 0..line_no
    BY <1>2 DEF Init, Fresh
  <2>3. enc_s \in 0..(Eight + One) /\ shared_buildtime \in 0..(Eight + One) /\ passes \in 0..30
    BY DEF Init, Fresh, Eight, One
  <2>4. restarts \in 0..MaxRestarts
    BY BoundsAssumption DEF Init, BoundsAssumption
  <2>5. recipe \in Recipe
    BY <1>1 DEF Init, Fresh
  <2>6. pc \in Place /\ codes \in BOOLEAN /\ panel \in BOOLEAN /\ codes_cached_ \in BOOLEAN
        /\ did_encode \in BOOLEAN /\ have_buildtime \in BOOLEAN
    BY DEF Init, Fresh, Place, Query
  <2> QED BY <1>3, <1>4, <2>1, <2>2, <2>3, <2>4, <2>5, <2>6 DEF Types
<1>6. WorkInv
  BY DEF Init, Fresh, WorkInv, Eight, One
<1>7. LineInv
  BY DEF Init, Fresh, LineInv, Query
<1>8. NameInv
  BY <1>3 DEF Init, NameInv
<1> QED BY <1>5, <1>6, <1>7, <1>8 DEF Basics

\* Steps that leave the files alone.
LEMMA NamesStay ==
  ASSUME NameInv, files' = files, base' = base, lines' = lines, pc' # "write"
  PROVE  NameInv'
BY InputsFixed DEF NameInv

LEMMA LineStays ==
  ASSUME LineInv, line_no' = line_no, cfg_idx' = cfg_idx, argv' = argv,
         base' = base, lines' = lines, pc' # "main", pc' \in Query => pc \in Query
  PROVE  LineInv'
BY DEF LineInv, Queries, Query

LEMMA BasicsStep ==
  ASSUME Basics, [Next]_vars PROVE Basics'
<1> USE DEF Basics
<1>0. /\ Types /\ WorkInv /\ LineInv /\ NameInv
      /\ base' = base /\ lines' = lines
      /\ Eight = 4 /\ One = 1
      /\ Len(lines) \in Nat /\ line_no \in Nat
  BY InputsNeverChange, LinesAreSettings DEF Types, Eight, One
<1>1. CASE UNCHANGED vars
  BY <1>1, <1>0, InputsFixed DEF vars, process, Types, WorkInv, LineInv, NameInv
<1>2. CASE Main
  <2>1. pc' \in {"read", "refused"} /\ UNCHANGED <<process, files, restarts>>
    BY <1>2 DEF Main
  <2>2. Types' /\ WorkInv'
    BY <1>0, <2>1 DEF Types, WorkInv, process, Place
  <2>3. LineInv'
    BY <1>0, <2>1, LineStays DEF process, Query
  <2> QED BY <1>0, <2>1, <2>2, <2>3, NamesStay
<1>3. CASE ReadLine
  <2>1. /\ pc = "read" /\ line_no < Len(lines) /\ line_no' = line_no + 1
        /\ UNCHANGED <<cfg_idx, codes, panel, codes_cached_, did_encode, spent, work, enc_s,
                       shared_buildtime, have_buildtime, recipe, passes, files, restarts>>
        /\ pc' \in {"read", "encode", "aborted"}
    BY <1>3 DEF ReadLine
  <2>2. Types'
    BY <1>0, <2>1 DEF Types, Place, Query
  <2>3. WorkInv'
    BY <1>0, <2>1 DEF WorkInv
  <2>4. LineInv'
    <3>1. CASE lines[line_no + 1].comment
      <4>1. pc' = "read"
        BY <1>3, <2>1, <3>1 DEF ReadLine
      <4> QED BY <4>1 DEF LineInv, Query
    <3>2. CASE ~lines[line_no + 1].comment
      <4>1. line_no' \in Queries
        BY <1>0, <2>1, <3>2, LinesAreSettings DEF Queries, Types
      <4>2. cfg_idx' < line_no'
        BY <1>0, <2>1 DEF Types
      <4>3. argv' = PerConfigArgv(canonicalize_flags(BaseArgv(base)), Tokens(lines[line_no']))
        BY <1>3, <2>1, <3>2 DEF ReadLine
      <4> QED BY <1>0, <2>1, <4>1, <4>2, <4>3, InputsFixed DEF LineInv
    <3> QED BY <3>1, <3>2
  <2> QED BY <1>0, <2>1, <2>2, <2>3, <2>4, NamesStay
<1>4. CASE EndOfPortfolio
  <2>1. pc' = "done" /\ UNCHANGED <<process, files, restarts>>
    BY <1>4 DEF EndOfPortfolio
  <2>2. Types' /\ WorkInv'
    BY <1>0, <2>1 DEF Types, WorkInv, process, Place
  <2>3. LineInv'
    BY <1>0, <2>1, LineStays DEF process, Query
  <2> QED BY <1>0, <2>1, <2>2, <2>3, NamesStay
<1>5. CASE Encode
  <2>1. /\ pc = "encode" /\ pc' \in {"panel", "aborted"} /\ codes' \in BOOLEAN
        /\ did_encode' = ~codes_cached_
        /\ UNCHANGED <<argv, line_no, cfg_idx, panel, codes_cached_, enc_s, shared_buildtime,
                       have_buildtime, recipe, passes, files, restarts>>
    BY <1>0, <1>5 DEF Encode, Types
  <2>2. Types'
    BY <1>0, <2>1 DEF Types, Place, Query
  <2>3. WorkInv'
    BY <1>0, <1>5 DEF WorkInv, Encode, Types
  <2>4. LineInv'
    BY <1>0, <2>1, LineStays DEF Query
  <2> QED BY <1>0, <2>1, <2>2, <2>3, <2>4, NamesStay
<1>6. CASE EncodePanel
  <2>1. PICK took \in {0, One} :
          /\ pc = "panel" /\ pc' = "params" /\ codes_cached_' = TRUE
          /\ spent' = spent + took /\ work' = work + took
          /\ enc_s' = (IF did_encode THEN spent + took ELSE 0)
          /\ UNCHANGED <<argv, line_no, cfg_idx, codes, did_encode, shared_buildtime,
                         have_buildtime, recipe, passes, files, restarts>>
          /\ panel' \in BOOLEAN
          /\ IF took = One THEN ~panel /\ panel' ELSE panel' = panel
    <3>1. PICK make \in BOOLEAN : make = (WantsPanel /\ ~panel)
      OBVIOUS
    <3>2. panel' = (panel \/ make) /\ spent' = spent + (IF make THEN One ELSE 0)
          /\ work' = work + (IF make THEN One ELSE 0)
          /\ enc_s' = (IF did_encode THEN spent + (IF make THEN One ELSE 0) ELSE 0)
      BY <1>6, <3>1 DEF EncodePanel
    <3>3. PICK took \in {0, One} : took = IF make THEN One ELSE 0
      BY <3>1
    <3> QED BY <1>0, <1>6, <3>1, <3>2, <3>3 DEF EncodePanel, Types
  <2>2. codes /\ spent \in 0..work /\ work = Eight + (IF panel THEN One ELSE 0)
    BY <1>0, <2>1 DEF WorkInv
  <2>3. spent' \in 0..work' /\ work' = Eight + (IF panel' THEN One ELSE 0)
        /\ enc_s' \in 0..(Eight + One)
    BY <1>0, <2>1, <2>2 DEF Types
  <2>4. Types'
    BY <1>0, <2>1, <2>3 DEF Types, Place, Query
  <2>5. WorkInv'
    BY <1>0, <2>1, <2>2, <2>3 DEF WorkInv
  <2>6. LineInv'
    BY <1>0, <2>1, LineStays DEF Query
  <2> QED BY <1>0, <2>1, <2>4, <2>5, <2>6, NamesStay
<1>7. CASE PanelFails \/ Kill
  <2>1. pc' \in {"aborted", "killed"} /\ UNCHANGED <<process, files, restarts>>
    BY <1>7 DEF PanelFails, Kill
  <2>2. Types' /\ WorkInv'
    BY <1>0, <2>1 DEF Types, WorkInv, process, Place
  <2>3. LineInv'
    BY <1>0, <2>1, LineStays DEF process, Query
  <2> QED BY <1>0, <2>1, <2>2, <2>3, NamesStay
<1>8. CASE Parameters
  <2>1. /\ pc = "params" /\ pc' \in {"aborted", "trees"}
        /\ UNCHANGED <<argv, line_no, cfg_idx, codes, panel, codes_cached_, did_encode, spent,
                       work, enc_s, shared_buildtime, have_buildtime, files, restarts>>
    BY <1>8 DEF Parameters
  <2>2. recipe' \in Recipe /\ passes' \in 0..30
    <3>1. PICK s : s = lines[line_no]
      OBVIOUS
    <3>2. LeafK \in 0..30 /\ KBuild \in 0..30 \cup {K}
          /\ getOptionIntValue(argv, "-nn_descent", 0) \in 0..30
      BY <1>0, <2>1, <3>1, QueryReads, NumbersWanted DEF Query
    <3> QED BY <1>8, <3>2 DEF Parameters, Recipe
  <2>3. Types' /\ WorkInv'
    BY <1>0, <2>1, <2>2 DEF Types, WorkInv, Place, Query
  <2>4. LineInv'
    BY <1>0, <2>1, LineStays DEF Query
  <2> QED BY <1>0, <2>1, <2>3, <2>4, NamesStay
<1>9. CASE ClusterTrees
  <2>1. pc = "trees" /\ pc' \in {"descend", "aborted"} /\ UNCHANGED <<process, files, restarts>>
    BY <1>9 DEF ClusterTrees
  <2>2. Types' /\ WorkInv'
    BY <1>0, <2>1 DEF Types, WorkInv, process, Place, Query
  <2>3. LineInv'
    BY <1>0, <2>1, LineStays DEF process, Query
  <2> QED BY <1>0, <2>1, <2>2, <2>3, NamesStay
<1>10. CASE Descend
  <2>1. /\ pc = "descend" /\ pc' = pc /\ passes > 0 /\ passes' = passes - 1
        /\ recipe' = [recipe EXCEPT !.passes = @ + 1, !.filtered = panel]
        /\ UNCHANGED <<argv, line_no, cfg_idx, codes, panel, codes_cached_, did_encode, spent,
                       work, enc_s, shared_buildtime, have_buildtime, files, restarts>>
    BY <1>10 DEF Descend
  <2>2. recipe' \in Recipe /\ passes' \in 0..30
    <3>1. PICK n \in Nat : n = recipe.passes + 1
      BY <1>0 DEF Types, Recipe
    <3>2. PICK q : q = [recipe EXCEPT !.passes = n]
      OBVIOUS
    <3>3. recipe' = [q EXCEPT !.filtered = panel]
      BY <2>1, <3>1, <3>2
    <3>4. q \in Recipe
      BY <1>0, <3>1, <3>2 DEF Types, Recipe
    <3>5. recipe' \in Recipe
      BY <1>0, <3>3, <3>4 DEF Types, Recipe
    <3>6. passes' \in 0..30
      BY <1>0, <2>1 DEF Types
    <3> QED BY <3>5, <3>6
  <2>3. Types' /\ WorkInv'
    BY <1>0, <2>1, <2>2 DEF Types, WorkInv, Place, Query
  <2>4. LineInv'
    BY <1>0, <2>1, LineStays DEF Query
  <2> QED BY <1>0, <2>1, <2>3, <2>4, NamesStay
<1>11. CASE CopyToGraph
  <2>1. /\ pc = "descend" /\ pc' \in {"create", "next"}
        /\ UNCHANGED <<argv, line_no, cfg_idx, codes, panel, codes_cached_, did_encode, spent,
                       work, enc_s, shared_buildtime, have_buildtime, recipe, passes, files,
                       restarts>>
    BY <1>11 DEF CopyToGraph
  <2>2. Types' /\ WorkInv'
    BY <1>0, <2>1 DEF Types, WorkInv, Place, Query
  <2>3. LineInv'
    BY <1>0, <2>1, LineStays DEF Query
  <2> QED BY <1>0, <2>1, <2>2, <2>3, NamesStay
<1>12. CASE CreateFile
  <2>1. pc = "create" /\ pc' \in {"write", "aborted"} /\ UNCHANGED <<process, restarts>>
    BY <1>12 DEF CreateFile
  <2>2. LineInv'
    BY <1>0, <2>1, LineStays DEF Query, process
  <2>3. WorkInv'
    BY <1>0, <2>1 DEF WorkInv, process
  <2>4. CASE files' = files /\ pc' = "aborted"
    BY <1>0, <2>1, <2>2, <2>3, <2>4, NamesStay DEF Types, process, Place
  <2>5. CASE /\ pc' = "write"
             /\ files' = [f \in DOMAIN files \cup {FileName} |->
                           IF f = FileName
                           THEN [whole |-> FALSE, recipe |-> NoRecipe, buildtime |-> 0,
                                 line |-> line_no]
                           ELSE files[f]]
    <3>1. PICK n, e : n = FileName /\ e = [whole |-> FALSE, recipe |-> NoRecipe,
                                           buildtime |-> 0, line |-> line_no]
      OBVIOUS
    <3>2. /\ DOMAIN files' = DOMAIN files \cup {n} /\ files'[n] = e
          /\ \A f \in DOMAIN files \ {n} : files'[f] = files[f]
          /\ files' = [f \in DOMAIN files' |-> files'[f]]
      BY <2>5, <3>1
    <3>3. e \in File /\ e.line = line_no
      BY <1>0, <3>1 DEF File, NoRecipe, Recipe
    <3>4. n = NameOf(lines[line_no]) /\ line_no \in Queries
      BY <1>0, <2>1, <3>1, QueryReads DEF Query, LineInv
    <3>5. Types'
      <4>1. \A f \in DOMAIN files' : files'[f] \in File
        BY <1>0, <3>2, <3>3 DEF Types
      <4> QED BY <1>0, <2>1, <2>5, <3>2, <4>1 DEF Types, process, Place, Query
    <3>6. NameInv'
      <4>1. ASSUME NEW f \in DOMAIN files'
            PROVE  files'[f].line \in Queries /\ f = NameOf(lines[files'[f].line])
        <5>1. CASE f = n
          BY <5>1, <3>2, <3>3, <3>4
        <5>2. CASE f # n
          BY <5>2, <3>2, <1>0 DEF NameInv
        <5> QED BY <5>1, <5>2
      <4>2. line_no' = line_no
        BY <2>1 DEF process
      <4> QED BY <1>0, <3>2, <3>4, <4>1, <4>2, InputsFixed DEF NameInv
    <3> QED BY <2>2, <2>3, <3>5, <3>6
  <2> QED BY <1>12, <2>4, <2>5 DEF CreateFile
<1>13. CASE WriteFile
  <2>1. pc = "write" /\ pc' = "next" /\ UNCHANGED <<process, restarts>>
    BY <1>13 DEF WriteFile
  <2>2. LineInv'
    BY <1>0, <2>1, LineStays DEF Query, process
  <2>3. WorkInv'
    BY <1>0, <2>1 DEF WorkInv, process
  <2>4. PICK n, e : /\ n = FileName /\ e = [whole |-> TRUE, recipe |-> recipe,
                                             buildtime |-> buildtime, line |-> line_no]
                    /\ files' = [files EXCEPT ![n] = e]
    BY <1>13 DEF WriteFile
  <2>5. n = NameOf(lines[line_no]) /\ n \in DOMAIN files /\ line_no \in Queries
    BY <1>0, <2>1, <2>4, QueryReads DEF Query, LineInv, NameInv
  <2>6. /\ DOMAIN files' = DOMAIN files /\ files'[n] = e
        /\ \A f \in DOMAIN files \ {n} : files'[f] = files[f]
        /\ files' = [f \in DOMAIN files' |-> files'[f]]
    BY <1>0, <2>4, <2>5 DEF Types
  <2>7. e \in File /\ e.line = line_no
    <3>1. buildtime \in 0..(Eight + One) /\ recipe \in Recipe
      BY <1>0 DEF buildtime, Types
    <3> QED BY <1>0, <2>4, <3>1 DEF File
  <2>8. Types'
    <3>1. \A f \in DOMAIN files' : files'[f] \in File
      BY <1>0, <2>6, <2>7 DEF Types
    <3> QED BY <1>0, <2>1, <2>6, <3>1 DEF Types, process, Place, Query
  <2>9. NameInv'
    <3>1. ASSUME NEW f \in DOMAIN files'
          PROVE  files'[f].line \in Queries /\ f = NameOf(lines[files'[f].line])
      <4>1. CASE f = n
        BY <4>1, <2>5, <2>6, <2>7
      <4>2. CASE f # n
        BY <4>2, <2>6, <1>0 DEF NameInv
      <4> QED BY <4>1, <4>2
    <3> QED BY <1>0, <2>1, <3>1, InputsFixed DEF NameInv
  <2> QED BY <2>2, <2>3, <2>8, <2>9
<1>14. CASE NextQuery
  <2>1. /\ pc = "next" /\ pc' = "read" /\ cfg_idx' = cfg_idx + 1 /\ have_buildtime' = TRUE
        /\ shared_buildtime' = (IF have_buildtime THEN shared_buildtime ELSE enc_s)
        /\ UNCHANGED <<argv, line_no, codes, panel, codes_cached_, did_encode, spent, work,
                       enc_s, recipe, passes, files, restarts>>
    BY <1>14 DEF NextQuery
  <2>2. cfg_idx < line_no
    BY <1>0, <2>1 DEF LineInv, Query
  <2>3. Types' /\ WorkInv'
    BY <1>0, <2>1, <2>2 DEF Types, WorkInv, Place
  <2>4. LineInv'
    BY <2>1 DEF LineInv, Query
  <2> QED BY <1>0, <2>1, <2>3, <2>4, NamesStay
<1>15. CASE Restart
  <2>1. NoRecipe \in Recipe
    BY DEF NoRecipe, Recipe
  <2>2. restarts' \in 0..MaxRestarts
    BY <1>0, <1>15, BoundsAssumption DEF Restart, Types, BoundsAssumption
  <2>3. Types'
    <3>1. line_no' = 0 /\ cfg_idx' = 0 /\ pc' = "main" /\ enc_s' = 0 /\ shared_buildtime' = 0
          /\ codes' = FALSE /\ panel' = FALSE /\ codes_cached_' = FALSE
          /\ did_encode' = FALSE /\ have_buildtime' = FALSE /\ passes' = 0
          /\ recipe' = NoRecipe /\ files' = files
      BY <1>15 DEF Restart
    <3>2. line_no' \in 0..Len(lines') /\ cfg_idx' \in 0..line_no'
      BY <1>0, <3>1
    <3>3. enc_s' \in 0..(Eight + One) /\ shared_buildtime' \in 0..(Eight + One)
          /\ passes' \in 0..30
      BY <1>0, <3>1
    <3>4. base' \in Bases /\ lines' \in UNION {[1..n -> Settings] : n \in 1..MaxLines}
      BY <1>0 DEF Types
    <3>5. files' = [f \in DOMAIN files' |-> files'[f]] /\ \A f \in DOMAIN files' : files'[f] \in File
      BY <1>0, <3>1 DEF Types
    <3>6. pc' \in Place
      BY <3>1 DEF Place
    <3> QED BY <2>1, <2>2, <3>1, <3>2, <3>3, <3>4, <3>5, <3>6 DEF Types
  <2>4. WorkInv' /\ LineInv'
    BY <1>0, <1>15 DEF Restart, WorkInv, LineInv, Query
  <2> QED BY <1>0, <1>15, <2>3, <2>4, NamesStay DEF Restart
<1>16. CASE Stopped
  BY <1>16, <1>1 DEF Stopped
<1> QED BY <1>1, <1>2, <1>3, <1>4, <1>5, <1>6, <1>7, <1>8, <1>9, <1>10, <1>11, <1>12, <1>13,
           <1>14, <1>15, <1>16 DEF Next, Step

LEMMA BasicsHold == Spec => []Basics
<1>1. Init => Basics
  BY BasicsInit
<1>2. Basics /\ [Next]_vars => Basics'
  BY BasicsStep
<1> QED BY <1>1, <1>2, PTL DEF Spec

-----------------------------------------------------------------------------
(* What the steps of a query have in common.                                *)

\* build_topk behind the panel, and its part behind the parameters.
Building == {"params", "trees", "descend", "create", "write", "next"}
Bound == {"trees", "descend", "create", "write"}

\* The wants of the query being run.
Current == Wanted(lines[line_no])

\* The steps that only move on: nothing but the place and the argv changes.
LEMMA QueryFacts ==
  ASSUME Basics, pc \in Query
  PROVE  /\ lines[line_no] \in Settings /\ line_no \in Queries
         /\ LeafK = Current.leaf_k /\ KBuild = Current.k_build
         /\ getOptionIntValue(argv, "-nn_descent", 0) = Current.passes
         /\ RefusesLeafK <=> (Pick(lines[line_no], "leaf_k", Absent) # Absent
                               /\ atoi(Pick(lines[line_no], "leaf_k", Absent)) < 1)
         /\ FileName = NameOf(lines[line_no])
         /\ getOptionValue(argv, "-output", Absent) = base.output
         /\ \A f \in HammingStages :
              getOption(argv, f) <=> (lines[line_no].hamming = f \/ base.hamming = f)
         /\ getOption(argv, "-build_rsq1_panel")
              <=> (lines[line_no].panel # Absent \/ base.panel # Absent)
<1>1. PICK s : s = lines[line_no]
  OBVIOUS
<1>2. Types /\ LineInv
  BY DEF Basics
<1> QED BY <1>1, <1>2, QueryReads DEF Current, LineInv

LEMMA StageFacts ==
  ASSUME Basics, pc \in Query
  PROVE  /\ lines[line_no].hamming \in HammingStages \cup {Absent}
         /\ base.hamming \in HammingStages \cup {Absent}
<1>1. lines[line_no] \in Settings \cup Bases /\ base \in Settings \cup Bases
  BY QueryFacts DEF Basics, Types
<1> QED BY <1>1, RecordsAreWritten DEF Written

\* The command line asks for the panel, so every query wants it.
Asking == \A b \in Bases : AsksForPanel(b)

LEMMA PanelIsWanted ==
  ASSUME Asking, Basics, pc \in Query
  PROVE  WantsPanel
<1>1. base \in Bases
  BY DEF Basics, Types
<1>2. base.panel # Absent \/ base.hamming # Absent
  BY <1>1 DEF Asking, AsksForPanel
<1>3. CASE base.panel # Absent
  BY <1>3, QueryFacts DEF WantsPanel
<1>4. CASE base.hamming # Absent
  BY <1>4, QueryFacts, StageFacts DEF WantsPanel
<1> QED BY <1>2, <1>3, <1>4

-----------------------------------------------------------------------------
(* The codes and the panel, when the command line asks for the panel: they  *)
(* are made together, by the query that gives the run its buildtime.        *)

BuildInv ==
  /\ pc \in {"main", "read", "encode"} =>
       panel = codes /\ codes_cached_ = codes /\ have_buildtime = codes
  /\ pc = "panel" =>
       /\ codes /\ did_encode = ~codes_cached_
       /\ panel = codes_cached_ /\ have_buildtime = codes_cached_
       /\ spent = IF did_encode THEN Eight ELSE 0
  /\ pc \in Building =>
       /\ codes /\ panel /\ codes_cached_ /\ have_buildtime = ~did_encode
       /\ enc_s = IF did_encode THEN Eight + One ELSE 0
  /\ have_buildtime => shared_buildtime = Eight + One
  /\ cfg_idx # 0 => have_buildtime

\* Steps that leave the index and its times alone.
LEMMA BuildStays ==
  ASSUME BuildInv,
         UNCHANGED <<cfg_idx, codes, panel, codes_cached_, did_encode, spent, enc_s,
                     shared_buildtime, have_buildtime>>,
         pc' \in {"main", "read", "encode"} => pc \in {"main", "read", "encode"},
         pc' # "panel", pc' \in Building => pc \in Building
  PROVE  BuildInv'
BY DEF BuildInv

LEMMA BuildInit ==
  ASSUME Init PROVE BuildInv
BY DEF Init, Fresh, BuildInv, Building

LEMMA BuildStep ==
  ASSUME Asking, Basics, BuildInv, [Next]_vars
  PROVE  BuildInv'
<1>0. /\ codes \in BOOLEAN /\ panel \in BOOLEAN /\ codes_cached_ \in BOOLEAN
      /\ did_encode \in BOOLEAN /\ have_buildtime \in BOOLEAN
      /\ Eight = 4 /\ One = 1
  BY DEF Basics, Types, Eight, One
<1>1. CASE UNCHANGED vars
  BY <1>1 DEF vars, process, BuildInv
<1>2. CASE Main \/ EndOfPortfolio \/ PanelFails \/ Kill \/ CreateFile \/ WriteFile
  BY <1>2, BuildStays
     DEF Main, EndOfPortfolio, PanelFails, Kill, CreateFile, WriteFile, process, Building
<1>3. CASE ReadLine \/ Parameters \/ Descend \/ CopyToGraph
  BY <1>3, BuildStays DEF ReadLine, Parameters, Descend, CopyToGraph, process, Building
<1>4. CASE ClusterTrees
  BY <1>4, BuildStays DEF ClusterTrees, process, Building
<1>5. CASE Encode
  <2>1. /\ pc = "encode" /\ pc' \in {"panel", "aborted"} /\ did_encode' = ~codes_cached_
        /\ UNCHANGED <<cfg_idx, panel, codes_cached_, enc_s, shared_buildtime, have_buildtime>>
        /\ pc' = "panel" => /\ codes' = TRUE /\ spent' = IF codes THEN 0 ELSE Eight
    BY <1>0, <1>5 DEF Encode
  <2>2. panel = codes /\ codes_cached_ = codes /\ have_buildtime = codes
    BY <2>1 DEF BuildInv
  <2> QED BY <1>0, <2>1, <2>2 DEF BuildInv, Building
<1>6. CASE EncodePanel
  <2>1. pc = "panel" /\ WantsPanel
    BY <1>6, PanelIsWanted DEF EncodePanel, Query
  <2>2. /\ pc' = "params" /\ codes_cached_' = TRUE /\ panel' = TRUE
        /\ spent' = spent + (IF ~panel THEN One ELSE 0)
        /\ enc_s' = IF did_encode THEN spent + (IF ~panel THEN One ELSE 0) ELSE 0
        /\ UNCHANGED <<cfg_idx, codes, did_encode, shared_buildtime, have_buildtime>>
    BY <1>0, <1>6, <2>1 DEF EncodePanel
  <2>3. /\ codes /\ did_encode = ~codes_cached_
        /\ panel = codes_cached_ /\ have_buildtime = codes_cached_
        /\ spent = IF did_encode THEN Eight ELSE 0
    BY <2>1 DEF BuildInv
  <2>4. codes' /\ have_buildtime' = ~did_encode'
        /\ enc_s' = IF did_encode' THEN Eight + One ELSE 0
    BY <1>0, <2>2, <2>3
  <2> QED BY <2>2, <2>4 DEF BuildInv, Building
<1>7. CASE NextQuery
  <2>1. /\ pc = "next" /\ pc' = "read" /\ have_buildtime' = TRUE
        /\ shared_buildtime' = (IF have_buildtime THEN shared_buildtime ELSE enc_s)
        /\ UNCHANGED <<codes, panel, codes_cached_>>
    BY <1>7 DEF NextQuery
  <2>2. /\ codes /\ panel /\ codes_cached_ /\ have_buildtime = ~did_encode
        /\ enc_s = IF did_encode THEN Eight + One ELSE 0
    BY <2>1 DEF BuildInv, Building
  <2>3. shared_buildtime' = Eight + One
    BY <1>0, <2>1, <2>2 DEF BuildInv
  <2> QED BY <1>0, <2>1, <2>2, <2>3 DEF BuildInv, Building
<1>8. CASE Restart
  BY <1>8 DEF Restart, BuildInv, Building
<1>9. CASE Stopped
  BY <1>9, <1>1 DEF Stopped
<1> QED BY <1>1, <1>2, <1>3, <1>4, <1>5, <1>6, <1>7, <1>8, <1>9 DEF Next, Step

-----------------------------------------------------------------------------
(* The graph a query builds.                                                *)

\* Whatever the index holds, the table and the passes are the line's.
RecipeInv ==
  pc \in Bound =>
    /\ recipe.leaf_k = Current.leaf_k /\ recipe.k_build = Current.k_build
    /\ recipe.passes + passes = Current.passes
    /\ pc \in {"create", "write"} => passes = 0

\* Which stages go by Hamming distance is the line's too, when the panel is
\* there for every query.
StageInv ==
  pc \in Bound =>
    /\ recipe.hamming = Current.hamming
    /\ recipe.filtered <=> recipe.passes > 0

LEMMA RecipeStays ==
  ASSUME RecipeInv, UNCHANGED <<base, lines, line_no, recipe, passes>>,
         pc' \in Bound => pc \in Bound,
         pc' \in {"create", "write"} => pc \in {"create", "write"} \/ passes = 0
  PROVE  RecipeInv'
<1>1. Current' = Current
  BY InputsFixed DEF Current
<1> QED BY <1>1 DEF RecipeInv, Bound

LEMMA StageStays ==
  ASSUME StageInv, UNCHANGED <<base, lines, line_no, recipe>>,
         pc' \in Bound => pc \in Bound
  PROVE  StageInv'
<1>1. Current' = Current
  BY InputsFixed DEF Current
<1> QED BY <1>1 DEF StageInv, Bound

\* Where a step may lead that neither sets the parameters nor makes a pass.
LEMMA Onwards ==
  ASSUME [Next]_vars, ~Parameters, ~Descend
  PROVE  /\ base' = base /\ lines' = lines
         /\ pc' \in Bound => /\ pc \in Bound
                             /\ UNCHANGED <<line_no, recipe, passes, panel>>
         /\ pc' \in {"create", "write"} => pc \in {"create", "write"} \/ passes = 0
<1>1. CASE UNCHANGED vars
  BY <1>1 DEF vars, process
<1>2. CASE Main \/ EndOfPortfolio \/ PanelFails \/ Kill \/ Restart
  BY <1>2 DEF Main, EndOfPortfolio, PanelFails, Kill, Restart, Bound
<1>3. CASE ReadLine
  BY <1>3 DEF ReadLine, Bound
<1>4. CASE Encode \/ EncodePanel \/ NextQuery
  BY <1>4 DEF Encode, EncodePanel, NextQuery, Bound
<1>5. CASE ClusterTrees \/ CopyToGraph \/ CreateFile \/ WriteFile
  BY <1>5 DEF ClusterTrees, CopyToGraph, CreateFile, WriteFile, process, Bound
<1>6. CASE Stopped
  BY <1>6, <1>1 DEF Stopped
<1> QED BY <1>1, <1>2, <1>3, <1>4, <1>5, <1>6 DEF Next, Step

\* A pass adds one to what was done and takes one from what is left.
LEMMA DescendFacts ==
  ASSUME Basics, Descend
  PROVE  /\ pc = "descend" /\ pc' = pc /\ UNCHANGED <<base, lines, line_no, panel>>
         /\ recipe'.leaf_k = recipe.leaf_k /\ recipe'.k_build = recipe.k_build
         /\ recipe'.hamming = recipe.hamming
         /\ recipe'.passes = recipe.passes + 1 /\ recipe'.filtered = panel
         /\ passes' = passes - 1 /\ passes \in Nat /\ recipe.passes \in Nat
<1>1. recipe \in Recipe /\ passes \in Nat
  <2>1. recipe \in Recipe /\ passes \in 0..30
    BY DEF Basics, Types
  <2> QED BY <2>1
<1>2. recipe.passes \in Nat
  BY <1>1 DEF Recipe
<1>3. recipe' = [recipe EXCEPT !.passes = @ + 1, !.filtered = panel]
  BY DEF Descend
<1>4. /\ recipe'.leaf_k = recipe.leaf_k /\ recipe'.k_build = recipe.k_build
      /\ recipe'.hamming = recipe.hamming
      /\ recipe'.passes = recipe.passes + 1 /\ recipe'.filtered = panel
  BY <1>1, <1>3 DEF Recipe
<1> QED BY <1>1, <1>2, <1>4 DEF Descend

LEMMA RecipeStep ==
  ASSUME Basics, RecipeInv, [Next]_vars
  PROVE  RecipeInv'
<1>1. CASE ~Parameters /\ ~Descend
  <2>1. ASSUME pc' \in Bound PROVE RecipeInv'
    BY <1>1, <2>1, Onwards, RecipeStays
  <2> QED BY <2>1 DEF RecipeInv
<1>2. CASE Parameters
  <2>1. /\ pc = "params" /\ pc' \in {"aborted", "trees"} /\ UNCHANGED <<base, lines, line_no>>
        /\ recipe'.leaf_k = LeafK /\ recipe'.k_build = KBuild /\ recipe'.passes = 0
        /\ passes' = getOptionIntValue(argv, "-nn_descent", 0)
    BY <1>2 DEF Parameters
  <2>2. /\ LeafK = Current.leaf_k /\ KBuild = Current.k_build
        /\ getOptionIntValue(argv, "-nn_descent", 0) = Current.passes
    BY <2>1, QueryFacts DEF Query
  <2>3. Current' = Current
    BY <2>1, InputsFixed DEF Current
  <2>4. Current.passes \in 0..30
    BY NumbersWanted DEF Current
  <2> QED BY <2>1, <2>2, <2>3, <2>4 DEF RecipeInv
<1>3. CASE Descend
  <2>1. Current' = Current
    BY <1>3, DescendFacts, InputsFixed DEF Current
  <2> QED BY <1>3, <2>1, DescendFacts DEF RecipeInv, Bound
<1> QED BY <1>1, <1>2, <1>3

LEMMA StageStep ==
  ASSUME Asking, Basics, BuildInv, StageInv, [Next]_vars
  PROVE  StageInv'
<1>1. CASE ~Parameters /\ ~Descend
  <2>1. ASSUME pc' \in Bound PROVE StageInv'
    BY <1>1, <2>1, Onwards, StageStays
  <2> QED BY <2>1 DEF StageInv
<1>2. CASE Parameters
  <2>1. /\ pc = "params" /\ UNCHANGED <<base, lines, line_no>>
        /\ recipe'.hamming = {f \in HammingStages : panel /\ getOption(argv, f)}
        /\ recipe'.passes = 0 /\ recipe'.filtered = FALSE
    BY <1>2 DEF Parameters
  <2>2. panel
    BY <2>1 DEF BuildInv, Building
  <2>3. Current.hamming = {base.hamming, lines[line_no].hamming} \ {Absent}
    BY DEF Current, Wanted
  <2>4. recipe'.hamming = Current.hamming
    BY <2>1, <2>2, <2>3, QueryFacts, StageFacts, AbsentIsNoFlag DEF Query, Flags
  <2>5. Current' = Current
    BY <2>1, InputsFixed DEF Current
  <2>6. recipe'.filtered <=> recipe'.passes > 0
    BY <2>1
  <2> QED BY <2>4, <2>5, <2>6 DEF StageInv
<1>3. CASE Descend
  <2>1. Current' = Current
    BY <1>3, DescendFacts, InputsFixed DEF Current
  <2>2. panel
    BY <1>3, DescendFacts DEF BuildInv, Building
  <2>3. recipe'.filtered /\ recipe'.passes > 0
    <3>1. PICK q, n : q = recipe' /\ q.filtered = panel /\ q.passes = n /\ n \in Nat \ {0}
      BY <1>3, DescendFacts
    <3> QED BY <2>2, <3>1
  <2>4. recipe'.hamming = Current.hamming
    BY <1>3, DescendFacts DEF StageInv, Bound
  <2> QED BY <2>1, <2>3, <2>4 DEF StageInv
<1> QED BY <1>1, <1>2, <1>3

-----------------------------------------------------------------------------
(* The finished files.                                                      *)

\* The steps that can change a finished file make it anew.
LEMMA FilesMade ==
  ASSUME Basics, [Next]_vars
  PROVE  \/ files' = files /\ (pc \in {"create", "write"} => pc' \in {pc, "aborted", "killed"})
         \/ \E n : /\ files' = [f \in DOMAIN files \cup {n} |->
                                 IF f = n THEN files'[n] ELSE files[f]]
                   /\ n = NameOf(lines[line_no]) /\ line_no \in Queries
                   /\ files'[n].line = line_no /\ line_no' = line_no
                   /\ \/ pc = "create" /\ pc' = "write" /\ files'[n].whole = FALSE
                      \/ /\ pc = "write" /\ pc' = "next" /\ files'[n].whole
                         /\ files'[n].recipe = recipe /\ files'[n].buildtime = buildtime
<1>1. CASE ~CreateFile /\ ~WriteFile
  <2>1. files' = files /\ (pc \in {"create", "write"} => pc' \in {pc, "aborted", "killed"})
    BY <1>1 DEF Next, vars, Step, Main, ReadLine, EndOfPortfolio, Encode, EncodePanel,
         PanelFails, Parameters, ClusterTrees, Descend, CopyToGraph, NextQuery, Kill,
         Restart, Stopped
  <2> QED BY <2>1
<1>2. CASE CreateFile
  <2>1. pc = "create" /\ line_no' = line_no /\ FileName = NameOf(lines[line_no])
        /\ line_no \in Queries
    BY <1>2, QueryFacts DEF CreateFile, process, Query
  <2>2. PICK n, e : n = FileName /\ e = [whole |-> FALSE, recipe |-> NoRecipe,
                                         buildtime |-> 0, line |-> line_no]
    OBVIOUS
  <2>3. CASE files' = files /\ pc' = "aborted"
    BY <2>3
  <2>4. CASE pc' = "write" /\ files' = [f \in DOMAIN files \cup {n} |->
                                         IF f = n THEN e ELSE files[f]]
    <3>1. files'[n] = e
      BY <2>4
    <3>2. e.whole = FALSE /\ e.line = line_no
      BY <2>2
    <3> QED BY <2>1, <2>2, <2>4, <3>1, <3>2
  <2> QED BY <1>2, <2>2, <2>3, <2>4 DEF CreateFile
<1>3. CASE WriteFile
  <2>1. pc = "write" /\ pc' = "next" /\ line_no' = line_no /\ FileName = NameOf(lines[line_no])
        /\ line_no \in Queries
    BY <1>3, QueryFacts DEF WriteFile, process, Query
  <2>2. PICK n, e : n = FileName /\ e = [whole |-> TRUE, recipe |-> recipe,
                                         buildtime |-> buildtime, line |-> line_no]
    OBVIOUS
  <2>3. files' = [files EXCEPT ![n] = e]
    BY <1>3, <2>2 DEF WriteFile
  <2>4. n \in DOMAIN files /\ files = [f \in DOMAIN files |-> files[f]]
    BY <2>1, <2>2 DEF Basics, NameInv, Types
  <2>5. files'[n] = e /\ files' = [f \in DOMAIN files \cup {n} |->
                                    IF f = n THEN e ELSE files[f]]
    BY <2>3, <2>4
  <2>6. e.line = line_no /\ e.whole /\ e.recipe = recipe /\ e.buildtime = buildtime
    BY <2>2
  <2> QED BY <2>1, <2>2, <2>5, <2>6
<1> QED BY <1>1, <1>2, <1>3

\* Every finished file is what its line wants, and says what the run's encoding took.
FilesInv ==
  \A f \in WholeFiles :
    /\ files[f].recipe = Wanted(lines[files[f].line])
    /\ files[f].buildtime = Eight + One

LEMMA FilesStep ==
  ASSUME Basics, BuildInv, RecipeInv, StageInv, FilesInv, Asking, [Next]_vars
  PROVE  FilesInv'
<1>1. base' = base /\ lines' = lines
  BY InputsNeverChange
<1>2. CASE files' = files
  BY <1>1, <1>2, InputsFixed DEF FilesInv, WholeFiles
<1>3. ASSUME NEW n, files' = [f \in DOMAIN files \cup {n} |->
                               IF f = n THEN files'[n] ELSE files[f]],
             \/ files'[n].whole = FALSE
             \/ /\ pc = "write" /\ files'[n].line = line_no
                /\ files'[n].recipe = recipe /\ files'[n].buildtime = buildtime
      PROVE  FilesInv'
  <2>1. \A f \in WholeFiles' : f = n \/ (f \in WholeFiles /\ files'[f] = files[f])
    BY <1>3 DEF WholeFiles
  <2>2. ASSUME n \in WholeFiles'
        PROVE  /\ files'[n].recipe = Wanted(lines[files'[n].line])
               /\ files'[n].buildtime = Eight + One
    <3>1. files'[n].whole
      BY <2>2 DEF WholeFiles
    <3>2. pc = "write" /\ files'[n].recipe = recipe /\ files'[n].buildtime = buildtime
          /\ files'[n].line = line_no
      BY <1>3, <3>1
    <3>3. recipe = Current
      <4>1. /\ recipe.leaf_k = Current.leaf_k /\ recipe.k_build = Current.k_build
            /\ recipe.passes + passes = Current.passes /\ passes = 0
            /\ recipe.hamming = Current.hamming /\ (recipe.filtered <=> recipe.passes > 0)
        BY <3>2 DEF RecipeInv, StageInv, Bound
      <4>2. recipe \in Recipe /\ recipe.passes \in Nat /\ recipe.filtered \in BOOLEAN
        BY DEF Basics, Types, Recipe
      <4>3. base \in Bases
        BY DEF Basics, Types
      <4>4. (Current.filtered <=> Current.passes > 0) /\ Current.filtered \in BOOLEAN
        BY <4>3 DEF Current, Wanted, Asking
      <4>5. Current = [leaf_k |-> Current.leaf_k, k_build |-> Current.k_build,
                       hamming |-> Current.hamming, passes |-> Current.passes,
                       filtered |-> Current.filtered]
        BY DEF Current, Wanted
      <4>6. recipe = [leaf_k |-> recipe.leaf_k, k_build |-> recipe.k_build,
                      hamming |-> recipe.hamming, passes |-> recipe.passes,
                      filtered |-> recipe.filtered]
        BY <4>2 DEF Recipe
      <4>7. recipe.passes = Current.passes
        BY <4>1, <4>2
      <4>8. recipe.filtered = Current.filtered
        BY <4>1, <4>2, <4>4, <4>7
      <4> QED BY <4>1, <4>5, <4>6, <4>7, <4>8
    <3>4. buildtime = Eight + One
      <4>1. /\ have_buildtime = ~did_encode
            /\ enc_s = IF did_encode THEN Eight + One ELSE 0
            /\ have_buildtime => shared_buildtime = Eight + One
        BY <3>2 DEF BuildInv, Building
      <4>2. did_encode \in BOOLEAN /\ have_buildtime \in BOOLEAN
        BY DEF Basics, Types
      <4> QED BY <4>1, <4>2 DEF buildtime
    <3> QED BY <3>2, <3>3, <3>4 DEF Current
  <2> QED BY <1>1, <2>1, <2>2, InputsFixed DEF FilesInv
<1> QED BY <1>2, <1>3, FilesMade

-----------------------------------------------------------------------------
(* The range of the leaf's k.                                               *)

\* No record asks for a leaf of 0 by -mst_deg, the value that is not refused.
NoZeroDegree == \A s \in Settings \cup Bases : LeafKNotZero(s)

Checked == {"descend", "create", "write"}

LeafInv ==
  /\ pc = "trees" => Current.leaf_k # 0
  /\ pc \in Checked => Current.leaf_k \in 3..15
  /\ \A f \in WholeFiles : Wanted(lines[files[f].line]).leaf_k \in 3..15

\* What passes the refusal of -leaf_k is not 0.
LEMMA NotRefused ==
  ASSUME NoZeroDegree, NEW s \in Settings, base \in Bases,
         ~(Pick(s, "leaf_k", Absent) # Absent /\ atoi(Pick(s, "leaf_k", Absent)) < 1)
  PROVE  Wanted(s).leaf_k # 0
<1>1. Wanted(s).leaf_k = Number(s, "leaf_k", Number(s, "mst_deg", 2))
  BY DEF Wanted
<1>2. CASE Pick(s, "leaf_k", Absent) # Absent
  BY <1>1, <1>2, Atoi DEF Number
<1>3. CASE Pick(s, "leaf_k", Absent) = Absent
  <2>1. Wanted(s).leaf_k = Number(s, "mst_deg", 2)
    BY <1>1, <1>3 DEF Number
  <2>2. LeafKNotZero(s) /\ LeafKNotZero(base)
    BY DEF NoZeroDegree
  <2>3. CASE s.mst_deg # Absent
    BY <2>1, <2>2, <2>3 DEF Number, Pick, LeafKNotZero
  <2>4. CASE s.mst_deg = Absent /\ base.mst_deg # Absent
    BY <2>1, <2>2, <2>4 DEF Number, Pick, LeafKNotZero
  <2>5. CASE s.mst_deg = Absent /\ base.mst_deg = Absent
    BY <2>1, <2>5 DEF Number, Pick
  <2> QED BY <2>3, <2>4, <2>5
<1> QED BY <1>2, <1>3

\* The steps that neither set the parameters nor check them.
LEMMA LeafOnwards ==
  ASSUME [Next]_vars, ~Parameters, ~ClusterTrees
  PROVE  /\ pc' = "trees" => pc = "trees" /\ line_no' = line_no
         /\ pc' \in Checked => pc \in Checked /\ line_no' = line_no
<1>1. CASE UNCHANGED vars
  BY <1>1 DEF vars, process
<1>2. CASE Main \/ EndOfPortfolio \/ PanelFails \/ Kill \/ Restart
  BY <1>2 DEF Main, EndOfPortfolio, PanelFails, Kill, Restart, Checked
<1>3. CASE ReadLine \/ Descend
  BY <1>3 DEF ReadLine, Descend, Checked
<1>4. CASE Encode \/ EncodePanel \/ NextQuery
  BY <1>4 DEF Encode, EncodePanel, NextQuery, Checked
<1>5. CASE CopyToGraph \/ CreateFile \/ WriteFile
  BY <1>5 DEF CopyToGraph, CreateFile, WriteFile, process, Checked
<1>6. CASE Stopped
  BY <1>6, <1>1 DEF Stopped
<1> QED BY <1>1, <1>2, <1>3, <1>4, <1>5, <1>6 DEF Next, Step

LEMMA LeafStep ==
  ASSUME NoZeroDegree, Basics, RecipeInv, LeafInv, [Next]_vars
  PROVE  LeafInv'
<1>1. base' = base /\ lines' = lines /\ base \in Bases
  BY InputsNeverChange DEF Basics, Types
<1>2. line_no' = line_no => Current' = Current
  BY <1>1, InputsFixed DEF Current
<1>3. \A f \in WholeFiles' : Wanted(lines[files'[f].line]).leaf_k \in 3..15
  <2>1. CASE files' = files
    BY <2>1 DEF LeafInv, WholeFiles
  <2>2. ASSUME NEW n, files' = [f \in DOMAIN files \cup {n} |->
                                 IF f = n THEN files'[n] ELSE files[f]],
               \/ files'[n].whole = FALSE
               \/ pc = "write" /\ files'[n].line = line_no
        PROVE  \A f \in WholeFiles' : Wanted(lines[files'[f].line]).leaf_k \in 3..15
    <3>1. \A f \in WholeFiles' : f = n \/ (f \in WholeFiles /\ files'[f] = files[f])
      BY <2>2 DEF WholeFiles
    <3>2. n \in WholeFiles' => Wanted(lines[files'[n].line]).leaf_k \in 3..15
      BY <2>2 DEF WholeFiles, LeafInv, Checked, Current
    <3> QED BY <3>1, <3>2 DEF LeafInv
  <2> QED BY <2>1, <2>2, FilesMade
<1>files. \A f \in WholeFiles' : (Wanted(lines[files[f].line]).leaf_k)' \in 3..15
  BY <1>1, <1>3, InputsFixed
<1>4. CASE ~Parameters /\ ~ClusterTrees
  <2>1. /\ pc' = "trees" => Current'.leaf_k # 0
        /\ pc' \in Checked => Current'.leaf_k \in 3..15
    BY <1>2, <1>4, LeafOnwards DEF LeafInv
  <2> QED BY <1>files, <2>1 DEF LeafInv
<1>5. CASE Parameters
  <2>1. /\ pc = "params" /\ line_no' = line_no /\ pc' \in {"aborted", "trees"}
        /\ pc' = "trees" => ~RefusesLeafK
    BY <1>5 DEF Parameters
  <2>2. PICK s \in Settings : s = lines[line_no]
    BY <2>1, QueryFacts DEF Query
  <2>3. pc' = "trees" => Current.leaf_k # 0
    BY <1>1, <2>1, <2>2, QueryFacts, NotRefused DEF Query, Current
  <2>4. pc' \notin Checked
    BY <2>1 DEF Checked
  <2>5. pc' = "trees" => Current'.leaf_k # 0
    BY <1>2, <2>1, <2>3
  <2> QED BY <1>files, <2>4, <2>5 DEF LeafInv
<1>6. CASE ClusterTrees
  <2>1. /\ pc = "trees" /\ line_no' = line_no
        /\ pc' = "aborted" \/ (pc' = "descend" /\ check_leaf_k(recipe.leaf_k))
    BY <1>6 DEF ClusterTrees, process
  <2>2. recipe.leaf_k = Current.leaf_k /\ Current.leaf_k # 0
    BY <2>1 DEF RecipeInv, LeafInv, Bound
  <2>3. pc' = "descend" => Current.leaf_k \in 3..15
    BY <2>1, <2>2 DEF check_leaf_k
  <2>4. pc' # "trees" /\ (pc' \in Checked => Current'.leaf_k \in 3..15)
    BY <1>2, <2>1, <2>3 DEF Checked
  <2> QED BY <1>files, <2>4 DEF LeafInv
<1> QED BY <1>4, <1>5, <1>6

-----------------------------------------------------------------------------
(* The end of a run.                                                        *)

\* The lines whose queries are over.
Handled == IF pc \in {"read", "next", "done"} THEN line_no
           ELSE IF pc \in Query THEN line_no - 1 ELSE 0

\* The file of line i is there, made by i or a later line of its name; it is
\* finished but for the one being written.
Kept(i) ==
  LET n == NameOf(lines[i])
  IN  /\ n \in DOMAIN files /\ files[n].line >= i
      /\ files[n].whole \/ (pc = "write" /\ n = NameOf(lines[line_no]))

DoneInv ==
  /\ pc = "done" => line_no = Len(lines)
  /\ base.output # Absent => \A i \in Queries : i <= Handled => Kept(i)

LEMMA DoneInit ==
  ASSUME Init PROVE DoneInv
<1>1. pc = "main" /\ Handled = 0
  BY DEF Init, Handled, Query
<1>2. \A i \in Queries : ~(i <= 0)
  <2>1. lines \in UNION {[1..n -> Settings] : n \in 1..MaxLines}
    BY DEF Init
  <2>2. Queries \subseteq 1..Len(lines) /\ Len(lines) \in Nat
    BY <2>1, LinesAreSettings DEF Queries
  <2> QED BY <2>2
<1> QED BY <1>1, <1>2 DEF DoneInv

\* Steps that leave the files alone and finish no query.
LEMMA KeptStays ==
  ASSUME Basics, DoneInv, UNCHANGED <<base, lines, files>>, pc # "write",
         pc' = "done" => line_no' = Len(lines),
         \A i \in Queries : i <= Handled' => i <= Handled
  PROVE  DoneInv'
<1>1. \A s : NameOf(s)' = NameOf(s)
  BY InputsFixed
<1>2. Queries' = Queries /\ lines' = lines
  BY InputsFixed
<1>3. ASSUME base.output # Absent, NEW i \in Queries, i <= Handled'
      PROVE  Kept(i)'
  <2>1. Kept(i)
    BY <1>3 DEF DoneInv
  <2>2. NameOf(lines[i])' = NameOf(lines[i])
    BY <1>1, <1>2
  <2> QED BY <2>1, <2>2 DEF Kept
<1> QED BY <1>2, <1>3 DEF DoneInv

LEMMA DoneStep ==
  ASSUME Basics, DoneInv, [Next]_vars
  PROVE  DoneInv'
<1>0. /\ base' = base /\ lines' = lines /\ Len(lines) \in Nat /\ line_no \in 0..Len(lines)
      /\ Queries \subseteq 1..Len(lines) /\ Queries' = Queries
      /\ \A s : NameOf(s)' = NameOf(s)
  BY InputsNeverChange, InputsFixed, LinesAreSettings DEF Basics, Types, Queries
<1>1. CASE UNCHANGED vars
  BY <1>0, <1>1 DEF vars, process, DoneInv, Handled, Kept
<1>2. CASE /\ files' = files /\ pc # "write"
           /\ \/ Handled' = Handled
              \/ Handled' = 0
              \/ line_no < Len(lines) /\ Handled' = line_no + 1 /\ Handled = line_no
                   /\ line_no + 1 \notin Queries
           /\ pc' = "done" => line_no' = Len(lines)
  BY <1>0, <1>2, KeptStays
<1>3. CASE Main \/ PanelFails \/ Restart
  <2>1. files' = files /\ pc \notin {"write", "done"} /\ pc' # "done"
    BY <1>3 DEF Main, PanelFails, Restart
  <2>2. Handled' = 0
    BY <1>3 DEF Main, PanelFails, Restart, Handled, Query, process, Basics, LineInv
  <2> QED BY <1>2, <2>1, <2>2
<1>4. CASE Kill
  <2>1. files' = files /\ pc' = "killed"
    BY <1>4 DEF Kill
  <2>2. Handled' = 0
    BY <2>1 DEF Handled, Query
  <2>3. \A i \in Queries : ~(i <= Handled')
    BY <1>0, <2>2
  <2> QED BY <1>0, <2>1, <2>3 DEF DoneInv
<1>5. CASE ReadLine
  <2>1. /\ pc = "read" /\ line_no < Len(lines) /\ line_no' = line_no + 1 /\ files' = files
        /\ IF lines[line_no + 1].comment THEN pc' = "read" ELSE pc' \in {"encode", "aborted"}
    BY <1>5 DEF ReadLine
  <2>2. Handled = line_no
    BY <2>1 DEF Handled
  <2>3. CASE lines[line_no + 1].comment
    <3>1. Handled' = line_no + 1 /\ line_no + 1 \notin Queries
      BY <2>1, <2>3 DEF Handled, Queries
    <3> QED BY <1>2, <2>1, <2>2, <2>3, <3>1
  <2>4. CASE ~lines[line_no + 1].comment
    <3>1. Handled' = line_no \/ Handled' = 0
      BY <1>0, <2>1, <2>4 DEF Handled, Query
    <3> QED BY <1>2, <2>1, <2>2, <2>4, <3>1
  <2> QED BY <2>3, <2>4
<1>6. CASE EndOfPortfolio
  <2>1. pc = "read" /\ line_no = Len(lines) /\ pc' = "done" /\ line_no' = line_no /\ files' = files
    BY <1>6 DEF EndOfPortfolio, process
  <2>2. Handled' = Handled
    BY <2>1 DEF Handled
  <2> QED BY <1>2, <2>1, <2>2
<1>7. CASE Encode \/ EncodePanel \/ Parameters \/ ClusterTrees \/ Descend
  <2>1. /\ pc \in Query \ {"next", "write"} /\ pc' \in (Query \ {"next", "write"}) \cup {"aborted"}
        /\ line_no' = line_no /\ files' = files
    BY <1>7 DEF Encode, EncodePanel, Parameters, ClusterTrees, Descend, process, Query
  <2>2. Handled' = Handled \/ Handled' = 0
    BY <2>1 DEF Handled, Query
  <2>3. pc # "write" /\ pc' # "done"
    BY <2>1 DEF Query
  <2> QED BY <1>2, <2>1, <2>2, <2>3
<1>8. CASE CopyToGraph
  <2>1. /\ pc = "descend" /\ line_no' = line_no /\ files' = files
        /\ pc' = IF base.output # Absent THEN "create" ELSE "next"
    BY <1>8, QueryFacts DEF CopyToGraph, Query
  <2>2. CASE base.output # Absent
    <3>1. Handled' = Handled
      BY <2>1, <2>2 DEF Handled, Query
    <3> QED BY <1>2, <2>1, <2>2, <3>1
  <2>3. CASE base.output = Absent
    BY <1>0, <2>1, <2>3 DEF DoneInv
  <2> QED BY <2>2, <2>3
<1>9. CASE NextQuery
  <2>1. pc = "next" /\ pc' = "read" /\ line_no' = line_no /\ files' = files
    BY <1>9 DEF NextQuery
  <2>2. Handled' = Handled
    BY <2>1 DEF Handled
  <2> QED BY <1>2, <2>1, <2>2
<1>10. CASE CreateFile \/ WriteFile
  <2>1. /\ line_no' = line_no
        /\ \/ pc = "create" /\ pc' \in {"write", "aborted"}
           \/ pc = "write" /\ pc' = "next"
    <3>1. CASE CreateFile
      <4>1. pc = "create" /\ pc' \in {"write", "aborted"} /\ UNCHANGED process
        BY <3>1 DEF CreateFile
      <4> QED BY <4>1 DEF process
    <3>2. CASE WriteFile
      BY <3>2 DEF WriteFile, process
    <3> QED BY <1>10, <3>1, <3>2
  <2>2. CASE files' = files /\ pc = "create" /\ pc' = "aborted"
    <3>1. Handled' = 0
      BY <2>2 DEF Handled, Query
    <3> QED BY <1>2, <2>2, <3>1
  <2>3. ASSUME NEW n, files' = [f \in DOMAIN files \cup {n} |->
                                 IF f = n THEN files'[n] ELSE files[f]],
               n = NameOf(lines[line_no]), files'[n].line = line_no,
               (pc = "create" /\ pc' = "write") \/ (pc' = "next" /\ files'[n].whole),
               line_no' = line_no
        PROVE  DoneInv'
    <3>1. /\ n \in DOMAIN files' /\ DOMAIN files \subseteq DOMAIN files'
          /\ \A f \in DOMAIN files : f # n => files'[f] = files[f]
      BY <2>3
    <3>2. ASSUME base.output # Absent, NEW i \in Queries, i <= Handled'
          PROVE  Kept(i)'
      <4>1. i <= line_no /\ i \in Int /\ line_no \in Int
        BY <1>0, <2>3, <3>2 DEF Handled, Query
      <4>2. NameOf(lines[i])' = NameOf(lines[i]) /\ NameOf(lines[line_no])' = n
        BY <1>0, <2>3
      <4>3. CASE NameOf(lines[i]) = n
        BY <2>3, <3>1, <4>1, <4>2, <4>3 DEF Kept
      <4>4. CASE NameOf(lines[i]) # n
        <5>1. i # line_no
          BY <2>3, <4>4
        <5>2. i <= Handled
          BY <1>0, <2>1, <2>3, <4>1, <5>1 DEF Handled, Query
        <5>3. Kept(i)
          BY <3>2, <5>2 DEF DoneInv
        <5>4. /\ NameOf(lines[i]) \in DOMAIN files /\ files[NameOf(lines[i])].line >= i
              /\ files[NameOf(lines[i])].whole
          BY <2>3, <4>4, <5>3 DEF Kept
        <5>5. PICK q : q = NameOf(lines[i]) /\ NameOf(lines[i])' = q
          BY <4>2
        <5>6. q \in DOMAIN files' /\ files'[q].line >= i /\ files'[q].whole
          <6>1. q # n /\ q \in DOMAIN files
            BY <4>4, <5>4, <5>5
          <6>2. PICK e : e = files[q] /\ e.line >= i /\ e.whole
            BY <5>4, <5>5
          <6>3. q \in DOMAIN files' /\ files'[q] = e
            BY <3>1, <6>1, <6>2
          <6> QED BY <6>2, <6>3
        <5> QED BY <5>5, <5>6 DEF Kept
      <4> QED BY <4>3, <4>4
    <3>3. pc' # "done"
      BY <2>3
    <3> QED BY <1>0, <3>2, <3>3 DEF DoneInv
  <2>4. CASE files' = files /\ (pc \in {"create", "write"} => pc' \in {pc, "aborted", "killed"})
    BY <2>1, <2>2, <2>4
  <2>5. CASE ~(files' = files /\ (pc \in {"create", "write"} => pc' \in {pc, "aborted", "killed"}))
    <3>1. PICK n : /\ files' = [f \in DOMAIN files \cup {n} |->
                                 IF f = n THEN files'[n] ELSE files[f]]
                   /\ n = NameOf(lines[line_no]) /\ files'[n].line = line_no
                   /\ line_no' = line_no
                   /\ \/ pc = "create" /\ pc' = "write" /\ files'[n].whole = FALSE
                      \/ /\ pc = "write" /\ pc' = "next" /\ files'[n].whole
                         /\ files'[n].recipe = recipe /\ files'[n].buildtime = buildtime
      BY <2>5, FilesMade
    <3>2. (pc = "create" /\ pc' = "write") \/ (pc' = "next" /\ files'[n].whole)
      BY <3>1
    <3> QED BY <2>3, <3>1, <3>2
  <2> QED BY <2>4, <2>5
<1>11. CASE Stopped
  BY <1>11, <1>1 DEF Stopped
<1> QED BY <1>1, <1>3, <1>4, <1>5, <1>6, <1>7, <1>8, <1>9, <1>10, <1>11 DEF Next, Step

-----------------------------------------------------------------------------
(* The theorems.                                                            *)

\* What holds of every run.
PlainInv == Basics /\ RecipeInv /\ DoneInv

LEMMA PlainHolds == Spec => []PlainInv
<1>1. Init => PlainInv
  <2> SUFFICES ASSUME Init PROVE PlainInv
    OBVIOUS
  <2>1. RecipeInv
    BY DEF Init, RecipeInv, Bound
  <2> QED BY <2>1, BasicsInit, DoneInit DEF PlainInv
<1>2. PlainInv /\ [Next]_vars => PlainInv'
  BY BasicsStep, RecipeStep, DoneStep DEF PlainInv
<1> QED BY <1>1, <1>2, PTL DEF Spec

\* When a run ends on its own, every query of its portfolio has a finished
\* file, and the last line of a name has written it, however often the run was
\* killed before (ANN, write_sisap_result): for every portfolio and command
\* line, in current or legacy spelling.
THEOREM EndsComplete == Spec => []DoneMeansAllThere
<1>1. PlainInv => DoneMeansAllThere
  <2> SUFFICES ASSUME PlainInv PROVE DoneMeansAllThere
    OBVIOUS
  <2>1. Basics /\ DoneInv
    BY DEF PlainInv
  <2>2. TypeOK
    <3>1. /\ work = (IF codes THEN Eight ELSE 0) + (IF panel THEN One ELSE 0)
          /\ spent \in 0..work /\ Eight = 4 /\ One = 1
      BY <2>1 DEF Basics, WorkInv, Eight, One
    <3>2. work \in 0..(Eight + One)
      BY <2>1, <3>1 DEF Basics, Types
    <3>3. spent \in 0..(Eight + One) /\ work \in spent..(Eight + One)
      BY <3>1, <3>2
    <3>4. recipe.leaf_k \in 0..30 /\ recipe.k_build \in 0..30 \cup {K}
      BY <2>1 DEF Basics, Types, Recipe
    <3>5. \A f \in DOMAIN files : files[f].line \in Queries
      BY <2>1 DEF Basics, NameInv
    <3>6. pc \in {"main", "read", "encode", "panel", "params", "trees", "descend",
                  "create", "write", "next", "done", "refused", "aborted", "killed"}
      BY <2>1 DEF Basics, Types, Place, Query
    <3> QED BY <2>1, <3>3, <3>4, <3>5, <3>6 DEF TypeOK, Basics, Types
  <2>3. ASSUME pc = "done", base.output # Absent, NEW i \in Queries
        PROVE  NameOf(lines[i]) \in WholeFiles /\ files[NameOf(lines[i])].line >= i
    <3>1. Handled = Len(lines)
      BY <2>1, <2>3 DEF DoneInv, Handled
    <3>2. i <= Handled
      BY <2>1, <3>1, LinesAreSettings DEF Queries, Basics, Types
    <3>3. Kept(i)
      BY <2>1, <2>3, <3>2 DEF DoneInv
    <3> QED BY <2>3, <3>3 DEF Kept, WholeFiles
  <2> QED BY <2>2, <2>3 DEF DoneMeansAllThere
<1> QED BY <1>1, PlainHolds, PTL

\* What holds when the command line asks for the panel.
AskingInv == Basics /\ RecipeInv /\ BuildInv /\ StageInv /\ FilesInv

LEMMA AskingHolds == Asking => (Spec => []AskingInv)
<1> SUFFICES ASSUME Asking PROVE Spec => []AskingInv
  OBVIOUS
<1>1. Init => AskingInv
  <2> SUFFICES ASSUME Init PROVE AskingInv
    OBVIOUS
  <2>1. RecipeInv /\ StageInv
    BY DEF Init, RecipeInv, StageInv, Bound
  <2>2. FilesInv
    BY DEF Init, FilesInv, WholeFiles
  <2> QED BY <2>1, <2>2, BasicsInit, BuildInit DEF AskingInv
<1>2. AskingInv /\ [Next]_vars => AskingInv'
  BY BasicsStep, RecipeStep, BuildStep, StageStep, FilesStep DEF AskingInv
<1> QED BY <1>1, <1>2, PTL DEF Spec

\* When the command line asks for the 1-bit panel, as README.md's and
\* verify/run_corpus.sh's do, a finished file holds the graph its own line asks for,
\* under the line's name, whatever the queries before it left in the shared
\* index (ANN, build_topk).
THEOREM ResultsAreTheirLines ==
  ASSUME \A b \in Bases : AsksForPanel(b)
  PROVE  Spec => []ResultsMatchTheirLine
<1>1. AskingInv => ResultsMatchTheirLine
  BY DEF AskingInv, Basics, NameInv, FilesInv, ResultsMatchTheirLine, WholeFiles
<1>2. Asking
  BY DEF Asking
<1> QED BY <1>1, <1>2, AskingHolds, PTL

\* Under the same command lines every finished file gives the encoding of the
\* run as its buildtime, also after the run was killed and started again
\* (build_topk, ANN).
THEOREM BuildtimesAreTheEncoding ==
  ASSUME \A b \in Bases : AsksForPanel(b)
  PROVE  Spec => []BuildtimeIsTheEncoding
<1>1. AskingInv => BuildtimeIsTheEncoding
  BY DEF AskingInv, Basics, Types, FilesInv, BuildtimeIsTheEncoding
<1>2. Asking
  BY DEF Asking
<1> QED BY <1>1, <1>2, AskingHolds, PTL

\* neighbors.h says that the encode happens on the first query only.  It does
\* when the command line asks for the panel; when only a line does, the run
\* PortfolioPanel shows a later query at it (build_topk).
THEOREM EncodesFirst ==
  ASSUME \A b \in Bases : AsksForPanel(b)
  PROVE  Spec => EncodeOnFirstQueryOnly
<1>1. AskingInv /\ [Next]_vars => [work' > work => cfg_idx = 0]_vars
  <2> SUFFICES ASSUME AskingInv, [Next]_vars, work' > work PROVE cfg_idx = 0
    OBVIOUS
  <2>1. Basics /\ BuildInv /\ work \in Nat
    BY DEF AskingInv, Basics, WorkInv, Eight, One
  <2>2. CASE Encode
    <3>1. pc = "encode" /\ (codes => work' = work)
      BY <2>2 DEF Encode
    <3> QED BY <2>1, <3>1 DEF BuildInv
  <2>3. CASE EncodePanel
    <3>1. pc = "panel" /\ (panel => work' = work + 0)
      BY <2>3 DEF EncodePanel
    <3>2. ~panel
      BY <2>1, <3>1
    <3> QED BY <2>1, <3>1, <3>2 DEF BuildInv
  <2>4. CASE ~Encode /\ ~EncodePanel
    <3>1. work' = work \/ work' = 0
      BY <2>4 DEF Next, vars, process, Step, Main, ReadLine, EndOfPortfolio, PanelFails,
         Parameters, ClusterTrees, Descend, CopyToGraph, CreateFile, WriteFile, NextQuery,
         Kill, Restart, Stopped
    <3> QED BY <2>1, <3>1
  <2> QED BY <2>2, <2>3, <2>4
<1>2. Asking
  BY DEF Asking
<1> QED BY <1>1, <1>2, AskingHolds, PTL DEF Spec, EncodeOnFirstQueryOnly

\* Outside the range of leaf_k the program leaves no finished file, provided no
\* line and no command line asks for a leaf of 0 by -mst_deg, the one value
\* that is neither refused nor checked (rsq_knn, check_leaf_k).
THEOREM ResultsAreInRange ==
  ASSUME \A s \in Settings \cup Bases : LeafKNotZero(s)
  PROVE  Spec => []NoResultOutsideRange
<1>0. NoZeroDegree
  BY DEF NoZeroDegree
<1>1. Init => LeafInv
  BY DEF Init, LeafInv, WholeFiles, Checked
<1>2. PlainInv /\ LeafInv /\ [Next]_vars => LeafInv'
  BY <1>0, LeafStep DEF PlainInv
<1>3. LeafInv => NoResultOutsideRange
  BY DEF LeafInv, NoResultOutsideRange
<1> QED BY <1>1, <1>2, <1>3, PlainHolds, PTL DEF Spec
=============================================================================
