----------------------- MODULE RegisterMapWalk_proofs -----------------------
(***************************************************************************)
(* The address decoder and the array functions for every word of the bus   *)
(* and every length of an array, and the field accessors for every word    *)
(* and every field.                                                        *)
(***************************************************************************)
EXTENDS RegisterMapWalk, NaturalsInduction, WellFoundedInduction,
        SequenceTheorems, TLAPS

(* ------------------------------ the walk ------------------------------- *)

WalkTypeInv ==
  /\ word \in Words
  /\ call \in Calls

\* A walk begins and returns within its bounds.
LEMMA Homes == CsrBase \in Words /\ CallHome \in Calls
<1>1. CsrBase \in Words
  BY SMT DEF CsrBase, Words
<1>2. 1 \in 1 .. MaxArray
  BY WalkAssumption, SMT
<1> QED
  BY <1>1, <1>2 DEF Calls, CallHome

\* The words and arrays looked at are the ones there are.
LEMMA WalkTyped == WalkSpec => []WalkTypeInv
<1>1. WalkInit => WalkTypeInv
  BY Homes DEF WalkInit, AtHome, WalkTypeInv
<1>2. WalkTypeInv /\ [WalkNext]_<< adr, word, call >> => WalkTypeInv'
  <2> SUFFICES ASSUME WalkTypeInv, [WalkNext]_<< adr, word, call >> PROVE WalkTypeInv'
    OBVIOUS
  <2>1. CASE LookHk
    BY <2>1 DEF LookHk, WalkTypeInv
  <2>2. CASE LookBus
    BY <2>2, WalkAssumption DEF LookBus, WalkTypeInv
  <2>3. CASE MoveArray
    BY <2>3 DEF MoveArray, WalkTypeInv
  <2>4. CASE Return
    BY <2>4, Homes DEF Return, WalkTypeInv
  <2>5. CASE UNCHANGED << adr, word, call >>
    BY <2>5 DEF WalkTypeInv
  <2> QED
    BY <2>1, <2>2, <2>3, <2>4, <2>5 DEF WalkNext
<1> QED
  BY <1>1, <1>2, PTL DEF WalkSpec

(* ---------------------------- the bus map ------------------------------ *)

\* The word at which each slave's part of the bus begins, and the word behind it.
First == [debug |-> \h3c03c000, dff |-> 0, dff2 |-> 256, flash |-> \h04000000,
          mprj |-> \h0c000000, hk |-> \h09800000, csr |-> \h3c000000]
Behind == [debug |-> \h3c03c040, dff |-> 256, dff2 |-> 384, flash |-> \h04400000,
           mprj |-> \h10000000, hk |-> \h09900000, csr |-> \h3c004000]

\* The decoder selects a slave in one stretch of words, and the stretches are apart.
LEMMA Stretches ==
  ASSUME NEW s \in Slaves, NEW a \in Words
  PROVE  slave_sel(s, a) <=> First[s] <= a /\ a < Behind[s]
<1>1. CASE s = "debug"
  BY <1>1, SMT DEF Words, slave_sel, Decode, First, Behind
<1>2. CASE s = "dff"
  BY <1>2, SMT DEF Words, slave_sel, Decode, First, Behind
<1>3. CASE s = "dff2"
  BY <1>3, SMT DEF Words, slave_sel, Decode, First, Behind
<1>4. CASE s = "flash"
  BY <1>4, SMT DEF Words, slave_sel, Decode, First, Behind
<1>5. CASE s = "mprj"
  BY <1>5, SMT DEF Words, slave_sel, Decode, First, Behind
<1>6. CASE s = "hk"
  BY <1>6, SMT DEF Words, slave_sel, Decode, First, Behind
<1>7. CASE s = "csr"
  BY <1>7, SMT DEF Words, slave_sel, Decode, First, Behind
<1> QED
  BY <1>1, <1>2, <1>3, <1>4, <1>5, <1>6, <1>7 DEF Slaves

\* No word lies in two of the stretches.
LEMMA StretchesApart ==
  ASSUME NEW s \in Slaves, NEW t \in Slaves, NEW a \in Words,
         slave_sel(s, a), slave_sel(t, a)
  PROVE  s = t
<1>1. First[s] <= a /\ a < Behind[s] /\ First[t] <= a /\ a < Behind[t]
  BY Stretches
<1>2. a \in Int
  BY SMT DEF Words
<1>3. CASE s = "debug"
  BY <1>1, <1>2, <1>3, SMT DEF Slaves, First, Behind
<1>4. CASE s = "dff"
  BY <1>1, <1>2, <1>4, SMT DEF Slaves, First, Behind
<1>5. CASE s = "dff2"
  BY <1>1, <1>2, <1>5, SMT DEF Slaves, First, Behind
<1>6. CASE s = "flash"
  BY <1>1, <1>2, <1>6, SMT DEF Slaves, First, Behind
<1>7. CASE s = "mprj"
  BY <1>1, <1>2, <1>7, SMT DEF Slaves, First, Behind
<1>8. CASE s = "hk"
  BY <1>1, <1>2, <1>8, SMT DEF Slaves, First, Behind
<1>9. CASE s = "csr"
  BY <1>1, <1>2, <1>9, SMT DEF Slaves, First, Behind
<1> QED
  BY <1>3, <1>4, <1>5, <1>6, <1>7, <1>8, <1>9 DEF Slaves

\* A region lies in the stretch of its slave.
LEMMA RegionInStretch ==
  ASSUME NEW r \in Regions, NEW a \in Words, a \in r[2] .. r[2] + r[3] - 1
  PROVE  r[1] \in Slaves /\ slave_sel(r[1], a)
<1>1. r[1] \in Slaves
  BY SMT DEF Regions, Slaves
<1>2. First[r[1]] <= a /\ a < Behind[r[1]]
  BY SMT DEF Regions, First, Behind
<1> QED
  BY <1>1, <1>2, Stretches

\* The debug registers are the user project's, the left-over ones nobody's.
LEMMA FixedRegisters ==
  ASSUME NEW a \in Words
  PROVE  /\ a \in DebugRegs => slave_sel("mprj", a)
         /\ a \in LeftOverRegs => \A s \in Slaves : ~slave_sel(s, a)
<1>1. ASSUME a \in DebugRegs PROVE slave_sel("mprj", a)
  <2>1. "mprj" \in Slaves
    BY DEF Slaves
  <2>2. First["mprj"] <= a /\ a < Behind["mprj"]
    BY <1>1, SMT DEF DebugRegs, First, Behind
  <2> QED
    BY <2>1, <2>2, Stretches
<1>2. ASSUME a \in LeftOverRegs, NEW s \in Slaves PROVE ~slave_sel(s, a)
  <2>1. ~(First[s] <= a /\ a < Behind[s])
    BY <1>2, SMT DEF LeftOverRegs, Slaves, First, Behind
  <2> QED
    BY <2>1, Stretches
<1> QED
  BY <1>1, <1>2

\* slave_sel of mgmt_core.v against mem.h and defs.h, for every word of the bus:
\* one slave at most answers, every region of mem.h is its slave's throughout,
\* and the registers at fixed addresses reach the user project or nobody.
THEOREM EveryWordMapped == WalkSpec => []BusMapTrue
<1>1. WalkTypeInv => BusMapTrue
  <2> SUFFICES ASSUME word \in Words PROVE BusMapTrue
    BY DEF WalkTypeInv
  <2> DEFINE sel == {s \in Slaves : slave_sel(s, word)}
  <2>1. \A s, t \in sel : s = t
    BY StretchesApart
  <2>2. ASSUME NEW r \in Regions, word \in r[2] .. r[2] + r[3] - 1 PROVE sel = {r[1]}
    <3>1. r[1] \in sel
      BY <2>2, RegionInStretch
    <3> QED
      BY <2>1, <3>1
  <2>3. word \in DebugRegs => sel = {"mprj"}
    <3>1. "mprj" \in Slaves
      BY DEF Slaves
    <3> QED
      BY <2>1, <3>1, FixedRegisters
  <2>4. word \in LeftOverRegs => sel = {}
    BY FixedRegisters
  <2> QED
    BY <2>1, <2>2, <2>3, <2>4 DEF BusMapTrue
<1> QED
  BY <1>1, WalkTyped, PTL

(* ------------------------------ flattening ----------------------------- *)

\* A set of naturals has a least element, and so induction on a set holds.
LEMMA LeastElement ==
  ASSUME NEW T, T \subseteq Nat, T # {}
  PROVE  \E x \in T : \A y \in T : x <= y
<1>1. IsWellFoundedOn(OpToRel(<, Nat), Nat)
  BY NatLessThanWellFounded
<1>2. PICK x \in T : \A y \in T : ~(<< y, x >> \in OpToRel(<, Nat))
  BY <1>1, WFMin
<1>3. \A y \in T : ~(y < x)
  BY <1>2 DEF OpToRel
<1> QED
  BY <1>3

LEMMA Induction ==
  ASSUME NEW T, 0 \in T, \A n \in Nat : n \in T => n + 1 \in T
  PROVE  \A n \in Nat : n \in T
<1> SUFFICES ASSUME NEW m \in Nat, m \notin T PROVE FALSE
  OBVIOUS
<1>1. PICK x \in Nat \ T : \A y \in Nat \ T : x <= y
  BY LeastElement
<1>2. x # 0 /\ x - 1 \in Nat
  BY <1>1
<1>3. x - 1 \in T
  BY <1>1, <1>2
<1> QED
  BY <1>1, <1>2, <1>3


\* The first p elements of r.
LEMMA PrefixIsSeq ==
  ASSUME NEW S, NEW m \in Nat, NEW r \in [1 .. m -> S], NEW p \in 0 .. m
  PROVE  [j \in 1 .. p |-> r[j]] \in Seq(S) /\ Len([j \in 1 .. p |-> r[j]]) = p
<1> DEFINE a == [j \in 1 .. p |-> r[j]]
<1>1. a \in [1 .. p -> S]
  OBVIOUS
<1> HIDE DEF a
<1>2. a \in Seq(S) /\ Len(a) = p
  BY <1>1, IsASeq
<1> QED
  BY <1>2 DEF a

\* A sequence t behind the first p elements of r.
LEMMA PrefixStep ==
  ASSUME NEW S, NEW m \in Nat, NEW r \in [1 .. m -> S], NEW p \in Nat, NEW t \in Seq(S),
         p + Len(t) <= m, \A j \in 1 .. Len(t) : r[p + j] = t[j]
  PROVE  [j \in 1 .. p + Len(t) |-> r[j]] = [j \in 1 .. p |-> r[j]] \o t
<1> DEFINE a == [j \in 1 .. p |-> r[j]]
           b == [j \in 1 .. p + Len(t) |-> r[j]]
           c == a \o t
<1>1. a \in Seq(S) /\ Len(a) = p /\ Len(t) \in Nat
  <2>1. Len(t) \in Nat
    OBVIOUS
  <2>2. p \in 0 .. m
    BY <2>1
  <2> QED
    BY <2>1, <2>2, PrefixIsSeq
<1>2. b \in Seq(S) /\ Len(b) = p + Len(t)
  <2>1. p + Len(t) \in 0 .. m
    BY <1>1
  <2> DEFINE q == p + Len(t)
  <2> HIDE DEF q
  <2>2. [j \in 1 .. q |-> r[j]] \in Seq(S) /\ Len([j \in 1 .. q |-> r[j]]) = q
    BY <2>1, PrefixIsSeq DEF q
  <2> QED
    BY <2>2 DEF q
<1>3. \A j \in 1 .. p : a[j] = r[j]
  OBVIOUS
<1>4. \A j \in 1 .. p + Len(t) : b[j] = r[j]
  OBVIOUS
<1> HIDE DEF a, b
<1>5. c \in Seq(S) /\ Len(c) = p + Len(t)
  BY <1>1, ConcatProperties
<1>6. ASSUME NEW j \in 1 .. p + Len(t) PROVE b[j] = c[j]
  <2>1. CASE j <= p
    <3>1. j \in 1 .. p
      BY <1>1, <2>1
    <3>2. c[j] = a[j]
      BY <1>1, <2>1, ConcatProperties
    <3> QED
      BY <1>3, <1>4, <3>1, <3>2
  <2>2. CASE j > p
    <3>1. j - p \in 1 .. Len(t) /\ p + (j - p) = j
      BY <1>1, <2>2
    <3>2. c[j] = t[j - p]
      BY <1>1, <2>2, ConcatProperties
    <3>3. r[p + (j - p)] = t[j - p]
      BY <3>1
    <3> QED
      BY <1>4, <3>1, <3>2, <3>3
  <2> QED
    BY <1>1, <2>1, <2>2
<1> HIDE DEF c
<1>7. b = c
  BY <1>1, <1>2, <1>5, <1>6, SeqEqual
<1> QED
  BY <1>7 DEF a, b, c

\* s is n sequences, and the first k of them are pos[k] elements together.
Lined(S, n, s, pos) ==
  /\ s \in [1 .. n -> Seq(S)] /\ pos \in [0 .. n -> Nat] /\ pos[0] = 0
  /\ \A k \in 1 .. n : pos[k] = pos[k - 1] + Len(s[k]) /\ pos[k] <= pos[n]

\* r has each of them at its place.
Laid(n, s, pos, r) ==
  \A k \in 1 .. n : \A j \in 1 .. Len(s[k]) : r[pos[k - 1] + j] = s[k][j]

\* FlattenSeq is what has each of the sequences at its place.
LEMMA Flattened ==
  ASSUME NEW S, NEW n \in Nat \ {0}, NEW s, NEW pos, Lined(S, n, s, pos),
         NEW r \in [1 .. pos[n] -> S], Laid(n, s, pos, r)
  PROVE  FlattenSeq(s) = r
<1> DEFINE Step(f) == [i \in 1 .. Len(s) |-> IF i = 1 THEN s[i] ELSE f[i - 1] \o s[i]]
           flatten == CHOOSE f : f = Step(f)
           Prefix == [k \in 1 .. n |-> [j \in 1 .. pos[k] |-> r[j]]]
<1>0. s \in [1 .. n -> Seq(S)] /\ pos \in [0 .. n -> Nat] /\ pos[0] = 0
  BY DEF Lined
<1>1. Len(s) = n
  BY <1>0
<1>2. FlattenSeq(s) = flatten[n]
  BY <1>1 DEF FlattenSeq
<1>3. pos[n] \in Nat
  BY <1>0
<1>4. ASSUME NEW k \in 1 .. n
      PROVE  [j \in 1 .. pos[k] |-> r[j]] = [j \in 1 .. pos[k - 1] |-> r[j]] \o s[k]
  <2> DEFINE p == pos[k - 1]
             m == pos[n]
             t == s[k]
  <2>1. p \in Nat /\ t \in Seq(S) /\ m \in Nat /\ r \in [1 .. m -> S]
    BY <1>0, <1>3
  <2>2. pos[k] = p + Len(t) /\ p + Len(t) <= m
    BY DEF Lined
  <2>3. \A j \in 1 .. Len(t) : r[p + j] = t[j]
    BY DEF Laid
  <2> HIDE DEF p, m, t
  <2>4. [j \in 1 .. p + Len(t) |-> r[j]] = [j \in 1 .. p |-> r[j]] \o t
    BY <2>1, <2>2, <2>3, PrefixStep
  <2> QED
    BY <2>2, <2>4 DEF p, t
<1>5. Prefix[1] = s[1]
  <2>1. 1 \in 1 .. n /\ s[1] \in Seq(S)
    BY <1>0
  <2>2. Prefix[1] = [j \in 1 .. pos[0] |-> r[j]] \o s[1]
    <3>1. [j \in 1 .. pos[1] |-> r[j]] = [j \in 1 .. pos[1 - 1] |-> r[j]] \o s[1]
      BY <1>4, <2>1
    <3>2. 1 - 1 = 0 /\ Prefix[1] = [j \in 1 .. pos[1] |-> r[j]]
      BY <2>1
    <3> QED
      BY <3>1, <3>2
  <2>3. [j \in 1 .. pos[0] |-> r[j]] = << >>
    BY <1>0
  <2>4. << >> \o s[1] = s[1]
    BY <2>1
  <2> QED
    BY <2>2, <2>3, <2>4
<1>6. ASSUME NEW k \in 2 .. n PROVE Prefix[k] = Prefix[k - 1] \o s[k]
  <2>1. k \in 1 .. n /\ k - 1 \in 1 .. n
    OBVIOUS
  <2>2. Prefix[k] = [j \in 1 .. pos[k] |-> r[j]]
    BY <2>1
  <2>3. Prefix[k - 1] = [j \in 1 .. pos[k - 1] |-> r[j]]
    BY <2>1
  <2> QED
    BY <1>4, <2>1, <2>2, <2>3
<1>7. DOMAIN Prefix = 1 .. n
  OBVIOUS
<1> HIDE DEF Prefix
<1>8. Prefix = Step(Prefix)
  <2>1. Prefix = [i \in 1 .. n |-> Prefix[i]]
    <3>1. \A i \in 1 .. n : Prefix[i] = [j \in 1 .. pos[i] |-> r[j]]
      BY DEF Prefix
    <3> QED
      BY <3>1 DEF Prefix
  <2>2. ASSUME NEW i \in 1 .. n
        PROVE  Prefix[i] = IF i = 1 THEN s[i] ELSE Prefix[i - 1] \o s[i]
    <3>1. CASE i = 1
      BY <1>5, <3>1
    <3>2. CASE i # 1
      <4>1. i \in 2 .. n
        BY <3>2
      <4>2. Prefix[i] = Prefix[i - 1] \o s[i]
        BY <1>6, <4>1
      <4> QED
        BY <3>2, <4>2
    <3> QED
      BY <3>1, <3>2
  <2> QED
    BY <1>1, <2>1, <2>2
<1>9. flatten = Step(flatten)
  <2> HIDE DEF Step
  <2> QED
    BY <1>8
<1> HIDE DEF flatten
<1> DEFINE Known == {k \in Nat : k \in 1 .. n => flatten[k] = Prefix[k]}
<1>10. \A k \in Nat : k \in Known
  <2>1. 0 \in Known
    OBVIOUS
  <2>2. ASSUME NEW k \in Nat, k \in Known PROVE k + 1 \in Known
    <3> SUFFICES ASSUME k + 1 \in 1 .. n PROVE flatten[k + 1] = Prefix[k + 1]
      OBVIOUS
    <3>1. CASE k = 0
      <4>1. flatten[1] = s[1]
        BY <1>1, <1>9
      <4> QED
        BY <1>5, <3>1, <4>1
    <3>2. CASE k > 0
      <4>1. k \in 1 .. n /\ k + 1 \in 2 .. n /\ (k + 1) - 1 = k /\ k + 1 # 1
        BY <3>2
      <4>2. flatten[k + 1] = flatten[(k + 1) - 1] \o s[k + 1]
        <5> DEFINE i == k + 1
        <5>1. i \in 1 .. n /\ i # 1
          BY <4>1
        <5> HIDE DEF i
        <5>2. flatten[i] = flatten[i - 1] \o s[i]
          BY <1>1, <1>9, <5>1
        <5> QED
          BY <5>2 DEF i
      <4>3. Prefix[k + 1] = Prefix[(k + 1) - 1] \o s[k + 1]
        BY <1>6, <4>1
      <4>4. flatten[k] = Prefix[k]
        BY <2>2, <4>1
      <4> QED
        BY <4>1, <4>2, <4>3, <4>4
    <3> QED
      BY <3>1, <3>2
  <2> HIDE DEF Known
  <2> QED
    BY <2>1, <2>2, Induction
<1>11. flatten[n] = Prefix[n]
  <2>1. n \in Known
    BY <1>10
  <2> QED
    BY <2>1
<1>12. Prefix[n] = r
  <2>1. Prefix[n] = [j \in 1 .. pos[n] |-> r[j]]
    BY DEF Prefix
  <2> QED
    BY <2>1
<1> QED
  BY <1>2, <1>11, <1>12

\* Multiples of a width.
LEMMA Products ==
  ASSUME NEW w \in Nat, NEW n \in Nat, NEW k \in 0 .. n
  PROVE  w * k \in Nat /\ w * k <= w * n /\ (k > 0 => w * k = w * (k - 1) + w)
<1>1. w * k \in Nat /\ w * (n - k) \in Nat
  OBVIOUS
<1>2. w * (n - k) = w * n - w * k
  OBVIOUS
<1> QED
  BY <1>1, <1>2

\* r has row k of s, w elements long, at place k.
Tiled(n, w, s, r) == \A k \in 1 .. n : \A j \in 1 .. w : r[w * (k - 1) + j] = s[k][j]

\* FlattenSeq on n sequences of the same length w.
LEMMA FlattenedRows ==
  ASSUME NEW S, NEW n \in Nat \ {0}, NEW w \in Nat, NEW s \in [1 .. n -> [1 .. w -> S]],
         NEW m, m = w * n, NEW r \in [1 .. m -> S], Tiled(n, w, s, r)
  PROVE  FlattenSeq(s) = r
<1> DEFINE pos == [k \in 0 .. n |-> w * k]
<1>1. ASSUME NEW k \in 1 .. n PROVE s[k] \in Seq(S) /\ Len(s[k]) = w
  <2>1. s[k] \in [1 .. w -> S]
    OBVIOUS
  <2> QED
    BY <2>1
<1>2. \A k \in 0 .. n : w * k \in Nat /\ w * k <= w * n
  BY Products
<1>3. Lined(S, n, s, pos)
  <2>1. s \in [1 .. n -> Seq(S)]
    BY <1>1
  <2>2. pos \in [0 .. n -> Nat] /\ pos[0] = 0
    BY <1>2
  <2>3. ASSUME NEW k \in 1 .. n PROVE pos[k] = pos[k - 1] + Len(s[k]) /\ pos[k] <= pos[n]
    <3>1. k \in 0 .. n /\ k - 1 \in 0 .. n /\ n \in 0 .. n
      OBVIOUS
    <3>2. pos[k] = w * k /\ pos[k - 1] = w * (k - 1) /\ pos[n] = w * n
      BY <3>1
    <3>3. w * k <= w * n /\ w * k = w * (k - 1) + w
      BY <3>1, Products
    <3> QED
      BY <1>1, <3>2, <3>3
  <2> HIDE DEF pos
  <2> QED
    BY <2>1, <2>2, <2>3 DEF Lined
<1>4. pos[n] = w * n
  OBVIOUS
<1>5. Laid(n, s, pos, r)
  <2>1. ASSUME NEW k \in 1 .. n, NEW j \in 1 .. Len(s[k]) PROVE r[pos[k - 1] + j] = s[k][j]
    <3>1. j \in 1 .. w
      BY <1>1
    <3>2. pos[k - 1] = w * (k - 1)
      OBVIOUS
    <3> QED
      BY <3>1, <3>2 DEF Tiled
  <2> HIDE DEF pos
  <2> QED
    BY <2>1 DEF Laid
<1> HIDE DEF pos
<1> QED
  BY <1>3, <1>4, <1>5, Flattened

(* -------------------------------- arrays ------------------------------- *)

\* The bytes of a value by their numbers, and of an array of such values.
Numbered(b)     == [i \in 1 .. b |-> i]
Rows(size, cnt) == [k \in 1 .. cnt |-> [i \in 1 .. size |-> size * (k - 1) + i]]

\* The slices that hold b bytes: zeros first, then the bytes in order.
Byte(p)       == IF p > 0 THEN p ELSE 0
Zeros(dw, b)  == dw * num_subregs(dw, b) - b
Slices(dw, b) ==
  [i \in 1 .. num_subregs(dw, b) |-> [j \in 1 .. dw |-> Byte(dw * (i - 1) + j - Zeros(dw, b))]]

\* num_subregs is the fewest slices that hold b bytes.
LEMMA FewestSlices ==
  ASSUME NEW dw \in {1, 2, 4}, NEW b \in Nat \ {0}
  PROVE  num_subregs(dw, b) \in Nat \ {0} /\ Zeros(dw, b) \in 0 .. dw - 1
<1>1. CASE dw = 1
  BY <1>1, SMT DEF num_subregs, Zeros
<1>2. CASE dw = 2
  BY <1>2, SMT DEF num_subregs, Zeros
<1>3. CASE dw = 4
  BY <1>3, SMT DEF num_subregs, Zeros
<1> QED
  BY <1>1, <1>2, <1>3

\* A value is cut into as many slices, zeros first.
Pad(v, p)  == IF p > 0 THEN v[p] ELSE 0
Cut(dw, v) ==
  [i \in 1 .. num_subregs(dw, Len(v)) |->
     [j \in 1 .. dw |-> Pad(v, dw * (i - 1) + j - Zeros(dw, Len(v)))]]

LEMMA ValueCut ==
  ASSUME NEW dw \in {1, 2, 4}, NEW v \in Seq(Nat), Len(v) > 0
  PROVE  csr_wr(dw, v) = Cut(dw, v)
<1> DEFINE b  == Len(v)
           ns == num_subregs(dw, b)
           z  == Zeros(dw, b)
<1>1. b \in Nat \ {0}
  OBVIOUS
<1> HIDE DEF b
<1>2. ns \in Nat \ {0} /\ z \in 0 .. dw - 1 /\ dw \in Nat
  <2>1. num_subregs(dw, b) \in Nat \ {0} /\ Zeros(dw, b) \in 0 .. dw - 1
    BY <1>1, FewestSlices
  <2> QED
    BY <2>1
<1>3. z = dw * ns - b
  BY DEF Zeros
<1> HIDE DEF ns, z
<1>4. ASSUME NEW i \in 1 .. ns
      PROVE  csr_write_simple(dw, ShiftDown(v, dw * (ns - i)))
               = [j \in 1 .. dw |-> Pad(v, dw * (i - 1) + j - z)]
  <2> DEFINE l == dw * i - z
             t == SubSeq(v, 1, l)
  <2>1. b - dw * (ns - i) = l
    BY <1>1, <1>2, <1>3
  <2>2. l \in 1 .. b
    <3>1. dw * i <= dw * ns /\ dw * i = dw * (i - 1) + dw /\ dw * i \in Nat
      BY <1>2, Products
    <3>2. dw * (i - 1) \in Nat
      BY <1>2
    <3> QED
      BY <1>1, <1>2, <1>3, <3>1, <3>2
  <2>3. ShiftDown(v, dw * (ns - i)) = t
    BY <2>1 DEF ShiftDown, b
  <2>4. dw * (i - 1) = dw * i - dw /\ dw * i \in Int
    BY <1>2
  <2> HIDE DEF l
  <2>5. t \in Seq(Nat) /\ Len(t) = l /\ \A j \in 1 .. l : t[j] = v[j]
    BY <2>2 DEF b
  <2> HIDE DEF t
  <2>6. ASSUME NEW j \in 1 .. dw
        PROVE  (IF j + Len(t) > dw THEN t[j + Len(t) - dw] ELSE 0)
                 = Pad(v, dw * (i - 1) + j - z)
    <3>1. dw * (i - 1) + j - z = j + l - dw
      BY <1>2, <2>4 DEF l
    <3>2. CASE j + l > dw
      <4>1. j + l - dw \in 1 .. l
        BY <1>1, <1>2, <2>2, <3>2
      <4> QED
        BY <1>1, <2>2, <2>5, <3>1, <3>2, <4>1 DEF Pad
    <3>3. CASE ~(j + l > dw)
      BY <1>1, <1>2, <2>2, <2>5, <3>1, <3>3 DEF Pad
    <3> QED
      BY <3>2, <3>3
  <2> QED
    BY <2>3, <2>6 DEF csr_write_simple, LowBytes
<1>5. csr_wr(dw, v) = [i \in 1 .. ns |-> csr_write_simple(dw, ShiftDown(v, dw * (ns - i)))]
  BY DEF csr_wr, ns, b
<1>6. csr_wr(dw, v) = [i \in 1 .. ns |-> [j \in 1 .. dw |-> Pad(v, dw * (i - 1) + j - z)]]
  BY <1>4, <1>5
<1> QED
  BY <1>6 DEF Cut, b, ns, z

\* The bytes by their numbers, as one value.
LEMMA NumberedCut ==
  ASSUME NEW dw \in {1, 2, 4}, NEW b \in Nat \ {0}
  PROVE  csr_wr(dw, Numbered(b)) = Slices(dw, b)
<1> DEFINE v  == Numbered(b)
           ns == num_subregs(dw, b)
           z  == Zeros(dw, b)
<1>1. ns \in Nat \ {0} /\ z \in 0 .. dw - 1 /\ dw \in Nat
  BY FewestSlices
<1>2. z = dw * ns - b
  BY DEF Zeros
<1>3. v \in Seq(Nat) /\ Len(v) = b /\ \A i \in 1 .. b : v[i] = i
  BY DEF Numbered
<1> HIDE DEF v, ns, z
<1>4. ASSUME NEW i \in 1 .. ns, NEW j \in 1 .. dw
      PROVE  Pad(v, dw * (i - 1) + j - z) = Byte(dw * (i - 1) + j - z)
  <2> DEFINE p == dw * (i - 1) + j - z
  <2>1. dw * i <= dw * ns /\ dw * i = dw * (i - 1) + dw /\ dw * i \in Nat
    BY <1>1, Products
  <2>2. p \in Int /\ p <= b
    BY <1>1, <1>2, <2>1
  <2> HIDE DEF p
  <2>3. Pad(v, p) = Byte(p)
    BY <1>3, <2>2 DEF Pad, Byte
  <2> QED
    BY <2>3 DEF p
<1>5. csr_wr(dw, v) = Cut(dw, v)
  BY <1>3, ValueCut
<1>6. Cut(dw, v) = [i \in 1 .. ns |-> [j \in 1 .. dw |-> Pad(v, dw * (i - 1) + j - z)]]
  BY <1>3 DEF Cut, ns, z
<1>7. Slices(dw, b) = [i \in 1 .. ns |-> [j \in 1 .. dw |-> Byte(dw * (i - 1) + j - z)]]
  BY DEF Slices, ns, z
<1> QED
  BY <1>4, <1>5, <1>6, <1>7 DEF v

\* The elements in a row are the bytes in order.
LEMMA RowsFlat ==
  ASSUME NEW size \in Nat \ {0}, NEW cnt \in Nat \ {0}
  PROVE  FlattenSeq(Rows(size, cnt)) = Numbered(size * cnt)
<1> DEFINE s == Rows(size, cnt)
           r == Numbered(size * cnt)
<1>1. \A k \in 1 .. cnt : size * (k - 1) \in Nat /\ size * (k - 1) + size <= size * cnt
  <2> TAKE k \in 1 .. cnt
  <2>1. size * k <= size * cnt /\ size * k = size * (k - 1) + size
    BY Products
  <2> QED
    BY <2>1
<1>2. size * cnt \in Nat
  OBVIOUS
<1>3. s \in [1 .. cnt -> [1 .. size -> Nat]]
  BY <1>1 DEF Rows
<1>4. r \in [1 .. size * cnt -> Nat]
  BY <1>2 DEF Numbered
<1>5. ASSUME NEW k \in 1 .. cnt, NEW j \in 1 .. size PROVE r[size * (k - 1) + j] = s[k][j]
  <2>1. size * (k - 1) + j \in 1 .. size * cnt
    BY <1>1, <1>2
  <2> QED
    BY <2>1 DEF Numbered, Rows
<1> DEFINE m == size * cnt
<1> HIDE DEF s, r
<1>6. size \in Nat /\ m = size * cnt /\ r \in [1 .. m -> Nat]
  BY <1>4
<1> HIDE DEF m
<1>7. Tiled(cnt, size, s, r)
  BY <1>5 DEF Tiled
<1>8. FlattenSeq(s) = r
  BY <1>3, <1>6, <1>7, FlattenedRows
<1> QED
  BY <1>8 DEF s, r

\* An element that fills m slices.
LEMMA WholeSlices ==
  ASSUME NEW dw \in {1, 2, 4}, NEW m \in Nat \ {0}
  PROVE  num_subregs(dw, m * dw) = m /\ Zeros(dw, m * dw) = 0
<1>1. CASE dw = 1
  BY <1>1, SMT DEF num_subregs, Zeros
<1>2. CASE dw = 2
  BY <1>2, SMT DEF num_subregs, Zeros
<1>3. CASE dw = 4
  BY <1>3, SMT DEF num_subregs, Zeros
<1> QED
  BY <1>1, <1>2, <1>3

\* m slices of the bytes that follow number base.
Filled(dw, m, base) == [i \in 1 .. m |-> [j \in 1 .. dw |-> base + (dw * (i - 1) + j)]]

LEMMA FilledTyped ==
  ASSUME NEW dw \in Nat, NEW m \in Nat, NEW base \in Nat
  PROVE  Filled(dw, m, base) \in [1 .. m -> [1 .. dw -> Nat]]
<1>1. \A i \in 1 .. m : dw * (i - 1) \in Nat
  OBVIOUS
<1>2. \A i \in 1 .. m, j \in 1 .. dw : base + (dw * (i - 1) + j) \in Nat
  BY <1>1
<1> QED
  BY <1>2 DEF Filled

\* The slices of an array of such elements.
LEMMA WideSlices ==
  ASSUME NEW dw \in {1, 2, 4}, NEW n \in Nat \ {0}, NEW b, b = n * dw
  PROVE  Slices(dw, b) = Filled(dw, n, 0)
<1>1. num_subregs(dw, n * dw) = n /\ Zeros(dw, n * dw) = 0
  BY WholeSlices
<1>2. ASSUME NEW q \in 1 .. n, NEW j \in 1 .. dw
      PROVE  Byte(dw * (q - 1) + j - 0) = 0 + (dw * (q - 1) + j)
  <2>1. n \in Nat /\ dw \in Nat /\ dw * (q - 1) \in Nat
    OBVIOUS
  <2> QED
    BY <2>1 DEF Byte
<1>3. Slices(dw, b) = [q \in 1 .. n |-> [j \in 1 .. dw |-> Byte(dw * (q - 1) + j - 0)]]
  BY <1>1 DEF Slices
<1> QED
  BY <1>2, <1>3 DEF Filled

\* Slice i of element k, behind the first base bytes, is slice q of the array's n.
Tile(dw, m, cnt, k, i, n, q, base) ==
  /\ dw \in Nat \ {0} /\ m \in Nat \ {0} /\ cnt \in Nat \ {0} /\ k \in 1 .. cnt /\ i \in 1 .. m
  /\ n = m * cnt /\ q = m * (k - 1) + i /\ base = (m * dw) * (k - 1)

LEMMA FilledTiles ==
  ASSUME NEW dw, NEW m, NEW cnt, NEW k, NEW i, NEW n, NEW q, NEW base,
         Tile(dw, m, cnt, k, i, n, q, base)
  PROVE  Filled(dw, n, 0)[q] = Filled(dw, m, base)[i]
<1> USE DEF Tile
<1>1. m * (k - 1) \in Nat /\ m * k <= m * cnt /\ m * k = m * (k - 1) + m
  BY Products
<1>2. q \in 1 .. n
  BY <1>1
<1>3. ASSUME NEW j \in 1 .. dw
      PROVE  0 + (dw * (q - 1) + j) = base + (dw * (i - 1) + j)
  OBVIOUS
<1>4. Filled(dw, n, 0)[q] = [j \in 1 .. dw |-> 0 + (dw * (q - 1) + j)]
  BY <1>2 DEF Filled
<1>5. Filled(dw, n, 0)[q] = [j \in 1 .. dw |-> base + (dw * (i - 1) + j)]
  BY <1>3, <1>4
<1>6. Filled(dw, m, base)[i] = [j \in 1 .. dw |-> base + (dw * (i - 1) + j)]
  BY DEF Filled
<1> QED
  BY <1>5, <1>6

\* An element fills m slices.
Fills(m, dw, size) == m \in Nat \ {0} /\ size = m * dw

\* Written to a CSR, an array of such elements.
LEMMA WideWritten ==
  ASSUME NEW dw \in {1, 2, 4}, NEW m, NEW cnt \in Nat \ {0}, NEW size, Fills(m, dw, size)
  PROVE  csr_wr_buf(dw, Rows(size, cnt)) = Slices(dw, size * cnt)
<1> USE DEF Fills
<1> DEFINE buf == Rows(size, cnt)
           s   == [k \in 1 .. cnt |-> csr_wr(dw, buf[k])]
           n   == m * cnt
           r   == Filled(dw, n, 0)
           b   == size * cnt
<1>1. size \in Nat \ {0} /\ size >= dw /\ n \in Nat \ {0} /\ dw \in Nat \ {0}
  OBVIOUS
<1>2. Slices(dw, b) = r
  <2>1. b = n * dw
    OBVIOUS
  <2> HIDE DEF b, n
  <2> QED
    BY <1>1, <2>1, WideSlices
<1>3. Len(buf) = cnt /\ Len(buf[1]) = size
  BY <1>1 DEF Rows
<1>4. csr_wr_buf(dw, buf) = FlattenSeq(s)
  BY <1>1, <1>3 DEF csr_wr_buf
<1>5. ASSUME NEW k \in 1 .. cnt PROVE csr_wr(dw, buf[k]) = Filled(dw, m, size * (k - 1))
  <2> DEFINE v == buf[k]
             base == size * (k - 1)
  <2>1. base \in Nat
    BY <1>1
  <2>2. v = [i \in 1 .. size |-> base + i]
    BY DEF Rows
  <2> HIDE DEF v, base
  <2>3. v \in Seq(Nat) /\ Len(v) = size
    BY <1>1, <2>1, <2>2
  <2>4. csr_wr(dw, v) = Cut(dw, v)
    BY <1>1, <2>3, ValueCut
  <2>5. num_subregs(dw, Len(v)) = m /\ Zeros(dw, Len(v)) = 0
    BY <2>3, WholeSlices
  <2>6. ASSUME NEW i \in 1 .. m, NEW j \in 1 .. dw
        PROVE  Pad(v, dw * (i - 1) + j - 0) = base + (dw * (i - 1) + j)
    <3> DEFINE p == dw * (i - 1) + j
    <3>1. dw * (i - 1) \in Nat /\ dw * i <= dw * m /\ dw * i = dw * (i - 1) + dw
      BY <1>1, Products
    <3>2. p \in 1 .. size
      BY <1>1, <3>1
    <3> HIDE DEF p
    <3>3. Pad(v, p - 0) = base + p
      BY <2>2, <3>2 DEF Pad
    <3> QED
      BY <3>3 DEF p
  <2>7. Cut(dw, v) = [i \in 1 .. m |-> [j \in 1 .. dw |-> Pad(v, dw * (i - 1) + j - 0)]]
    BY <2>5 DEF Cut
  <2>8. Cut(dw, v) = Filled(dw, m, base)
    BY <2>6, <2>7 DEF Filled
  <2> QED
    BY <2>4, <2>8 DEF v, base
<1> HIDE DEF buf
<1>6. s \in [1 .. cnt -> [1 .. m -> [1 .. dw -> Nat]]]
  <2>1. ASSUME NEW k \in 1 .. cnt PROVE csr_wr(dw, buf[k]) \in [1 .. m -> [1 .. dw -> Nat]]
    <3>1. size * (k - 1) \in Nat
      BY <1>1
    <3>2. Filled(dw, m, size * (k - 1)) \in [1 .. m -> [1 .. dw -> Nat]]
      BY <1>1, <3>1, FilledTyped
    <3> QED
      BY <1>5, <3>2
  <2> QED
    BY <2>1
<1>7. r \in [1 .. n -> [1 .. dw -> Nat]]
  <2> HIDE DEF n
  <2> QED
    BY <1>1, FilledTyped
<1>8. ASSUME NEW k \in 1 .. cnt, NEW i \in 1 .. m PROVE r[m * (k - 1) + i] = s[k][i]
  <2>1. r[m * (k - 1) + i] = Filled(dw, m, size * (k - 1))[i]
    <3> DEFINE q    == m * (k - 1) + i
               base == size * (k - 1)
    <3>1. Tile(dw, m, cnt, k, i, n, q, base)
      BY <1>1 DEF Tile
    <3> HIDE DEF q, base, n
    <3>2. Filled(dw, n, 0)[q] = Filled(dw, m, base)[i]
      BY <3>1, FilledTiles
    <3> QED
      BY <3>2 DEF q, base
  <2>2. s[k] = Filled(dw, m, size * (k - 1))
    BY <1>5
  <2> HIDE DEF r, s
  <2> QED
    BY <2>1, <2>2
<1>9. n = m * cnt
  OBVIOUS
<1> HIDE DEF r, s, n
<1>10. Tiled(cnt, m, s, r)
  BY <1>8 DEF Tiled
<1>11. FlattenSeq(s) = r
  BY <1>6, <1>7, <1>9, <1>10, FlattenedRows
<1> QED
  BY <1>2, <1>4, <1>11 DEF buf

\* And read back from there.
LEMMA WideRead ==
  ASSUME NEW dw \in {1, 2, 4}, NEW m, NEW cnt \in Nat \ {0}, NEW size, Fills(m, dw, size)
  PROVE  csr_rd_buf(dw, Slices(dw, size * cnt), size, cnt) = Rows(size, cnt)
<1> USE DEF Fills
<1> DEFINE n   == m * cnt
           csr == Filled(dw, n, 0)
           b   == size * cnt
<1>1. size \in Nat \ {0} /\ size >= dw /\ n \in Nat \ {0} /\ dw \in Nat \ {0}
  OBVIOUS
<1>2. Slices(dw, b) = csr
  <2>1. b = n * dw
    OBVIOUS
  <2> HIDE DEF b, n
  <2> QED
    BY <1>1, <2>1, WideSlices
<1>3. num_subregs(dw, size) = m
  BY WholeSlices
<1>4. ASSUME NEW k \in 1 .. cnt
      PROVE  csr_rd(dw, csr, m * (k - 1) + 1, size) = [i \in 1 .. size |-> size * (k - 1) + i]
  <2> DEFINE a    == m * (k - 1) + 1
             base == size * (k - 1)
             s    == [i \in 1 .. m |-> csr[a + i - 1]]
             f    == Filled(dw, m, base)
             r    == [i \in 1 .. size |-> base + i]
  <2>1. base \in Nat
    BY <1>1
  <2>2. s = f
    <3>1. ASSUME NEW i \in 1 .. m PROVE csr[a + i - 1] = f[i]
      <4>1. a + i - 1 = m * (k - 1) + i
        OBVIOUS
      <4>2. csr[m * (k - 1) + i] = f[i]
        <5> DEFINE q == m * (k - 1) + i
        <5>1. Tile(dw, m, cnt, k, i, n, q, base)
          BY <1>1 DEF Tile
        <5> HIDE DEF q, base, n
        <5>2. Filled(dw, n, 0)[q] = Filled(dw, m, base)[i]
          BY <5>1, FilledTiles
        <5> QED
          BY <5>2 DEF q
      <4> HIDE DEF csr, a, f
      <4> QED
        BY <4>1, <4>2
    <3>2. f = [i \in 1 .. m |-> f[i]]
      BY DEF Filled
    <3> HIDE DEF csr, a, f
    <3> QED
      BY <3>1, <3>2
  <2> HIDE DEF base
  <2>3. f \in [1 .. m -> [1 .. dw -> Nat]]
    BY <1>1, <2>1, FilledTyped
  <2>4. r \in [1 .. size -> Nat]
    BY <1>1, <2>1
  <2>5. ASSUME NEW i \in 1 .. m, NEW j \in 1 .. dw PROVE r[dw * (i - 1) + j] = f[i][j]
    <3> DEFINE p == dw * (i - 1) + j
    <3>1. dw * (i - 1) \in Nat /\ dw * i <= dw * m /\ dw * i = dw * (i - 1) + dw
      BY <1>1, Products
    <3>2. p \in 1 .. size
      BY <1>1, <3>1
    <3>3. f[i][j] = base + p
      BY DEF Filled
    <3> HIDE DEF p
    <3>4. r[p] = base + p
      BY <3>2
    <3> HIDE DEF r, f
    <3>5. r[p] = f[i][j]
      BY <3>3, <3>4
    <3> QED
      BY <3>5 DEF p
  <2>6. LowBytes(r, size) = r
    <3>1. \A i \in 1 .. size : i + size > size /\ i + size - size = i
      BY <1>1
    <3>2. r = [i \in 1 .. size |-> r[i]] /\ Len(r) = size
      BY <1>1
    <3> HIDE DEF r
    <3> QED
      BY <3>1, <3>2 DEF LowBytes
  <2> HIDE DEF r, f
  <2>7. Tiled(m, dw, f, r)
    BY <2>5 DEF Tiled
  <2>8. size = dw * m
    BY <1>1
  <2>9. FlattenSeq(f) = r
    BY <1>1, <2>3, <2>4, <2>7, <2>8, FlattenedRows
  <2>10. csr_rd(dw, csr, a, size) = LowBytes(FlattenSeq(s), size)
    <3> HIDE DEF csr, a
    <3> QED
      BY <1>3 DEF csr_rd, csr_read_simple
  <2>11. csr_rd(dw, csr, a, size) = r
    BY <2>2, <2>6, <2>9, <2>10
  <2> QED
    BY <2>11 DEF r, base
<1> HIDE DEF csr
<1>5. csr_rd_buf(dw, csr, size, cnt) = [k \in 1 .. cnt |-> csr_rd(dw, csr, m * (k - 1) + 1, size)]
  BY <1>1, <1>3 DEF csr_rd_buf
<1> QED
  BY <1>2, <1>4, <1>5 DEF Rows

\* Elements narrower than a slice: << slice width, element size, elements of a slice >>.
Shapes == {<< 2, 1, 2 >>, << 4, 1, 4 >>, << 4, 2, 2 >>}

LEMMA ShapeFacts ==
  ASSUME NEW dw, NEW size, NEW n, << dw, size, n >> \in Shapes
  PROVE  /\ dw \in {1, 2, 4} /\ size \in {1, 2} /\ n \in {2, 4}
         /\ dw = size * n /\ dw \div size = n /\ size < dw
<1>1. CASE << dw, size, n >> = << 2, 1, 2 >>
  BY <1>1, SMT
<1>2. CASE << dw, size, n >> = << 4, 1, 4 >>
  BY <1>2, SMT
<1>3. CASE << dw, size, n >> = << 4, 2, 2 >>
  BY <1>3, SMT
<1> QED
  BY <1>1, <1>2, <1>3 DEF Shapes

\* Before the first element the slices have room for off elements more.
Room(dw, n, size, cnt) == num_subregs(dw, size * cnt) * n - cnt

LEMMA RoomFacts ==
  ASSUME NEW dw, NEW size, NEW n, << dw, size, n >> \in Shapes, NEW cnt \in Nat \ {0}
  PROVE  /\ num_subregs(dw, size * cnt) \in Nat \ {0}
         /\ Room(dw, n, size, cnt) \in 0 .. n - 1
         /\ Zeros(dw, size * cnt) = size * Room(dw, n, size, cnt)
<1> DEFINE ns == num_subregs(dw, size * cnt)
           z  == Zeros(dw, size * cnt)
<1>1. dw \in {1, 2, 4} /\ size * cnt \in Nat \ {0}
  BY ShapeFacts
<1> DEFINE b == size * cnt
<1>2. ns \in Nat \ {0} /\ z \in 0 .. dw - 1
  <2> HIDE DEF b
  <2>1. num_subregs(dw, b) \in Nat \ {0} /\ Zeros(dw, b) \in 0 .. dw - 1
    BY <1>1, FewestSlices DEF b
  <2> QED
    BY <2>1 DEF b
<1>3. z = dw * ns - size * cnt
  BY DEF Zeros
<1> HIDE DEF ns, z
<1>4. ns * n - cnt \in 0 .. n - 1 /\ z = size * (ns * n - cnt)
  <2>1. CASE << dw, size, n >> = << 2, 1, 2 >>
    BY <1>2, <1>3, <2>1, SMT
  <2>2. CASE << dw, size, n >> = << 4, 1, 4 >>
    BY <1>2, <1>3, <2>2, SMT
  <2>3. CASE << dw, size, n >> = << 4, 2, 2 >>
    BY <1>2, <1>3, <2>3, SMT
  <2> QED
    BY <2>1, <2>2, <2>3 DEF Shapes
<1> QED
  BY <1>2, <1>4 DEF Room, ns, z

\* Element k has place k counted from the end of the room.
LEMMA PlaceOf ==
  ASSUME NEW dw, NEW size, NEW n, << dw, size, n >> \in Shapes, NEW cnt \in Nat \ {0},
         NEW k \in 1 .. cnt
  PROVE  LET p == Place(dw, size, cnt, k)
         IN  /\ p[1] \in 1 .. num_subregs(dw, size * cnt)
             /\ p[2] \in 1 .. n
             /\ n * (p[1] - 1) + (p[2] - 1) = k - 1 + Room(dw, n, size, cnt)
<1> DEFINE ns  == num_subregs(dw, size * cnt)
           off == Room(dw, n, size, cnt)
           p   == Place(dw, size, cnt, k)
           x   == k - 1 + off
<1>1. ns \in Nat \ {0} /\ off \in 0 .. n - 1 /\ off = ns * n - cnt
  BY RoomFacts DEF Room
<1>2. n \in {2, 4} /\ dw \div size = n
  BY ShapeFacts
<1>3. p = << x \div n + 1, (x % n) + 1 >>
  BY <1>2 DEF Place, Room
<1> HIDE DEF ns, off, p
<1>4. x \in Nat /\ x < ns * n
  BY <1>1, <1>2
<1>5. p[1] \in 1 .. ns /\ p[2] \in 1 .. n /\ n * (p[1] - 1) + (p[2] - 1) = x
  <2> HIDE DEF x
  <2>1. CASE n = 2
    BY <1>1, <1>3, <1>4, <2>1, SMT
  <2>2. CASE n = 4
    BY <1>1, <1>3, <1>4, <2>2, SMT
  <2> QED
    BY <1>2, <2>1, <2>2
<1> QED
  BY <1>5 DEF ns, off, p

\* Slice i holds the elements behind lo up to hi.
Lo(dw, n, size, cnt, i) == IF i = 1 THEN 0 ELSE n * (i - 1) - Room(dw, n, size, cnt)
Hi(dw, n, size, cnt, i) == n * i - Room(dw, n, size, cnt)

LEMMA SliceElements ==
  ASSUME NEW dw, NEW size, NEW n, << dw, size, n >> \in Shapes, NEW cnt \in Nat \ {0},
         NEW i \in 1 .. num_subregs(dw, size * cnt)
  PROVE  LET lo == Lo(dw, n, size, cnt, i)
             hi == Hi(dw, n, size, cnt, i)
         IN  /\ lo \in Nat /\ hi \in Nat /\ lo < hi /\ hi <= cnt
             /\ i > 1 => hi - lo = n
             /\ \A k \in 1 .. cnt : Place(dw, size, cnt, k)[1] = i <=> lo < k /\ k <= hi
<1> DEFINE ns  == num_subregs(dw, size * cnt)
           off == Room(dw, n, size, cnt)
           lo  == Lo(dw, n, size, cnt, i)
           hi  == Hi(dw, n, size, cnt, i)
<1>1. ns \in Nat \ {0} /\ off \in 0 .. n - 1 /\ off = ns * n - cnt
  BY RoomFacts DEF Room
<1>2. n \in {2, 4}
  BY ShapeFacts
<1>3. lo = (IF i = 1 THEN 0 ELSE n * (i - 1) - off) /\ hi = n * i - off
  BY DEF Lo, Hi
<1> HIDE DEF ns, off, lo, hi
<1>4. i \in 1 .. ns
  BY DEF ns
<1>5. lo \in Nat /\ hi \in Nat /\ lo < hi /\ hi <= cnt /\ (i > 1 => hi - lo = n)
  <2>1. CASE n = 2
    BY <1>1, <1>3, <1>4, <2>1, SMT
  <2>2. CASE n = 4
    BY <1>1, <1>3, <1>4, <2>2, SMT
  <2> QED
    BY <1>2, <2>1, <2>2
<1>6. ASSUME NEW k \in 1 .. cnt
      PROVE  Place(dw, size, cnt, k)[1] = i <=> lo < k /\ k <= hi
  <2> DEFINE p == Place(dw, size, cnt, k)
  <2>1. p[1] \in 1 .. ns /\ p[2] \in 1 .. n /\ n * (p[1] - 1) + (p[2] - 1) = k - 1 + off
    BY PlaceOf DEF ns, off
  <2> HIDE DEF p
  <2>2. p[1] = i <=> lo < k /\ k <= hi
    <3>1. CASE n = 2
      BY <1>1, <1>3, <1>4, <2>1, <3>1, SMT
    <3>2. CASE n = 4
      BY <1>1, <1>3, <1>4, <2>1, <3>2, SMT
    <3> QED
      BY <1>2, <3>1, <3>2
  <2> QED
    BY <2>2 DEF p
<1> QED
  BY <1>5, <1>6 DEF lo, hi

\* The elements behind lo up to hi, and their bytes.
Chosen(size, cnt, lo, hi) ==
  [k \in 1 .. cnt |-> IF lo < k /\ k <= hi THEN Rows(size, cnt)[k] ELSE << >>]
ChosenBytes(size, lo, hi) == [p \in 1 .. size * (hi - lo) |-> size * lo + p]

LEMMA Gathered ==
  ASSUME NEW size \in Nat \ {0}, NEW cnt \in Nat \ {0}, NEW lo \in Nat, NEW hi \in Nat,
         lo < hi, hi <= cnt
  PROVE  FlattenSeq(Chosen(size, cnt, lo, hi)) = ChosenBytes(size, lo, hi)
<1> DEFINE s == Chosen(size, cnt, lo, hi)
           Fill(k) == IF k <= lo THEN 0 ELSE IF k >= hi THEN hi - lo ELSE k - lo
           pos  == [k \in 0 .. cnt |-> size * Fill(k)]
           len  == size * (hi - lo)
           base == size * lo
           r    == [p \in 1 .. len |-> base + p]
<1>1. \A k \in 0 .. cnt : Fill(k) \in 0 .. hi - lo
  OBVIOUS
<1>2. \A k \in 1 .. cnt : Fill(k) = IF lo < k /\ k <= hi THEN Fill(k - 1) + 1 ELSE Fill(k - 1)
  OBVIOUS
<1>3. Fill(0) = 0 /\ Fill(cnt) = hi - lo
  OBVIOUS
<1>4. \A k \in 1 .. cnt : lo < k /\ k <= hi => Fill(k - 1) = k - 1 - lo
  OBVIOUS
<1>5. len \in Nat /\ base \in Nat
  OBVIOUS
<1>6. s = [k \in 1 .. cnt |-> IF lo < k /\ k <= hi THEN Rows(size, cnt)[k] ELSE << >>]
  BY DEF Chosen
<1> HIDE DEF s
<1> HIDE DEF Fill, base
<1>7. \A k \in 0 .. cnt : size * Fill(k) \in Nat /\ size * Fill(k) <= len
  BY <1>1, Products
<1>8. pos \in [0 .. cnt -> Nat] /\ pos[0] = 0 /\ pos[cnt] = len
  BY <1>3, <1>7
<1>9. ASSUME NEW k \in 1 .. cnt PROVE s[k] \in Seq(Nat) /\ pos[k] = pos[k - 1] + Len(s[k])
  <2>1. k \in 0 .. cnt /\ k - 1 \in 0 .. cnt
    OBVIOUS
  <2>2. pos[k] = size * Fill(k) /\ pos[k - 1] = size * Fill(k - 1) /\ Fill(k - 1) \in Nat
    BY <1>1, <2>1
  <2> DEFINE f == Fill(k - 1)
             g == Fill(k)
             t == s[k]
  <2> HIDE DEF f, g
  <2>3. CASE lo < k /\ k <= hi
    <3>1. t = Rows(size, cnt)[k]
      BY <1>6, <2>3
    <3>2. t = [i \in 1 .. size |-> size * (k - 1) + i] /\ size * (k - 1) \in Nat
      BY <3>1 DEF Rows
    <3> HIDE DEF t
    <3>3. t \in Seq(Nat) /\ Len(t) = size
      BY <3>2
    <3>4. g = f + 1 /\ f \in Nat
      BY <1>2, <2>2, <2>3 DEF f, g
    <3>5. size * g = size * f + size
      BY <3>4
    <3> QED
      BY <2>2, <3>3, <3>5 DEF f, g, t
  <2>4. CASE ~(lo < k /\ k <= hi)
    <3>1. t = << >>
      BY <1>6, <2>4
    <3>2. g = f
      BY <1>2, <2>4 DEF f, g
    <3>3. size * f \in Int
      BY <2>2 DEF f
    <3> HIDE DEF t
    <3>4. t \in Seq(Nat) /\ Len(t) = 0
      BY <3>1
    <3>5. size * f = size * f + Len(t)
      BY <3>3, <3>4
    <3> QED
      BY <2>2, <3>2, <3>4, <3>5 DEF f, g, t
  <2> QED
    BY <2>3, <2>4
<1>10. Lined(Nat, cnt, s, pos)
  <2>1. \A k \in 1 .. cnt : pos[k] <= pos[cnt]
    BY <1>7, <1>8
  <2>2. s \in [1 .. cnt -> Seq(Nat)]
    BY <1>6, <1>9
  <2> HIDE DEF pos
  <2> QED
    BY <1>8, <1>9, <2>1, <2>2 DEF Lined
<1>11. Laid(cnt, s, pos, r)
  <2> SUFFICES ASSUME NEW k \in 1 .. cnt, NEW j \in 1 .. Len(s[k])
               PROVE  r[pos[k - 1] + j] = s[k][j]
    BY DEF Laid
  <2>1. CASE ~(lo < k /\ k <= hi)
    <3>1. s[k] = << >>
      BY <1>6, <2>1
    <3> QED
      BY <3>1
  <2>2. CASE lo < k /\ k <= hi
    <3> DEFINE t == s[k]
               q == pos[k - 1] + j
    <3>1. t = [i \in 1 .. size |-> size * (k - 1) + i]
      BY <1>6, <2>2 DEF Rows
    <3>2. j \in 1 .. size
      BY <3>1
    <3>3. pos[k - 1] = size * (k - 1 - lo) /\ pos[k] = pos[k - 1] + size
      <4>1. pos[k - 1] = size * Fill(k - 1)
        OBVIOUS
      <4>2. Len(s[k]) = size
        BY <3>1
      <4> QED
        BY <1>4, <1>9, <2>2, <4>1, <4>2
    <3>4. pos[k] <= len /\ pos[k - 1] \in Nat
      BY <1>7, <1>8
    <3>5. q \in 1 .. len
      BY <1>5, <3>2, <3>3, <3>4
    <3>6. base + q = size * (k - 1) + j
      BY <3>2, <3>3 DEF base
    <3> HIDE DEF q, pos, t, len
    <3>7. r[q] = base + q
      BY <3>5
    <3> HIDE DEF r
    <3>8. r[q] = t[j]
      BY <3>1, <3>2, <3>6, <3>7
    <3> QED
      BY <3>8 DEF q, t
  <2> QED
    BY <2>1, <2>2
<1>12. r \in [1 .. pos[cnt] -> Nat]
  BY <1>5, <1>8
<1> HIDE DEF pos, r
<1>13. FlattenSeq(s) = r
  BY <1>10, <1>11, <1>12, Flattened
<1> QED
  BY <1>13 DEF s, r, base, ChosenBytes

\* Written to a CSR, an array of elements of which several share a slice.
LEMMA NarrowWritten ==
  ASSUME NEW dw, NEW size, NEW n, << dw, size, n >> \in Shapes, NEW cnt \in Nat \ {0}
  PROVE  csr_wr_buf(dw, Rows(size, cnt)) = Slices(dw, size * cnt)
<1> DEFINE buf   == Rows(size, cnt)
           ns    == num_subregs(dw, size * cnt)
           off   == Room(dw, n, size, cnt)
           z     == Zeros(dw, size * cnt)
           In(i) == [k \in 1 .. cnt |-> IF Place(dw, size, cnt, k)[1] = i THEN buf[k] ELSE << >>]
<1>1. /\ dw \in {1, 2, 4} /\ dw \in Nat \ {0} /\ size \in Nat \ {0} /\ n \in Nat \ {0}
      /\ dw = size * n /\ size < dw
  BY ShapeFacts
<1>2. ns \in Nat \ {0} /\ off \in 0 .. n - 1 /\ z = size * off
  BY RoomFacts
<1>3. Len(buf) = cnt /\ Len(buf[1]) = size
  BY <1>1 DEF Rows
<1>4. csr_wr_buf(dw, buf) = [i \in 1 .. ns |-> csr_write_simple(dw, FlattenSeq(In(i)))]
  <2> HIDE DEF buf
  <2> QED
    BY <1>1, <1>3 DEF csr_wr_buf
<1>5. ASSUME NEW i \in 1 .. ns
      PROVE  csr_write_simple(dw, FlattenSeq(In(i)))
               = [j \in 1 .. dw |-> Byte(dw * (i - 1) + j - z)]
  <2> DEFINE lo   == Lo(dw, n, size, cnt, i)
             hi   == Hi(dw, n, size, cnt, i)
             len  == size * (hi - lo)
             base == size * lo
             f    == [p \in 1 .. len |-> base + p]
  <2>1. /\ lo \in Nat /\ hi \in Nat /\ lo < hi /\ hi <= cnt
        /\ i > 1 => hi - lo = n
        /\ \A k \in 1 .. cnt : Place(dw, size, cnt, k)[1] = i <=> lo < k /\ k <= hi
    BY SliceElements
  <2>2. lo = (IF i = 1 THEN 0 ELSE n * (i - 1) - off) /\ hi = n * i - off
    BY DEF Lo, Hi
  <2> HIDE DEF lo, hi, off, z, ns
  <2>3. In(i) = Chosen(size, cnt, lo, hi)
    BY <2>1 DEF Chosen
  <2> DEFINE s == In(i)
  <2> HIDE DEF In
  <2>4. FlattenSeq(s) = f
    <3>1. FlattenSeq(Chosen(size, cnt, lo, hi)) = ChosenBytes(size, lo, hi)
      BY <1>1, <2>1, Gathered
    <3> QED
      BY <2>3, <3>1 DEF ChosenBytes
  <2>5. len \in Nat /\ base \in Nat
    BY <1>1, <2>1
  <2>6. \/ i = 1 /\ base = 0 /\ len = dw - z
        \/ i > 1 /\ base = dw * (i - 1) - z /\ len = dw
    <3>1. CASE i = 1
      BY <1>1, <1>2, <2>2, <3>1
    <3>2. CASE i > 1
      <4>1. lo = n * (i - 1) - off /\ hi - lo = n
        BY <2>1, <2>2, <3>2
      <4>2. size * lo = (size * n) * (i - 1) - size * off
        BY <1>1, <1>2, <2>1, <4>1
      <4> QED
        BY <1>1, <1>2, <3>2, <4>1, <4>2
    <3> QED
      BY <1>2, <3>1, <3>2
  <2>7. z \in Nat
    BY <1>1, <1>2
  <2> HIDE DEF len, base, s
  <2>8. Len(f) = len
    BY <2>5
  <2>9. ASSUME NEW j \in 1 .. dw
        PROVE  (IF j + Len(f) > dw THEN f[j + Len(f) - dw] ELSE 0) = Byte(dw * (i - 1) + j - z)
    <3>1. CASE j + len > dw
      <4>1. j + len - dw \in 1 .. len
        BY <1>1, <2>5, <2>6, <2>7, <3>1
      <4>2. f[j + len - dw] = base + (j + len - dw)
        BY <4>1
      <4> HIDE DEF f
      <4>3. base + (j + len - dw) = dw * (i - 1) + j - z /\ base + (j + len - dw) > 0
        <5>1. CASE i = 1
          BY <1>1, <2>5, <2>6, <2>7, <4>1, <5>1
        <5>2. CASE i > 1
          BY <1>1, <2>5, <2>6, <2>7, <4>1, <5>2
        <5> QED
          BY <2>6, <5>1, <5>2
      <4> QED
        BY <2>8, <3>1, <4>2, <4>3 DEF Byte
    <3>2. CASE ~(j + len > dw)
      <4>1. i = 1 /\ len = dw - z
        BY <1>1, <2>6, <2>7, <3>2
      <4> HIDE DEF f
      <4>2. dw * (i - 1) + j - z <= 0
        BY <1>1, <2>7, <3>2, <4>1
      <4> QED
        BY <1>1, <2>7, <2>8, <3>2, <4>1, <4>2 DEF Byte
    <3> QED
      BY <3>1, <3>2
  <2> HIDE DEF f
  <2>10. csr_write_simple(dw, f) = [j \in 1 .. dw |-> Byte(dw * (i - 1) + j - z)]
    BY <2>9 DEF csr_write_simple, LowBytes
  <2> QED
    BY <2>4, <2>10 DEF s
<1> HIDE DEF In
<1>6. csr_wr_buf(dw, buf) = [i \in 1 .. ns |-> [j \in 1 .. dw |-> Byte(dw * (i - 1) + j - z)]]
  BY <1>4, <1>5
<1> QED
  BY <1>6 DEF Slices

\* And read back from there.
LEMMA NarrowRead ==
  ASSUME NEW dw, NEW size, NEW n, << dw, size, n >> \in Shapes, NEW cnt \in Nat \ {0}
  PROVE  csr_rd_buf(dw, Slices(dw, size * cnt), size, cnt) = Rows(size, cnt)
<1> DEFINE csr == Slices(dw, size * cnt)
           ns  == num_subregs(dw, size * cnt)
           off == Room(dw, n, size, cnt)
           z   == Zeros(dw, size * cnt)
           Read(k) == LET p == Place(dw, size, cnt, k)
                      IN  LowBytes(ShiftDown(csr[p[1]], size * (n - p[2])), size)
<1>1. /\ dw \in Nat \ {0} /\ size \in Nat \ {0} /\ n \in Nat \ {0}
      /\ dw = size * n /\ dw \div size = n /\ size < dw
  BY ShapeFacts
<1>2. ns \in Nat \ {0} /\ off \in 0 .. n - 1 /\ z = size * off
  BY RoomFacts
<1>3. csr_rd_buf(dw, csr, size, cnt) = [k \in 1 .. cnt |-> Read(k)]
  <2> HIDE DEF csr
  <2> QED
    BY <1>1 DEF csr_rd_buf, csr_read_simple
<1>4. csr = [i \in 1 .. ns |-> [j \in 1 .. dw |-> Byte(dw * (i - 1) + j - z)]]
  BY DEF Slices
<1> HIDE DEF csr
<1>5. ASSUME NEW k \in 1 .. cnt PROVE Read(k) = [j \in 1 .. size |-> size * (k - 1) + j]
  <2> DEFINE p  == Place(dw, size, cnt, k)
             p1 == p[1]
             p2 == p[2]
             v  == csr[p1]
             l  == size * p2
             t  == SubSeq(v, 1, l)
  <2>1. p1 \in 1 .. ns /\ p2 \in 1 .. n /\ n * (p1 - 1) + (p2 - 1) = k - 1 + off
    BY PlaceOf
  <2>2. Read(k) = LowBytes(ShiftDown(v, size * (n - p2)), size)
    OBVIOUS
  <2> HIDE DEF p1, p2, ns, off, z, Read
  <2>3. v = [j \in 1 .. dw |-> Byte(dw * (p1 - 1) + j - z)]
    BY <1>4, <2>1
  <2> HIDE DEF v
  <2>4. z \in Nat /\ dw * (p1 - 1) \in Nat
    BY <1>1, <1>2, <2>1
  <2>5. v \in Seq(Nat) /\ Len(v) = dw
    <3>1. \A j \in 1 .. dw : Byte(dw * (p1 - 1) + j - z) \in Nat
      BY <1>1, <2>4 DEF Byte
    <3> QED
      BY <1>1, <2>3, <3>1
  <2>6. l \in Nat /\ l <= dw /\ size <= l /\ dw - size * (n - p2) = l
    <3>1. size * p2 <= size * n /\ size * p2 \in Nat /\ size * p2 = size * (p2 - 1) + size
      BY <1>1, <2>1, Products
    <3>2. size * (p2 - 1) \in Nat
      BY <1>1, <2>1
    <3> QED
      BY <1>1, <2>1, <3>1, <3>2
  <2>7. ShiftDown(v, size * (n - p2)) = t
    BY <2>5, <2>6 DEF ShiftDown
  <2>8. dw * (p1 - 1) + (l - size) = size * (k - 1) + z
    <3>1. size * (n * (p1 - 1) + (p2 - 1)) = size * (k - 1 + off)
      BY <2>1
    <3> QED
      BY <1>1, <1>2, <2>1, <3>1
  <2>9. size * (k - 1) \in Nat
    BY <1>1
  <2> HIDE DEF l
  <2>10. t \in Seq(Nat) /\ Len(t) = l /\ \A j \in 1 .. l : t[j] = v[j]
    BY <2>5, <2>6
  <2> HIDE DEF t
  <2>11. ASSUME NEW j \in 1 .. size
         PROVE  (IF j + Len(t) > size THEN t[j + Len(t) - size] ELSE 0) = size * (k - 1) + j
    <3> DEFINE q == j + l - size
    <3>1. q \in 1 .. l /\ q \in 1 .. dw /\ j + l > size
      BY <1>1, <2>6
    <3>2. v[q] = Byte(dw * (p1 - 1) + q - z)
      <4> HIDE DEF q
      <4> QED
        BY <2>3, <3>1
    <3>3. dw * (p1 - 1) + q - z = size * (k - 1) + j /\ size * (k - 1) + j > 0
      BY <1>1, <2>4, <2>6, <2>8, <2>9
    <3>4. t[q] = size * (k - 1) + j
      <4> HIDE DEF q
      <4> QED
        BY <2>10, <3>1, <3>2, <3>3 DEF Byte
    <3> QED
      BY <2>10, <3>1, <3>4
  <2>12. LowBytes(t, size) = [j \in 1 .. size |-> size * (k - 1) + j]
    BY <2>11 DEF LowBytes
  <2> QED
    BY <2>2, <2>7, <2>12
<1> HIDE DEF Read
<1> QED
  BY <1>3, <1>5 DEF Rows, csr

\* An array of any length, for every width of a slice and of an element.
LEMMA ArrayMoved ==
  ASSUME NEW dw \in {1, 2, 4}, NEW size \in {1, 2, 4, 8}, NEW cnt \in Nat \ {0}
  PROVE  /\ csr_wr_buf(dw, Rows(size, cnt)) = Slices(dw, size * cnt)
         /\ csr_rd_buf(dw, Slices(dw, size * cnt), size, cnt) = Rows(size, cnt)
<1>1. CASE size < dw
  <2> DEFINE n == dw \div size
  <2>1. << dw, size, n >> \in Shapes
    <3>1. \/ dw = 2 /\ size = 1 /\ n = 2
          \/ dw = 4 /\ size = 1 /\ n = 4
          \/ dw = 4 /\ size = 2 /\ n = 2
      BY <1>1, SMT
    <3> HIDE DEF n
    <3> QED
      BY <3>1 DEF Shapes
  <2> HIDE DEF n
  <2> QED
    BY <2>1, NarrowWritten, NarrowRead
<1>2. CASE size >= dw
  <2> DEFINE m == size \div dw
  <2>1. Fills(m, dw, size)
    <3> USE DEF Fills
    <3>1. CASE dw = 1
      BY <3>1, SMT
    <3>2. CASE dw = 2
      BY <1>2, <3>2, SMT
    <3>3. CASE dw = 4
      BY <1>2, <3>3, SMT
    <3> QED
      BY <3>1, <3>2, <3>3
  <2> HIDE DEF m
  <2> QED
    BY <2>1, WideWritten, WideRead
<1> QED
  BY <1>1, <1>2

\* csr_wr_buf and csr_rd_buf of hw/common.h: for slices of 1, 2 and 4 bytes, elements
\* of 1 to 8 bytes and every number of elements an int can count the bytes of, an
\* array comes back as it was written, takes the fewest slices, and lies there like
\* one value of the same bytes.
THEOREM ArraysKept == WalkSpec => []ArraysRoundTrip
<1>1. WalkTypeInv => ArraysRoundTrip
  <2> SUFFICES ASSUME call \in Calls PROVE ArraysRoundTrip
    BY DEF WalkTypeInv
  <2> DEFINE dw    == call[1]
             size  == call[2]
             cnt   == call[3]
             bytes == size * cnt
             buf   == Rows(size, cnt)
             csr   == csr_wr_buf(dw, buf)
  <2>1. dw \in {1, 2, 4} /\ size \in {1, 2, 4, 8} /\ cnt \in Nat \ {0}
    <3>1. MaxArray \in Nat
      BY WalkAssumption, SMT
    <3> QED
      BY <3>1 DEF Calls
  <2> HIDE DEF dw, size, cnt
  <2>2. bytes \in Nat \ {0} /\ size \in Nat \ {0}
    BY <2>1
  <2>3. csr = Slices(dw, bytes) /\ csr_rd_buf(dw, csr, size, cnt) = buf
    BY <2>1, ArrayMoved
  <2>4. FlattenSeq(buf) = Numbered(bytes)
    BY <2>1, <2>2, RowsFlat
  <2> HIDE DEF bytes, buf, csr
  <2>5. num_subregs(dw, bytes) \in Nat \ {0} /\ Zeros(dw, bytes) \in 0 .. dw - 1
    BY <2>1, <2>2, FewestSlices
  <2>6. Len(csr) = num_subregs(dw, bytes)
    BY <2>3, <2>5 DEF Slices
  <2>7. dw * Len(csr) - bytes \in 0 .. dw - 1
    BY <2>5, <2>6 DEF Zeros
  <2>8. csr_wr(dw, FlattenSeq(buf)) = csr
    BY <2>1, <2>2, <2>3, <2>4, NumberedCut
  <2> QED
    BY <2>3, <2>7, <2>8 DEF ArraysRoundTrip, Rows, dw, size, cnt, bytes, buf, csr
<1> QED
  BY <1>1, WalkTyped, PTL

(* -------------------------------- fields ------------------------------- *)

\* A field of csr.h: its name, its lowest bit and its width.
IsField(f) == f[2] \in Nat /\ f[3] \in Nat \ {0}

\* The _extract and _replace functions of csr.h, for every word, field and value:
\* what is put into a field is found there, cut to the field's width; fields apart
\* from it keep their contents; and putting a field's own contents back changes
\* nothing.
THEOREM FieldReplaced ==
  ASSUME NEW w \in SUBSET Nat, NEW v \in SUBSET Nat, NEW f, NEW g, IsField(f), IsField(g)
  PROVE  /\ extract(replace(w, f, v), f) = v \cap 0 .. f[3] - 1
         /\ Mask(f) \cap Mask(g) = {} => extract(replace(w, f, v), g) = extract(w, g)
         /\ replace(w, f, extract(w, f)) = w
<1> DEFINE lo  == f[2]
           len == f[3]
<1>1. lo \in Nat /\ len \in Nat \ {0}
  BY DEF IsField
<1>2. \A i : i \in Mask(f) <=> i \in Int /\ lo <= i /\ i <= lo + len - 1
  BY <1>1 DEF Mask
<1>3. ASSUME NEW u \in SUBSET Nat
      PROVE  /\ replace(w, f, u) \subseteq Nat
             /\ \A i \in Nat : i \in replace(w, f, u) <=>
                  IF i \in Mask(f) THEN i - lo \in u ELSE i \in w
  <2> DEFINE put == {j + lo : j \in u \cap 0 .. len - 1}
  <2>1. replace(w, f, u) = (w \ Mask(f)) \cup put
    BY DEF replace
  <2>2. put \subseteq Nat /\ \A i \in Nat : i \in put <=> i \in Mask(f) /\ i - lo \in u
    <3>1. ASSUME NEW i \in put PROVE i \in Nat /\ i \in Mask(f) /\ i - lo \in u
      <4>1. PICK j \in u \cap 0 .. len - 1 : i = j + lo
        OBVIOUS
      <4>2. i \in Nat /\ i - lo = j /\ lo <= i /\ i <= lo + len - 1
        BY <1>1, <4>1
      <4> QED
        BY <1>2, <4>1, <4>2
    <3>2. ASSUME NEW i \in Nat, i \in Mask(f), i - lo \in u PROVE i \in put
      <4>1. i - lo \in u \cap 0 .. len - 1 /\ (i - lo) + lo = i
        BY <1>1, <1>2, <3>2
      <4> QED
        BY <4>1
    <3> HIDE DEF put, lo
    <3> QED
      BY <3>1, <3>2
  <2> HIDE DEF put, lo, len
  <2> QED
    BY <2>1, <2>2
<1>4. ASSUME NEW x \in SUBSET Nat, NEW h, IsField(h)
      PROVE  \A k : k \in extract(x, h) <=> k \in 0 .. h[3] - 1 /\ k + h[2] \in x
  <2>1. h[2] \in Nat /\ h[3] \in Nat \ {0}
    BY <1>4 DEF IsField
  <2>2. \A i : i \in Mask(h) <=> i \in Int /\ h[2] <= i /\ i <= h[2] + h[3] - 1
    BY <2>1 DEF Mask
  <2>3. ASSUME NEW k, k \in extract(x, h) PROVE k \in 0 .. h[3] - 1 /\ k + h[2] \in x
    <3>1. PICK i \in x \cap Mask(h) : k = i - h[2]
      BY <2>3 DEF extract
    <3>2. i \in Nat /\ k + h[2] = i /\ k \in 0 .. h[3] - 1
      BY <2>1, <2>2, <3>1
    <3> QED
      BY <3>1, <3>2
  <2>4. ASSUME NEW k \in 0 .. h[3] - 1, k + h[2] \in x PROVE k \in extract(x, h)
    <3> DEFINE i == k + h[2]
    <3>1. i \in x \cap Mask(h) /\ i - h[2] = k
      BY <2>1, <2>2, <2>4
    <3> HIDE DEF i
    <3> QED
      BY <3>1 DEF extract
  <2> QED
    BY <2>3, <2>4
<1>5. extract(replace(w, f, v), f) = v \cap 0 .. f[3] - 1
  <2>1. replace(w, f, v) \in SUBSET Nat
    BY <1>3
  <2>2. ASSUME NEW k \in 0 .. len - 1 PROVE k + lo \in replace(w, f, v) <=> k \in v
    <3> DEFINE i == k + lo
    <3>1. i \in Nat /\ i \in Mask(f) /\ i - lo = k
      BY <1>1, <1>2
    <3> HIDE DEF i
    <3>2. i \in replace(w, f, v) <=> k \in v
      BY <1>3, <3>1
    <3> QED
      BY <3>2 DEF i
  <2>3. \A k : k \in extract(replace(w, f, v), f)
             <=> k \in 0 .. len - 1 /\ k + lo \in replace(w, f, v)
    BY <1>4, <2>1
  <2> QED
    BY <2>2, <2>3
<1>6. ASSUME Mask(f) \cap Mask(g) = {} PROVE extract(replace(w, f, v), g) = extract(w, g)
  <2>1. replace(w, f, v) \in SUBSET Nat
    BY <1>3
  <2>2. g[2] \in Nat /\ g[3] \in Nat \ {0}
    BY DEF IsField
  <2>3. ASSUME NEW k \in 0 .. g[3] - 1
        PROVE  k + g[2] \in replace(w, f, v) <=> k + g[2] \in w
    <3> DEFINE i == k + g[2]
    <3>1. i \in Nat /\ i \in Mask(g)
      BY <2>2 DEF Mask
    <3> HIDE DEF i
    <3>2. i \notin Mask(f)
      BY <1>6, <3>1
    <3>3. i \in replace(w, f, v) <=> i \in w
      BY <1>3, <3>1, <3>2
    <3> QED
      BY <3>3 DEF i
  <2>4. \A k : k \in extract(replace(w, f, v), g)
             <=> k \in 0 .. g[3] - 1 /\ k + g[2] \in replace(w, f, v)
    BY <1>4, <2>1
  <2>5. \A k : k \in extract(w, g) <=> k \in 0 .. g[3] - 1 /\ k + g[2] \in w
    BY <1>4
  <2> QED
    BY <2>3, <2>4, <2>5
<1>7. replace(w, f, extract(w, f)) = w
  <2> DEFINE u == extract(w, f)
  <2>1. \A k : k \in u <=> k \in 0 .. len - 1 /\ k + lo \in w
    BY <1>4
  <2>2. u \in SUBSET Nat
    BY <1>1, <2>1
  <2> HIDE DEF u
  <2>3. ASSUME NEW i \in Nat, i \in Mask(f) PROVE i - lo \in u <=> i \in w
    <3>1. i - lo \in 0 .. len - 1 /\ (i - lo) + lo = i
      BY <1>1, <1>2, <2>3
    <3> QED
      BY <2>1, <3>1
  <2>4. replace(w, f, u) \subseteq Nat /\ \A i \in Nat : i \in replace(w, f, u) <=> i \in w
    BY <1>3, <2>2, <2>3
  <2>5. replace(w, f, u) = w
    BY <2>4
  <2> QED
    BY <2>5 DEF u
<1> QED
  BY <1>5, <1>6, <1>7
=============================================================================
