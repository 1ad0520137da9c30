----------------------- MODULE SimpleAssemblerProofs -----------------------
(***************************************************************************)
(* Proofs about the assembler for sources of any length.                   *)
(*                                                                         *)
(* The first pass keeps the statements, the size of each section so far    *)
(* and the offsets of labels.  The second reads the same statements again; *)
(* as it makes the same moves, it is at each of them where the first was.  *)
(***************************************************************************)
EXTENDS SimpleAssembler, FiniteSetTheorems, SequenceTheorems, WellFoundedInduction, TLAPS

Places == Sections \cup {NoSection}
Stmts == {line.stmt : line \in Lines}
AllNames == Sections \cup {line.label : line \in Lines} \cup {line.stmt.target : line \in Lines}
Globals == UNION {line.stmt.names : line \in Lines}

Symbols ==
  [name : AllNames, value : Int, size : Int, section : Places, bind : {"local", "global"}]

Assemblers ==
  [lines : Seq(Stmts), current : Places, location : [Places -> Int], symtab : Seq(Symbols),
   indices : UNION {[D -> Nat] : D \in SUBSET AllNames}, global : SUBSET Globals,
   undefined : SUBSET AllNames, bssSize : Int, ok : BOOLEAN]

-----------------------------------------------------------------------------
(* Least and greatest numbers.                                             *)

LEMMA Least ==
  ASSUME NEW T \in SUBSET Nat, T # {}
  PROVE  \E n \in T : \A m \in T : n <= m
<1>1. PICK n \in T : \A m \in T : ~(<<m, n>> \in OpToRel(<, Nat))
  BY WFMin, NatLessThanWellFounded
<1>2. ASSUME NEW m \in T PROVE n <= m
  <2>1. n \in Nat /\ m \in Nat
    OBVIOUS
  <2>2. ~(m < n)
    BY <1>1, <2>1 DEF OpToRel
  <2> QED BY <2>1, <2>2
<1> QED BY <1>2

LEMMA MinOf ==
  ASSUME NEW T \in SUBSET Nat, T # {}
  PROVE  Min(T) \in T /\ \A m \in T : Min(T) <= m
BY Least DEF Min

LEMMA MaxOf ==
  ASSUME NEW n \in Nat, NEW T \in SUBSET (1 .. n), T # {}
  PROVE  Max(T) \in T /\ \A m \in T : m <= Max(T)
<1> DEFINE U == {m \in Nat : \A t \in T : t <= m}
<1>1. n \in U
  OBVIOUS
<1>2. PICK u \in U : \A m \in U : u <= m
  BY <1>1, Least
<1>3. u \in T
  <2> SUFFICES ASSUME u \notin T PROVE FALSE
    OBVIOUS
  <2>1. PICK t \in T : TRUE
    OBVIOUS
  <2>2. u - 1 \in Nat /\ \A x \in T : x <= u - 1
    BY <2>1
  <2> QED BY <1>2, <2>2
<1> QED BY <1>3 DEF Max

-----------------------------------------------------------------------------
(* Sections and offsets in the source.                                     *)

Switches(src, k) == {j \in 1 .. k - 1 : src[j].stmt.kind = "section"}

LEMMA SectionFirst ==
  ASSUME NEW src
  PROVE  SectionAt(src, 1) = NoSection
BY DEF SectionAt

LEMMA SectionNext ==
  ASSUME NEW src, NEW k \in Nat \ {0}
  PROVE  SectionAt(src, k + 1)
           = IF src[k].stmt.kind = "section" THEN src[k].stmt.to ELSE SectionAt(src, k)
<1>1. CASE src[k].stmt.kind = "section"
  <2>1. Switches(src, k + 1) \in SUBSET (1 .. k) /\ k \in Switches(src, k + 1)
    BY <1>1 DEF Switches
  <2>2. Max(Switches(src, k + 1)) = k
    <3>1. Switches(src, k + 1) # {} /\ k \in Nat
      BY <2>1
    <3>2. /\ Max(Switches(src, k + 1)) \in Switches(src, k + 1)
          /\ \A m \in Switches(src, k + 1) : m <= Max(Switches(src, k + 1))
      BY <2>1, <3>1, MaxOf
    <3> QED BY <2>1, <3>2
  <2> QED BY <1>1, <2>1, <2>2 DEF SectionAt, Switches
<1>2. CASE src[k].stmt.kind # "section"
  <2>1. Switches(src, k + 1) = Switches(src, k)
    BY <1>2 DEF Switches
  <2> QED BY <1>2, <2>1 DEF SectionAt, Switches
<1> QED BY <1>1, <1>2

LEMMA SectionSame ==
  ASSUME NEW src, NEW r, NEW k \in Nat, \A j \in 1 .. k - 1 : src[j] = r[j]
  PROVE  SectionAt(src, k) = SectionAt(r, k)
<1>1. Switches(src, k) = Switches(r, k)
  BY DEF Switches
<1>2. CASE Switches(src, k) # {}
  <2>1. k - 1 \in Nat /\ Switches(src, k) \in SUBSET (1 .. k - 1)
    BY <1>2 DEF Switches
  <2>2. Max(Switches(src, k)) \in 1 .. k - 1
    BY <1>2, <2>1, MaxOf
  <2> QED BY <1>1, <2>2 DEF SectionAt, Switches
<1> QED BY <1>1, <1>2 DEF SectionAt, Switches

LEMMA SectionTyped ==
  ASSUME NEW src \in Seq(Lines), NEW k \in 1 .. Len(src) + 1
  PROVE  SectionAt(src, k) \in Places
<1>1. CASE Switches(src, k) # {}
  <2>1. k - 1 \in Nat /\ Switches(src, k) \in SUBSET (1 .. k - 1)
    BY DEF Switches
  <2>2. Max(Switches(src, k)) \in Switches(src, k)
    BY <1>1, <2>1, MaxOf
  <2>3. src[Max(Switches(src, k))] \in Lines /\ src[Max(Switches(src, k))].stmt.kind = "section"
    BY <2>2 DEF Switches
  <2> QED BY <1>1, <2>3, AssemblerAssumption DEF SectionAt, Switches, StatementOK, Places
<1> QED BY <1>1 DEF SectionAt, Switches, Places

LEMMA SectionGap ==
  ASSUME NEW src, NEW p \in Nat \ {0}, NEW q \in Nat, p <= q,
         \A j \in p .. q - 1 : src[j].stmt.kind # "section"
  PROVE  SectionAt(src, q) = SectionAt(src, p)
<1>1. Switches(src, q) = Switches(src, p)
  BY DEF Switches
<1> QED BY <1>1 DEF SectionAt, Switches

-----------------------------------------------------------------------------
(* The sizes of statements and sections.                                   *)

LEMMA GetValuesTyped ==
  ASSUME NEW S, NEW items \in Seq(S)
  PROVE  GetValues(items) \in Seq(S)
<1> DEFINE bad == {k \in DOMAIN items : ~items[k].number}
           n == IF bad = {} THEN Len(items) ELSE Min(bad) - 1
<1>1. bad \in SUBSET (1 .. Len(items))
  OBVIOUS
<1>2. n \in 0 .. Len(items)
  <2>1. bad \in SUBSET Nat
    BY <1>1
  <2> HIDE DEF bad
  <2>2. CASE bad # {}
    <3>1. Min(bad) \in bad
      BY <2>1, <2>2, MinOf
    <3>2. Min(bad) \in 1 .. Len(items) /\ Len(items) \in Nat
      <4>1. \A k \in bad : k \in 1 .. Len(items)
        BY DEF bad
      <4> HIDE DEF n
      <4> QED BY <3>1, <4>1
    <3>3. Min(bad) - 1 \in 0 .. Len(items)
      BY <3>2
    <3> QED BY <2>2, <3>3
  <2>3. Len(items) \in 0 .. Len(items)
    OBVIOUS
  <2> QED BY <2>2, <2>3
<1>3. GetValues(items) = SubSeq(items, 1, n)
  BY DEF GetValues
<1> HIDE DEF n, bad
<1> QED BY <1>2, <1>3

LEMMA ValueBytesLen ==
  ASSUME NEW s, StatementOK(s), s.kind = "values"
  PROVE  /\ DOMAIN ValueBytes(s) = 1 .. SizeOf(s)
         /\ SizeOf(s) \in Nat
         /\ ValueBytes(s) \in Seq(Range(ValueBytes(s)))
         /\ Len(ValueBytes(s)) = SizeOf(s)
<1>1. GetValues(s.items) \in Seq([number : BOOLEAN, value : Int]) /\ s.width \in Nat
  BY GetValuesTyped DEF StatementOK
<1>2. SizeOf(s) = s.width * Len(GetValues(s.items)) /\ Len(GetValues(s.items)) \in Nat
  BY <1>1 DEF SizeOf
<1>3. SizeOf(s) \in Nat
  <2> DEFINE w == s.width
             l == Len(GetValues(s.items))
  <2>1. w \in Nat /\ l \in Nat /\ SizeOf(s) = w * l
    BY <1>1, <1>2
  <2> HIDE DEF w, l
  <2> QED BY <2>1
<1> DEFINE n == SizeOf(s)
<1>4. ValueBytes(s) = [k \in 1 .. n |->
         (GetValues(s.items)[1 + (k - 1) \div s.width].value \div 256 ^ ((k - 1) % s.width)) % 256]
  BY <1>2 DEF ValueBytes, ConvertToBytes
<1> DEFINE b == ValueBytes(s)
<1>5. DOMAIN b = 1 .. n /\ b = [k \in 1 .. n |-> b[k]]
  BY <1>4
<1> HIDE DEF b, n
<1>6. b \in [1 .. n -> Range(b)]
  BY <1>5 DEF Range
<1>7. n \in Nat
  BY <1>3 DEF n
<1>8. b \in Seq(Range(b))
  BY <1>6, <1>7, SeqDef
<1>9. Len(b) = n
  BY <1>5, <1>7, <1>8, LenProperties
<1> QED BY <1>3, <1>5, <1>8, <1>9 DEF b, n

(* f holds what the first m sequences are together.                        *)
Joining(ss, m, f) ==
  f = [i \in 1 .. m |-> IF i = 1 THEN ss[i] ELSE f[i - 1] \o ss[i]]

LEMMA JoiningExists ==
  ASSUME NEW ss, NEW N \in Nat
  PROVE  \E f : Joining(ss, N, f)
<1> DEFINE bad == {m \in Nat : ~\E f : Joining(ss, m, f)}
<1> SUFFICES ASSUME bad # {} PROVE FALSE
  OBVIOUS
<1>1. PICK m \in bad : \A k \in bad : m <= k
  <2>1. bad \in SUBSET Nat
    OBVIOUS
  <2> HIDE DEF bad
  <2> QED BY <2>1, Least
<1>2. m \in Nat /\ ~\E f : Joining(ss, m, f)
  OBVIOUS
<1>3. CASE m = 0
  <2> DEFINE f == [i \in 1 .. 0 |-> ss[i]]
  <2>1. f = [i \in 1 .. 0 |-> IF i = 1 THEN ss[i] ELSE f[i - 1] \o ss[i]]
    OBVIOUS
  <2>2. Joining(ss, 0, f)
    BY <2>1 DEF Joining
  <2> QED BY <1>2, <1>3, <2>2
<1>4. CASE m # 0
  <2>1. m - 1 \in Nat
    BY <1>2, <1>4
  <2>2. m - 1 \notin bad
    BY <1>1, <1>2, <2>1
  <2>3. PICK f : Joining(ss, m - 1, f)
    BY <2>1, <2>2
  <2> DEFINE e == [i \in 1 .. m |-> IF i = m THEN (IF m = 1 THEN ss[m] ELSE f[m - 1] \o ss[m]) ELSE f[i]]
             g == [i \in 1 .. m |-> IF i = 1 THEN ss[i] ELSE e[i - 1] \o ss[i]]
  <2>4. \A i \in 1 .. m - 1 : f[i] = IF i = 1 THEN ss[i] ELSE f[i - 1] \o ss[i]
    <3>1. f = [i \in 1 .. m - 1 |-> IF i = 1 THEN ss[i] ELSE f[i - 1] \o ss[i]]
      BY <2>3 DEF Joining
    <3> QED BY <3>1
  <2>5. /\ e[m] = IF m = 1 THEN ss[m] ELSE f[m - 1] \o ss[m]
        /\ \A i \in 1 .. m - 1 : e[i] = f[i]
    <3>1. m \in 1 .. m /\ \A i \in 1 .. m - 1 : i \in 1 .. m /\ i # m
      BY <1>2, <1>4
    <3> QED BY <3>1
  <2>6. ASSUME NEW i \in 1 .. m PROVE e[i] = IF i = 1 THEN ss[i] ELSE e[i - 1] \o ss[i]
    <3> HIDE DEF e
    <3>1. CASE i \in 1 .. m - 1
      <4>1. i # 1 => i - 1 \in 1 .. m - 1
        BY <2>1, <3>1
      <4> QED BY <2>4, <2>5, <3>1, <4>1
    <3>2. CASE i = m
      <4>1. i # 1 => m - 1 \in 1 .. m - 1
        BY <2>1, <3>2
      <4> QED BY <2>5, <3>2, <4>1
    <3> QED BY <1>2, <3>1, <3>2
  <2>7. e = g
    BY <2>6
  <2>8. Joining(ss, m, e)
    BY <2>7 DEF Joining
  <2> QED BY <1>2, <2>8
<1> QED BY <1>3, <1>4

LEMMA Flattened ==
  ASSUME NEW S, NEW ss \in Seq(Seq(S))
  PROVE  /\ FlattenSeq(ss) \in Seq(S)
         /\ Range(FlattenSeq(ss)) = UNION {Range(ss[k]) : k \in DOMAIN ss}
<1> DEFINE N == Len(ss)
<1>1. N \in Nat /\ DOMAIN ss = 1 .. N
  OBVIOUS
<1>2. CASE N = 0
  <2>1. ss = << >> /\ FlattenSeq(ss) = << >>
    BY <1>2 DEF FlattenSeq
  <2>2. DOMAIN ss = {} /\ Range(ss) = {}
    BY <1>1, <1>2 DEF Range
  <2>3. UNION {Range(ss[k]) : k \in DOMAIN ss} = {} /\ Range(FlattenSeq(ss)) = {}
    BY <2>1, <2>2
  <2>4. << >> \in Seq(S)
    OBVIOUS
  <2> QED BY <2>1, <2>3, <2>4
<1>3. CASE N # 0
  <2> DEFINE f == CHOOSE f : Joining(ss, N, f)
  <2>1. Joining(ss, N, f)
    BY <1>1, JoiningExists
  <2>2. FlattenSeq(ss) = f[N]
    BY <1>3 DEF FlattenSeq, Joining
  <2> HIDE DEF f
  <2>3. \A i \in 1 .. N : f[i] = IF i = 1 THEN ss[i] ELSE f[i - 1] \o ss[i]
    <3>1. f = [i \in 1 .. N |-> IF i = 1 THEN ss[i] ELSE f[i - 1] \o ss[i]]
      BY <2>1 DEF Joining
    <3> QED BY <3>1
  <2> DEFINE Good(i) == f[i] \in Seq(S) /\ Range(f[i]) = UNION {Range(ss[k]) : k \in 1 .. i}
             bad == {i \in 1 .. N : ~Good(i)}
  <2>4. bad = {}
    <3> SUFFICES ASSUME bad # {} PROVE FALSE
      OBVIOUS
    <3>1. bad \in SUBSET Nat
      OBVIOUS
    <3>2. PICK i \in bad : \A k \in bad : i <= k
      <4> HIDE DEF bad
      <4> QED BY <3>1, Least
    <3>3. i \in 1 .. N /\ ~Good(i)
      OBVIOUS
    <3>4. CASE i = 1
      <4>1. f[1] = ss[1] /\ ss[1] \in Seq(S)
        BY <1>1, <2>3, <3>3, <3>4, SMTT(30)
      <4>2. UNION {Range(ss[k]) : k \in 1 .. 1} = Range(ss[1])
        OBVIOUS
      <4> QED BY <3>3, <3>4, <4>1, <4>2
    <3>5. CASE i # 1
      <4>1. i - 1 \in 1 .. N /\ i - 1 < i
        BY <3>3, <3>5
      <4>2. Good(i - 1)
        <5>1. i - 1 \notin bad
          <6> HIDE DEF bad
          <6> QED BY <3>1, <3>2, <4>1
        <5> QED BY <4>1, <5>1
      <4>3. f[i] = f[i - 1] \o ss[i] /\ ss[i] \in Seq(S)
        <5> HIDE DEF bad, N, Good
        <5>1. i \in 1 .. N
          BY <3>3
        <5>2. f[i] = f[i - 1] \o ss[i]
          BY <2>3, <3>5, <5>1
        <5>3. ss[i] \in Seq(S)
          BY <5>1, ElementOfSeq DEF N
        <5> QED BY <5>2, <5>3
      <4>4. f[i] \in Seq(S) /\ Range(f[i]) = Range(f[i - 1]) \cup Range(ss[i])
        BY <4>2, <4>3, RangeConcatenation, ConcatProperties
      <4>5. UNION {Range(ss[k]) : k \in 1 .. i} = (UNION {Range(ss[k]) : k \in 1 .. i - 1}) \cup Range(ss[i])
        <5>1. 1 .. i = (1 .. i - 1) \cup {i}
          BY <3>3
        <5> DEFINE U == 1 .. i - 1
        <5>2. 1 .. i = U \cup {i}
          BY <5>1
        <5> HIDE DEF U
        <5>3. UNION {Range(ss[k]) : k \in U \cup {i}} = (UNION {Range(ss[k]) : k \in U}) \cup Range(ss[i])
          OBVIOUS
        <5> QED BY <5>2, <5>3 DEF U
      <4> QED BY <3>3, <4>2, <4>4, <4>5
    <3> QED BY <3>4, <3>5
  <2>5. Good(N)
    <3>1. N \in 1 .. N
      BY <1>1, <1>3
    <3> QED BY <2>4, <3>1
  <2> HIDE DEF N
  <2> QED BY <1>1, <2>2, <2>5
<1> QED BY <1>2, <1>3

LEMMA StringBytesTyped ==
  ASSUME NEW s, StatementOK(s), s.kind = "strings"
  PROVE  /\ StringBytes(s) \in Seq(Nat)
         /\ Len(StringBytes(s)) = SizeOf(s)
<1> DEFINE end == IF s.zero THEN <<0>> ELSE << >>
           ss == [k \in DOMAIN s.texts |-> s.texts[k] \o end]
           N == Len(s.texts)
<1>1. end \in Seq(Nat)
  OBVIOUS
<1>2. N \in Nat /\ DOMAIN s.texts = 1 .. N /\ \A k \in 1 .. N : s.texts[k] \in Seq(Nat)
  BY DEF StatementOK
<1>3. StringBytes(s) = FlattenSeq(ss)
  BY DEF StringBytes
<1> HIDE DEF end
<1>4. \A k \in 1 .. N : ss[k] \in Seq(Nat)
  BY <1>1, <1>2, ConcatProperties
<1>5. ss \in [1 .. N -> Seq(Nat)]
  BY <1>2, <1>4
<1> HIDE DEF ss, N
<1>6. ss \in Seq(Seq(Nat))
  BY <1>2, <1>5, SeqDef
<1>7. StringBytes(s) \in Seq(Nat)
  BY <1>3, <1>6, Flattened
<1> QED BY <1>7 DEF SizeOf

LEMMA SizeTyped ==
  ASSUME NEW s, StatementOK(s)
  PROVE  SizeOf(s) \in Nat
<1>1. CASE s.kind = "values"
  BY <1>1, ValueBytesLen
<1>2. CASE s.kind = "strings"
  BY <1>2, StringBytesTyped
<1>3. CASE s.kind \notin {"values", "strings"}
  BY <1>3 DEF SizeOf, StatementOK
<1> QED BY <1>1, <1>2, <1>3

(* What the lines before line k take of a section, byte by byte.            *)
Taken(src, section, k) ==
  UNION {{j} \X (1 .. SizeOf(src[j].stmt)) : j \in {i \in 1 .. k - 1 : SectionAt(src, i) = section}}

LEMMA TakenIs ==
  ASSUME NEW src, NEW section, NEW k, NEW t
  PROVE  t \in Taken(src, section, k)
           <=> \E j \in 1 .. k - 1 : /\ SectionAt(src, j) = section
                                     /\ t \in {j} \X (1 .. SizeOf(src[j].stmt))
BY DEF Taken

LEMMA TakenNext ==
  ASSUME NEW src, NEW section, NEW k \in Nat \ {0}
  PROVE  Taken(src, section, k + 1)
           = IF SectionAt(src, k) = section
               THEN Taken(src, section, k) \cup ({k} \X (1 .. SizeOf(src[k].stmt)))
               ELSE Taken(src, section, k)
<1>1. \A j : j \in 1 .. (k + 1) - 1 <=> j \in 1 .. k - 1 \/ j = k
  OBVIOUS
<1>2. ASSUME NEW t
      PROVE  t \in Taken(src, section, k + 1)
               <=> \/ t \in Taken(src, section, k)
                   \/ SectionAt(src, k) = section /\ t \in {k} \X (1 .. SizeOf(src[k].stmt))
  <2>1. t \in Taken(src, section, k + 1)
           <=> \E j \in 1 .. (k + 1) - 1 : /\ SectionAt(src, j) = section
                                           /\ t \in {j} \X (1 .. SizeOf(src[j].stmt))
    BY TakenIs
  <2>2. t \in Taken(src, section, k)
           <=> \E j \in 1 .. k - 1 : /\ SectionAt(src, j) = section
                                     /\ t \in {j} \X (1 .. SizeOf(src[j].stmt))
    BY TakenIs
  <2> QED BY <1>1, <2>1, <2>2, Zenon
<1>3. CASE SectionAt(src, k) = section
  BY <1>2, <1>3, Zenon
<1>4. CASE SectionAt(src, k) # section
  BY <1>2, <1>4, Zenon
<1> QED BY <1>3, <1>4

LEMMA BytesOfLine ==
  ASSUME NEW k, NEW n \in Nat
  PROVE  IsFiniteSet({k} \X (1 .. n)) /\ Cardinality({k} \X (1 .. n)) = n
<1> DEFINE I == 1 .. n
           K == {k}
<1>1. IsFiniteSet(I) /\ Cardinality(I) = n
  BY FS_Interval
<1>2. IsFiniteSet(K) /\ Cardinality(K) = 1
  BY FS_Singleton
<1> HIDE DEF I, K
<1>3. IsFiniteSet(K \X I) /\ Cardinality(K \X I) = Cardinality(K) * Cardinality(I)
  BY <1>1, <1>2, FS_Product
<1>4. Cardinality(K \X I) = n
  BY <1>1, <1>2, <1>3
<1> QED BY <1>3, <1>4 DEF I, K

LEMMA TakenFinite ==
  ASSUME NEW src \in Seq(Lines), NEW section, NEW k \in 1 .. Len(src) + 1
  PROVE  IsFiniteSet(Taken(src, section, k))
<1> DEFINE bad == {i \in 1 .. Len(src) + 1 : ~IsFiniteSet(Taken(src, section, i))}
<1>1. bad = {}
  <2> SUFFICES ASSUME bad # {} PROVE FALSE
    OBVIOUS
  <2>1. bad \in SUBSET Nat
    OBVIOUS
  <2>2. PICK i \in bad : \A j \in bad : i <= j
    <3> HIDE DEF bad
    <3> QED BY <2>1, Least
  <2>3. i \in 1 .. Len(src) + 1 /\ ~IsFiniteSet(Taken(src, section, i))
    OBVIOUS
  <2>4. CASE i = 1
    <3>1. Taken(src, section, 1) = {}
      BY DEF Taken
    <3> QED BY <2>3, <2>4, <3>1, FS_EmptySet
  <2>5. CASE i # 1
    <3>1. i - 1 \in 1 .. Len(src) /\ i - 1 \in 1 .. Len(src) + 1 /\ i - 1 < i /\ i - 1 \in Nat \ {0} /\ i = (i - 1) + 1
      BY <2>3, <2>5
    <3>2. IsFiniteSet(Taken(src, section, i - 1))
      <4>1. i - 1 \notin bad
        <5> HIDE DEF bad
        <5> QED BY <2>1, <2>2, <3>1
      <4> QED BY <3>1, <4>1
    <3> DEFINE size == SizeOf(src[i - 1].stmt)
    <3>3. size \in Nat
      BY <3>1, SizeTyped, AssemblerAssumption
    <3>4. IsFiniteSet({i - 1} \X (1 .. size))
      BY <3>3, BytesOfLine
    <3> DEFINE T == Taken(src, section, i - 1)
               U == {i - 1} \X (1 .. size)
    <3>5. IsFiniteSet(T \cup U)
      <4> HIDE DEF T, U
      <4> QED BY <3>2, <3>4, FS_Union DEF T, U
    <3>6. Taken(src, section, (i - 1) + 1) = IF SectionAt(src, i - 1) = section THEN T \cup U ELSE T
      BY <3>1, TakenNext, ZenonT(60)
    <3> HIDE DEF U, T, bad
    <3> QED BY <2>3, <3>1, <3>2, <3>5, <3>6 DEF T
  <2> QED BY <2>4, <2>5
<1> QED BY <1>1

LEMMA SizeFirst ==
  ASSUME NEW src, NEW section
  PROVE  SizeBefore(src, section, 1) = 0
<1>1. Taken(src, section, 1) = {}
  BY DEF Taken
<1>2. SizeBefore(src, section, 1) = Cardinality(Taken(src, section, 1))
  BY DEF SizeBefore, Taken
<1> QED BY <1>1, <1>2, FS_EmptySet

LEMMA SizeBeforeTyped ==
  ASSUME NEW src \in Seq(Lines), NEW section, NEW k \in 1 .. Len(src) + 1
  PROVE  SizeBefore(src, section, k) \in Nat
<1>1. SizeBefore(src, section, k) = Cardinality(Taken(src, section, k))
  BY DEF SizeBefore, Taken
<1> QED BY <1>1, TakenFinite, FS_CardinalityType

LEMMA SizeNext ==
  ASSUME NEW src \in Seq(Lines), NEW section, NEW k \in DOMAIN src
  PROVE  SizeBefore(src, section, k + 1)
           = SizeBefore(src, section, k) + (IF SectionAt(src, k) = section THEN SizeOf(src[k].stmt) ELSE 0)
<1> DEFINE T == Taken(src, section, k)
           size == SizeOf(src[k].stmt)
           U == {k} \X (1 .. size)
<1>1. k \in 1 .. Len(src) + 1 /\ k \in Nat \ {0}
  OBVIOUS
<1>2. SizeBefore(src, section, k) = Cardinality(T) /\ SizeBefore(src, section, k + 1) = Cardinality(Taken(src, section, k + 1))
  BY DEF SizeBefore, Taken
<1>3. IsFiniteSet(T) /\ Cardinality(T) \in Nat
  BY <1>1, TakenFinite, FS_CardinalityType
<1>4. CASE SectionAt(src, k) = section
  <2>1. size \in Nat
    BY SizeTyped, AssemblerAssumption
  <2>2. IsFiniteSet(U) /\ Cardinality(U) = size
    BY <2>1, BytesOfLine
  <2>3. T \cap U = {}
    <3> SUFFICES ASSUME NEW t, t \in T, t \in U PROVE FALSE
      OBVIOUS
    <3>1. PICK j \in 1 .. k - 1 : t \in {j} \X (1 .. SizeOf(src[j].stmt))
      BY TakenIs
    <3>2. t[1] = j /\ t[1] = k
      BY <3>1
    <3> QED BY <3>2, <1>1
  <2>4. Taken(src, section, k + 1) = T \cup U
    BY <1>1, <1>4, TakenNext
  <2> HIDE DEF T, U, size
  <2>5. Cardinality(T \cup U) = Cardinality(T) + Cardinality(U) - Cardinality({})
    BY <1>3, <2>2, <2>3, FS_Union
  <2>6. Cardinality({}) = 0
    BY FS_EmptySet
  <2>7. Cardinality(T \cup U) = Cardinality(T) + size
    BY <1>3, <2>1, <2>2, <2>5, <2>6
  <2>8. SizeBefore(src, section, k + 1) = SizeBefore(src, section, k) + size
    BY <1>2, <2>4, <2>7
  <2> QED BY <1>4, <2>8 DEF size
<1>5. CASE SectionAt(src, k) # section
  <2>1. Taken(src, section, k + 1) = T
    BY <1>1, <1>5, TakenNext
  <2> HIDE DEF T
  <2> QED BY <1>2, <1>3, <1>5, <2>1
<1> QED BY <1>4, <1>5

LEMMA SizeSame ==
  ASSUME NEW src, NEW r, NEW section, NEW k \in Nat, \A j \in 1 .. k - 1 : src[j] = r[j]
  PROVE  SizeBefore(src, section, k) = SizeBefore(r, section, k)
<1>1. \A i \in 1 .. k - 1 : SectionAt(src, i) = SectionAt(r, i)
  <2> TAKE i \in 1 .. k - 1
  <2>1. i \in Nat /\ \A j \in 1 .. i - 1 : src[j] = r[j]
    OBVIOUS
  <2> QED BY <2>1, SectionSame
<1>2. \A t : t \in Taken(src, section, k) <=> t \in Taken(r, section, k)
  <2>1. \A j \in 1 .. k - 1 : {j} \X (1 .. SizeOf(src[j].stmt)) = {j} \X (1 .. SizeOf(r[j].stmt))
    OBVIOUS
  <2> TAKE t
  <2>2. t \in Taken(src, section, k)
           <=> \E j \in 1 .. k - 1 : /\ SectionAt(src, j) = section
                                     /\ t \in {j} \X (1 .. SizeOf(src[j].stmt))
    BY TakenIs
  <2>3. t \in Taken(r, section, k)
           <=> \E j \in 1 .. k - 1 : /\ SectionAt(r, j) = section
                                     /\ t \in {j} \X (1 .. SizeOf(r[j].stmt))
    BY TakenIs
  <2>4. \A j \in 1 .. k - 1 : /\ SectionAt(src, j) = section <=> SectionAt(r, j) = section
                             /\ t \in {j} \X (1 .. SizeOf(src[j].stmt)) <=> t \in {j} \X (1 .. SizeOf(r[j].stmt))
    BY <1>1, <2>1
  <2> QED BY <2>2, <2>3, <2>4, Zenon
<1>3. Taken(src, section, k) = Taken(r, section, k)
  BY <1>2
<1> QED BY <1>3 DEF SizeBefore, Taken

(* Lines without a statement take nothing.                                 *)
LEMMA SizeGap ==
  ASSUME NEW src, NEW section, NEW p \in Nat \ {0}, NEW q \in Nat, p <= q,
         \A j \in p .. q - 1 : src[j].stmt.kind = "empty"
  PROVE  SizeBefore(src, section, q) = SizeBefore(src, section, p)
<1>1. \A j \in p .. q - 1 : SizeOf(src[j].stmt) = 0
  BY DEF SizeOf
<1>2. \A t, j : j \in p .. q - 1 => t \notin {j} \X (1 .. SizeOf(src[j].stmt))
  BY <1>1
<1>3. \A j : j \in 1 .. q - 1 <=> j \in 1 .. p - 1 \/ j \in p .. q - 1
  OBVIOUS
<1>4. \A t : t \in Taken(src, section, q) <=> t \in Taken(src, section, p)
  BY <1>2, <1>3, TakenIs, Zenon
<1>5. Taken(src, section, q) = Taken(src, section, p)
  BY <1>4
<1> QED BY <1>5 DEF SizeBefore, Taken

-----------------------------------------------------------------------------
(* The assembler's state.                                                  *)

(* The entry that the table has for a name.                                *)
At(a, name) == a.symtab[a.indices[name]]

(* Names and entries correspond.                                           *)
Corresponds(t, i) ==
  /\ \A k \in DOMAIN t : t[k].name \in DOMAIN i /\ i[t[k].name] = k
  /\ \A n \in DOMAIN i : i[n] \in DOMAIN t /\ t[i[n]].name = n
TableOK(a) == Corresponds(a.symtab, a.indices)

SameTable(a, b) == b.symtab = a.symtab /\ b.indices = a.indices

Moved(location, section, n) ==
  [s \in Places |-> IF s = section THEN location[s] + n ELSE location[s]]
WithLocation(a, section, n) == [a EXCEPT !.location[section] = @ + n]

LEMMA WithLocationEffect ==
  ASSUME NEW a \in Assemblers, NEW section \in Places, NEW n \in Int
  PROVE  /\ WithLocation(a, section, n) \in Assemblers
         /\ WithLocation(a, section, n).location = Moved(a.location, section, n)
         /\ WithLocation(a, section, n).lines = a.lines
         /\ WithLocation(a, section, n).current = a.current
         /\ WithLocation(a, section, n).undefined = a.undefined
         /\ WithLocation(a, section, n).ok = a.ok
         /\ SameTable(a, WithLocation(a, section, n))
<1> DEFINE l == [a.location EXCEPT ![section] = a.location[section] + n]
<1>1. a.location \in [Places -> Int]
  BY DEF Assemblers
<1>2. l \in [Places -> Int] /\ l = Moved(a.location, section, n)
  BY <1>1 DEF Moved
<1>3. WithLocation(a, section, n) = [a EXCEPT !.location = l]
  BY DEF WithLocation
<1> HIDE DEF l
<1> QED BY <1>2, <1>3 DEF Assemblers, SameTable

(* The table with a name more.                                             *)
NewIndices(a, name) ==
  [n \in DOMAIN a.indices \cup {name} |-> IF n = name THEN Len(a.symtab) + 1 ELSE a.indices[n]]

Added(a, b, name, entry) ==
  /\ b \in Assemblers
  /\ b.symtab = Append(a.symtab, entry)
  /\ b.indices = NewIndices(a, name)
  /\ b.lines = a.lines /\ b.current = a.current /\ b.location = a.location
  /\ b.undefined = a.undefined \ {name} /\ b.ok = a.ok

LEMMA AddSymbolFields ==
  ASSUME NEW a \in Assemblers, NEW name \in AllNames \ DOMAIN a.indices, NEW value \in Int,
         NEW size \in Int, NEW section \in Sections,
         NEW b, b = AddSymbol(a, name, value, size, section)
  PROVE  Added(a, b, name, Symbol(name, value, size, section))
<1> DEFINE t == Append(a.symtab, Symbol(name, value, size, section))
           i == NewIndices(a, name)
           u == a.undefined \ {name}
<1>1. section # NoSection
  BY DEF Sections, NoSection
<1>2. b = [a EXCEPT !.symtab = t, !.indices = i, !.undefined = u]
  BY <1>1 DEF AddSymbol, NewIndices
<1>3. t \in Seq(Symbols)
  <2>1. Symbol(name, value, size, section) \in Symbols
    BY DEF Symbol, Symbols, Places
  <2> QED BY <2>1 DEF Assemblers
<1>4. i \in UNION {[D -> Nat] : D \in SUBSET AllNames}
  <2>1. a.indices \in UNION {[D -> Nat] : D \in SUBSET AllNames} /\ a.symtab \in Seq(Symbols)
    BY DEF Assemblers
  <2>2. PICK D \in SUBSET AllNames : a.indices \in [D -> Nat]
    BY <2>1
  <2>3. i \in [D \cup {name} -> Nat]
    BY <2>1, <2>2 DEF NewIndices
  <2> HIDE DEF i
  <2>4. D \cup {name} \in SUBSET AllNames
    OBVIOUS
  <2> QED BY <2>3, <2>4
<1>5. u \in SUBSET AllNames
  BY DEF Assemblers
<1> HIDE DEF t, i, u
<1>6. b \in Assemblers /\ b.symtab = t /\ b.indices = i /\ b.undefined = u
      /\ b.lines = a.lines /\ b.current = a.current /\ b.location = a.location /\ b.ok = a.ok
  BY <1>2, <1>3, <1>4, <1>5 DEF Assemblers
<1> QED BY <1>6 DEF t, i, u, Added

Extended(a, b, name, entry) ==
  /\ TableOK(b)
  /\ DOMAIN b.indices = DOMAIN a.indices \cup {name}
  /\ \A n \in DOMAIN a.indices : At(b, n) = At(a, n)
  /\ At(b, name) = entry

LEMMA AddSymbolTable ==
  ASSUME NEW a \in Assemblers, TableOK(a), NEW name \in AllNames \ DOMAIN a.indices, NEW value \in Int,
         NEW size \in Int, NEW section \in Sections,
         NEW b, b = AddSymbol(a, name, value, size, section)
  PROVE  Extended(a, b, name, Symbol(name, value, size, section))
<1> DEFINE e == Symbol(name, value, size, section)
           N == Len(a.symtab)
<1>1. b.symtab = Append(a.symtab, e) /\ b.indices = NewIndices(a, name)
  <2>1. Added(a, b, name, e)
    BY AddSymbolFields
  <2> QED BY <2>1 DEF Added
<1>2. e \in Symbols /\ e.name = name
  BY DEF Symbol, Symbols, Places
<1>3. a.symtab \in Seq(Symbols) /\ N \in Nat /\ DOMAIN a.symtab = 1 .. N
  BY DEF Assemblers
<1> HIDE DEF e
<1>4. /\ DOMAIN b.symtab = 1 .. N + 1 /\ b.symtab[N + 1] = e
      /\ \A k \in 1 .. N : b.symtab[k] = a.symtab[k]
  BY <1>1, <1>2, <1>3
<1> HIDE DEF N
<1>5. /\ DOMAIN b.indices = DOMAIN a.indices \cup {name} /\ b.indices[name] = N + 1
      /\ \A n \in DOMAIN a.indices : b.indices[n] = a.indices[n]
  BY <1>1 DEF NewIndices, N
<1>6. \A n \in DOMAIN a.indices : a.indices[n] \in 1 .. N
  BY <1>3 DEF TableOK, Corresponds
<1>7. \A n \in DOMAIN a.indices : At(b, n) = At(a, n)
  BY <1>4, <1>5, <1>6 DEF At
<1>8. At(b, name) = e
  BY <1>4, <1>5 DEF At
<1>9. ASSUME NEW k \in DOMAIN b.symtab
      PROVE  b.symtab[k].name \in DOMAIN b.indices /\ b.indices[b.symtab[k].name] = k
  <2>1. CASE k = N + 1
    BY <1>2, <1>4, <1>5, <2>1
  <2>2. CASE k # N + 1
    <3>1. k \in 1 .. N
      BY <1>3, <1>4, <2>2
    <3> QED BY <1>3, <1>4, <1>5, <3>1 DEF TableOK, Corresponds
  <2> QED BY <2>1, <2>2
<1>10. ASSUME NEW n \in DOMAIN b.indices
       PROVE  b.indices[n] \in DOMAIN b.symtab /\ At(b, n).name = n
  <2>1. CASE n = name
    BY <1>2, <1>3, <1>4, <1>5, <1>8, <2>1
  <2>2. CASE n # name
    <3>1. n \in DOMAIN a.indices
      BY <1>5, <2>2
    <3>2. At(a, n).name = n
      BY <3>1 DEF TableOK, Corresponds, At
    <3> QED BY <1>3, <1>4, <1>5, <1>6, <1>7, <3>1, <3>2
  <2> QED BY <2>1, <2>2
<1>11. TableOK(b)
  BY <1>9, <1>10 DEF TableOK, Corresponds, At
<1> QED BY <1>5, <1>7, <1>8, <1>11 DEF e, Extended

-----------------------------------------------------------------------------
(* Statements.                                                             *)

(* The values that the first pass refuses end it.                          *)
Acceptable(s) ==
  /\ s.kind \in {"op", "section", "global", "space", "values", "strings"}
  /\ s.kind = "values" =>
       \A k \in DOMAIN GetValues(s.items) : s.signed \/ ~(GetValues(s.items)[k].value < 0)

DataBytes(s) ==
  CASE s.kind = "values" -> ValueBytes(s) [] s.kind = "strings" -> StringBytes(s) [] OTHER -> << >>

(* A byte is a number, or whatever 256^n makes of one.                     *)
AllBytes == Int \cup UNION {Range(ValueBytes(s)) : s \in {x \in Stmts : x.kind = "values"}}

LEMMA StmtOK ==
  ASSUME NEW s \in Stmts
  PROVE  StatementOK(s) /\ SizeOf(s) \in Nat
BY AssemblerAssumption, SizeTyped DEF Stmts

LEMMA DataBytesTyped ==
  ASSUME NEW s \in Stmts
  PROVE  /\ DataBytes(s) \in Seq(AllBytes)
         /\ s.kind \in {"values", "strings"} => Len(DataBytes(s)) = SizeOf(s)
<1>1. StatementOK(s)
  BY StmtOK
<1>2. CASE s.kind = "values"
  <2>1. ValueBytes(s) \in Seq(Range(ValueBytes(s))) /\ Len(ValueBytes(s)) = SizeOf(s)
    BY <1>1, <1>2, ValueBytesLen
  <2>2. Range(ValueBytes(s)) \subseteq AllBytes
    BY <1>2 DEF AllBytes
  <2>3. ValueBytes(s) \in Seq(AllBytes)
    BY <2>1, <2>2, SeqMonotonic
  <2> QED BY <1>2, <2>1, <2>3 DEF DataBytes
<1>3. CASE s.kind = "strings"
  <2>1. StringBytes(s) \in Seq(Nat) /\ Len(StringBytes(s)) = SizeOf(s)
    BY <1>1, <1>3, StringBytesTyped
  <2>2. Nat \subseteq AllBytes
    BY DEF AllBytes
  <2>3. StringBytes(s) \in Seq(AllBytes)
    BY <2>1, <2>2, SeqMonotonic
  <2> QED BY <1>3, <2>1, <2>3 DEF DataBytes
<1>4. CASE s.kind \notin {"values", "strings"}
  BY <1>4, EmptySeq DEF DataBytes
<1> QED BY <1>2, <1>3, <1>4

(* What a directive does but for sizes and labels.                         *)
After(a, s) ==
  CASE s.kind = "section" -> SetSection(a, s.to)
    [] s.kind = "global"  -> [a EXCEPT !.global = @ \cup s.names]
    [] OTHER -> a

SectionAfter(section, s) == IF s.kind = "section" THEN s.to ELSE section

LEMMA DirectiveRead ==
  ASSUME NEW a, NEW s \in Stmts, s.kind \notin {"op", "align"}
  PROVE  DirectiveEffect(a, s)
           = IF Acceptable(s) THEN Read(After(a, s), DataBytes(s), SizeOf(s), << >>) ELSE Refused(a)
<1>1. CASE s.kind = "section"
  BY <1>1 DEF DirectiveEffect, Acceptable, After, DataBytes, SizeOf
<1>2. CASE s.kind = "global"
  BY <1>2 DEF DirectiveEffect, Acceptable, After, DataBytes, SizeOf
<1>3. CASE s.kind = "space"
  BY <1>3 DEF DirectiveEffect, Acceptable, After, DataBytes, SizeOf
<1>4. CASE s.kind = "values"
  <2>1. DirectiveEffect(a, s) = ReadValues(a, s) /\ After(a, s) = a /\ DataBytes(s) = ValueBytes(s)
    BY <1>4 DEF DirectiveEffect, After, DataBytes
  <2>2. Len(ValueBytes(s)) = SizeOf(s)
    BY <1>4, StmtOK, ValueBytesLen
  <2>3. StatementOK(s)
    BY StmtOK
  <2>4. Acceptable(s) <=> ~(\E k \in DOMAIN GetValues(s.items) : ~s.signed /\ GetValues(s.items)[k].value < 0)
    BY <1>4, Zenon DEF Acceptable
  <2>5. ReadValues(a, s) = IF \E k \in DOMAIN GetValues(s.items) : ~s.signed /\ GetValues(s.items)[k].value < 0
                             THEN Refused(a) ELSE Read(a, ValueBytes(s), Len(ValueBytes(s)), << >>)
    BY DEF ReadValues
  <2> QED BY <2>1, <2>2, <2>4, <2>5
<1>5. CASE s.kind = "strings"
  <2>1. DirectiveEffect(a, s) = ReadStrings(a, s) /\ After(a, s) = a /\ DataBytes(s) = StringBytes(s)
    BY <1>5 DEF DirectiveEffect, After, DataBytes
  <2>2. Len(StringBytes(s)) = SizeOf(s)
    BY <1>5, StmtOK, StringBytesTyped
  <2> QED BY <1>5, <2>1, <2>2 DEF ReadStrings, Acceptable
<1>6. CASE s.kind \notin {"section", "global", "space", "values", "strings"}
  BY <1>6 DEF DirectiveEffect, Acceptable
<1> QED BY <1>1, <1>2, <1>3, <1>4, <1>5, <1>6

LEMMA AfterEffect ==
  ASSUME NEW a \in Assemblers, NEW s \in Stmts
  PROVE  /\ After(a, s) \in Assemblers
         /\ After(a, s).current = SectionAfter(a.current, s)
         /\ After(a, s).location = a.location
         /\ After(a, s).lines = a.lines
         /\ After(a, s).undefined = a.undefined
         /\ After(a, s).ok = a.ok
         /\ SameTable(a, After(a, s))
<1>1. CASE s.kind = "section"
  <2>1. s.to \in Places
    BY <1>1, StmtOK DEF StatementOK, Places
  <2>2. After(a, s) = [a EXCEPT !.current = s.to]
    BY <1>1 DEF After, SetSection
  <2> QED BY <1>1, <2>1, <2>2 DEF Assemblers, SameTable, SectionAfter
<1>2. CASE s.kind = "global"
  <2> DEFINE g == a.global \cup s.names
  <2>1. g \in SUBSET Globals
    BY DEF Assemblers, Globals, Stmts
  <2>2. After(a, s) = [a EXCEPT !.global = g]
    BY <1>2 DEF After
  <2> HIDE DEF g
  <2> QED BY <1>2, <2>1, <2>2 DEF Assemblers, SameTable, SectionAfter
<1>3. CASE s.kind \notin {"section", "global"}
  BY <1>3 DEF After, SameTable, SectionAfter
<1> QED BY <1>1, <1>2, <1>3

(* A directive with its size.                                              *)
Grown(a, s) ==
  IF SizeOf(s) # 0 /\ a.current # NoSection THEN WithLocation(After(a, s), a.current, SizeOf(s)) ELSE After(a, s)

LEMMA GrownEffect ==
  ASSUME NEW a \in Assemblers, NEW s \in Stmts, a.current # NoSection \/ SizeOf(s) = 0
  PROVE  /\ Grown(a, s) \in Assemblers
         /\ Grown(a, s).current = SectionAfter(a.current, s)
         /\ Grown(a, s).location = Moved(a.location, a.current, SizeOf(s))
         /\ Grown(a, s).lines = a.lines
         /\ Grown(a, s).undefined = a.undefined
         /\ Grown(a, s).ok = a.ok
         /\ SameTable(a, Grown(a, s))
<1>1. SizeOf(s) \in Int /\ a.current \in Places /\ a.location \in [Places -> Int]
  BY StmtOK DEF Assemblers
<1>2. CASE SizeOf(s) # 0
  <2>1. Grown(a, s) = WithLocation(After(a, s), a.current, SizeOf(s))
    BY <1>2 DEF Grown
  <2> QED BY <1>1, <2>1, AfterEffect, WithLocationEffect DEF SameTable
<1>3. CASE SizeOf(s) = 0
  <2>1. Grown(a, s) = After(a, s)
    BY <1>3 DEF Grown
  <2>2. Moved(a.location, a.current, SizeOf(s)) = a.location
    BY <1>1, <1>3 DEF Moved
  <2> QED BY <2>1, <2>2, AfterEffect
<1> QED BY <1>2, <1>3

LEMMA DirectiveUnlabelled ==
  ASSUME NEW a \in Assemblers, a.ok, NEW s \in Stmts, s.kind \notin {"op", "align"}, Acceptable(s)
  PROVE  ParseAsmDirective(a, NoName, s) = Read(Grown(a, s), DataBytes(s), SizeOf(s), << >>)
<1> DEFINE r == Read(After(a, s), DataBytes(s), SizeOf(s), << >>)
<1>1. DirectiveEffect(a, s) = r
  BY DirectiveRead
<1>2. r.asm = After(a, s) /\ r.size = SizeOf(s) /\ r.asm.ok
  BY AfterEffect DEF Read
<1>3. ParseAsmDirective(a, NoName, s) = [r EXCEPT !.asm = Grown(a, s)]
  <2> HIDE DEF r
  <2> QED BY <1>1, <1>2 DEF ParseAsmDirective, Grown, WithLocation
<1> QED BY <1>3 DEF Read

LEMMA DirectiveLabelled ==
  ASSUME NEW a \in Assemblers, a.ok, a.current \in Sections, NEW s \in Stmts,
         s.kind \notin {"op", "align"}, Acceptable(s), NEW label, label # NoName
  PROVE  ParseAsmDirective(a, label, s).asm
           = [AddSymbol(Grown(a, s), label, a.location[a.current], SizeOf(s), a.current) EXCEPT !.ok = TRUE]
<1> DEFINE r == Read(After(a, s), DataBytes(s), SizeOf(s), << >>)
           b == [AddSymbol(Grown(a, s), label, a.location[a.current], SizeOf(s), a.current) EXCEPT !.ok = TRUE]
<1>1. DirectiveEffect(a, s) = r
  BY DirectiveRead
<1>2. r.asm = After(a, s) /\ r.size = SizeOf(s) /\ r.asm.ok /\ a.current # NoSection
  BY AfterEffect DEF Read, Sections, NoSection
<1>3. ParseAsmDirective(a, label, s) = [r EXCEPT !.asm = b]
  <2> HIDE DEF r
  <2> QED BY <1>1, <1>2 DEF ParseAsmDirective, Grown, WithLocation
<1> HIDE DEF b
<1>4. [r EXCEPT !.asm = b].asm = b
  BY DEF Read
<1> QED BY <1>3, <1>4 DEF b

LEMMA DirectiveRefused ==
  ASSUME NEW a \in Assemblers, NEW s \in Stmts, s.kind \notin {"op", "align"}, ~Acceptable(s), NEW label
  PROVE  ~ParseAsmDirective(a, label, s).asm.ok
<1> DEFINE r == Refused(a)
<1>1. DirectiveEffect(a, s) = r
  BY DirectiveRead
<1>2. r.size = 0 /\ ~r.asm.ok /\ r = [asm |-> r.asm, bytes |-> << >>, size |-> 0, names |-> << >>]
  BY DEF Refused, Read, Fail, Assemblers
<1> HIDE DEF r
<1>3. ParseAsmDirective(a, label, s) = [r EXCEPT !.asm = r.asm]
  BY <1>1, <1>2 DEF ParseAsmDirective
<1> QED BY <1>2, <1>3

-----------------------------------------------------------------------------
(* The first pass: what a line does to the assembler.                      *)

FirstStep(a, b, label, s) ==
  /\ b \in Assemblers /\ TableOK(b) /\ b.ok
  /\ b.current = SectionAfter(a.current, s)
  /\ b.location = Moved(a.location, a.current, SizeOf(s))
  /\ DOMAIN b.indices = DOMAIN a.indices \cup ({label} \ {NoName})
  /\ \A n \in DOMAIN a.indices : At(b, n) = At(a, n)
  /\ label \notin DOMAIN a.indices \cup {NoName} =>
       /\ At(b, label).section = a.current
       /\ DataAddressUnit = 1 => At(b, label).value = a.location[a.current]
  /\ IsFiniteSet(a.undefined) => IsFiniteSet(b.undefined)
  /\ a.undefined \subseteq b.undefined \cup DOMAIN b.indices

LEMMA TableSame ==
  ASSUME NEW a, NEW b, SameTable(a, b), TableOK(a)
  PROVE  /\ TableOK(b) /\ DOMAIN b.indices = DOMAIN a.indices
         /\ \A n \in DOMAIN a.indices : At(b, n) = At(a, n)
BY DEF SameTable, TableOK, Corresponds, At

LEMMA OkAgain ==
  ASSUME NEW a \in Assemblers, a.ok
  PROVE  [a EXCEPT !.ok = TRUE] = a /\ [Fail(a) EXCEPT !.ok = TRUE] = a
BY DEF Fail, Assemblers

LEMMA FirstDirective ==
  ASSUME NEW a \in Assemblers, a.ok, TableOK(a), NEW s \in Stmts, s.kind \notin {"op", "align"},
         NEW label \in AllNames, a.current \in Sections \/ (s.kind = "section" /\ label = NoName),
         NEW b, b = ParseAsmDirective(a, label, s).asm, b.ok
  PROVE  FirstStep(a, b, label, s) /\ b.lines = a.lines /\ Acceptable(s)
<1>1. Acceptable(s)
  BY DirectiveRefused
<1>2. a.current # NoSection \/ SizeOf(s) = 0
  BY DEF SizeOf, Sections, NoSection
<1> DEFINE g == Grown(a, s)
<1>3. /\ g \in Assemblers /\ g.current = SectionAfter(a.current, s)
      /\ g.location = Moved(a.location, a.current, SizeOf(s))
      /\ g.lines = a.lines /\ g.undefined = a.undefined /\ g.ok /\ SameTable(a, g)
  BY <1>2, GrownEffect
<1>4. /\ TableOK(g) /\ DOMAIN g.indices = DOMAIN a.indices
      /\ \A n \in DOMAIN a.indices : At(g, n) = At(a, n)
  BY <1>3, TableSame
<1>5. CASE label = NoName
  <2>1. b = g
    BY <1>1, <1>5, DirectiveUnlabelled DEF Read
  <2> HIDE DEF g
  <2> QED BY <1>1, <1>3, <1>4, <1>5, <2>1 DEF FirstStep
<1>6. CASE label # NoName
  <2> DEFINE value == a.location[a.current]
             c == AddSymbol(g, label, value, SizeOf(s), a.current)
  <2>1. a.current \in Sections /\ value \in Int /\ SizeOf(s) \in Int
    BY <1>6, StmtOK DEF Assemblers, Places
  <2>2. b = [c EXCEPT !.ok = TRUE]
    BY <1>1, <1>6, <2>1, DirectiveLabelled
  <2> HIDE DEF g, value
  <2>3. CASE label \in DOMAIN a.indices
    <3>1. c = Fail(g)
      BY <1>4, <2>3 DEF AddSymbol
    <3>2. b = g
      BY <1>3, <2>2, <3>1, OkAgain
    <3> QED BY <1>1, <1>3, <1>4, <2>3, <3>2 DEF FirstStep
  <2>4. CASE label \notin DOMAIN a.indices
    <3>1. label \in AllNames \ DOMAIN g.indices
      BY <1>4, <2>4
    <3>2. /\ c \in Assemblers /\ c.lines = g.lines /\ c.current = g.current /\ c.location = g.location
          /\ c.undefined = g.undefined \ {label} /\ c.ok = g.ok
      <4>1. Added(g, c, label, Symbol(label, value, SizeOf(s), a.current))
        BY <1>3, <2>1, <3>1, AddSymbolFields
      <4> HIDE DEF c
      <4> QED BY <4>1 DEF Added
    <3>3. /\ TableOK(c) /\ DOMAIN c.indices = DOMAIN g.indices \cup {label}
          /\ \A n \in DOMAIN g.indices : At(c, n) = At(g, n)
          /\ At(c, label) = Symbol(label, value, SizeOf(s), a.current)
      <4>1. Extended(g, c, label, Symbol(label, value, SizeOf(s), a.current))
        BY <1>3, <1>4, <2>1, <3>1, AddSymbolTable
      <4> HIDE DEF c
      <4> QED BY <4>1 DEF Extended
    <3> HIDE DEF c
    <3>4. b = c
      BY <1>3, <2>2, <3>2, OkAgain
    <3>5. At(c, label).section = a.current /\ At(c, label).value = value
      BY <3>3 DEF Symbol
    <3>6. IsFiniteSet(a.undefined) => IsFiniteSet(c.undefined)
      BY <1>3, <3>2, FS_RemoveElement
    <3>7. DOMAIN c.indices = DOMAIN a.indices \cup ({label} \ {NoName})
      BY <1>4, <1>6, <3>3
    <3>8. a.undefined \subseteq c.undefined \cup DOMAIN c.indices
      BY <1>3, <3>2, <3>3
    <3>9. \A n \in DOMAIN a.indices : At(c, n) = At(a, n)
      BY <1>4, <3>3
    <3> QED BY <1>1, <1>3, <3>2, <3>3, <3>4, <3>5, <3>6, <3>7, <3>8, <3>9 DEF FirstStep, value
  <2> QED BY <2>3, <2>4
<1> QED BY <1>5, <1>6

LEMMA LabelledEffect ==
  ASSUME NEW a \in Assemblers, a.ok, TableOK(a), a.current \in Sections, NEW label \in AllNames,
         NEW value \in Int, DataAddressUnit = 1 => value = a.location[a.current],
         NEW b, b = IF label = NoName THEN a ELSE AddSymbol(a, label, value, 0, a.current), b.ok
  PROVE  /\ b \in Assemblers /\ TableOK(b) /\ b.ok
         /\ b.lines = a.lines /\ b.current = a.current /\ b.location = a.location
         /\ DOMAIN b.indices = DOMAIN a.indices \cup ({label} \ {NoName})
         /\ \A n \in DOMAIN a.indices : At(b, n) = At(a, n)
         /\ label \notin DOMAIN a.indices \cup {NoName} =>
              /\ At(b, label).section = a.current
              /\ DataAddressUnit = 1 => At(b, label).value = a.location[a.current]
         /\ IsFiniteSet(a.undefined) => IsFiniteSet(b.undefined)
         /\ a.undefined \subseteq b.undefined \cup DOMAIN b.indices
<1>1. CASE label = NoName
  BY <1>1
<1>2. CASE label # NoName
  <2>1. b = AddSymbol(a, label, value, 0, a.current)
    BY <1>2
  <2>2. label \notin DOMAIN a.indices
    <3> SUFFICES ASSUME label \in DOMAIN a.indices PROVE FALSE
      OBVIOUS
    <3>1. b = Fail(a)
      BY <2>1 DEF AddSymbol
    <3> QED BY <3>1 DEF Fail, Assemblers
  <2>3. /\ b \in Assemblers /\ b.lines = a.lines /\ b.current = a.current /\ b.location = a.location
        /\ b.undefined = a.undefined \ {label} /\ b.ok = a.ok
    <3>1. Added(a, b, label, Symbol(label, value, 0, a.current))
      BY <2>1, <2>2, AddSymbolFields
    <3> QED BY <3>1 DEF Added
  <2>4. /\ TableOK(b) /\ DOMAIN b.indices = DOMAIN a.indices \cup {label}
        /\ \A n \in DOMAIN a.indices : At(b, n) = At(a, n)
        /\ At(b, label) = Symbol(label, value, 0, a.current)
    <3>1. Extended(a, b, label, Symbol(label, value, 0, a.current))
      BY <2>1, <2>2, AddSymbolTable
    <3> QED BY <3>1 DEF Extended
  <2>5. At(b, label).section = a.current /\ At(b, label).value = value
    BY <2>4 DEF Symbol
  <2>6. IsFiniteSet(a.undefined) => IsFiniteSet(b.undefined)
    BY <2>3, FS_RemoveElement
  <2>7. a.undefined \subseteq b.undefined \cup DOMAIN b.indices
    BY <2>3, <2>4
  <2> QED BY <1>2, <2>3, <2>4, <2>5, <2>6, <2>7
<1> QED BY <1>1, <1>2

(* The assembler after an instruction's label, and with its target noted.   *)
Noted(a, s) == IF s.target = NoName THEN a ELSE SimpleAddSymbol(a, s.target)

LEMMA NotedEffect ==
  ASSUME NEW a \in Assemblers, NEW s \in Stmts
  PROVE  /\ Noted(a, s) \in Assemblers
         /\ Noted(a, s).location = a.location
         /\ Noted(a, s).current = a.current
         /\ Noted(a, s).lines = a.lines
         /\ Noted(a, s).ok = a.ok
         /\ SameTable(a, Noted(a, s))
         /\ IsFiniteSet(a.undefined) => IsFiniteSet(Noted(a, s).undefined)
         /\ a.undefined \subseteq Noted(a, s).undefined
         /\ Targets(s) \subseteq Noted(a, s).undefined \cup DOMAIN a.indices
<1>1. CASE s.target = NoName \/ s.target \in DOMAIN a.indices
  <2>1. Noted(a, s) = a
    BY <1>1 DEF Noted, SimpleAddSymbol
  <2>2. Targets(s) \subseteq DOMAIN a.indices
    BY <1>1 DEF Targets
  <2> QED BY <2>1, <2>2 DEF SameTable
<1>2. CASE s.target # NoName /\ s.target \notin DOMAIN a.indices
  <2> DEFINE u == a.undefined \cup {s.target}
  <2>1. Noted(a, s) = [a EXCEPT !.undefined = u]
    BY <1>2 DEF Noted, SimpleAddSymbol
  <2>2. u \in SUBSET AllNames
    BY DEF Assemblers, AllNames, Stmts
  <2>3. IsFiniteSet(a.undefined) => IsFiniteSet(u)
    BY FS_AddElement
  <2>4. Targets(s) \subseteq u /\ a.undefined \subseteq u
    BY DEF Targets
  <2> HIDE DEF u
  <2>5. /\ Noted(a, s) \in Assemblers /\ Noted(a, s).undefined = u /\ Noted(a, s).location = a.location
        /\ Noted(a, s).current = a.current /\ Noted(a, s).lines = a.lines /\ Noted(a, s).ok = a.ok
        /\ SameTable(a, Noted(a, s))
    BY <2>1, <2>2 DEF Assemblers, SameTable
  <2> QED BY <2>3, <2>4, <2>5
<1> QED BY <1>1, <1>2

OpRead(a, label, s) == ParseAsmStatement(a, label, s, TRUE).asm

LEMMA FirstOp ==
  ASSUME NEW a \in Assemblers, a.ok, TableOK(a), NEW s \in Stmts, s.kind = "op",
         NEW label \in AllNames, a.current \in Sections,
         NEW b, b = OpRead(a, label, s), b.ok
  PROVE  /\ FirstStep(a, b, label, s) /\ b.lines = a.lines
         /\ Targets(s) \subseteq b.undefined \cup DOMAIN b.indices
<1> DEFINE value == a.location[a.current]
           l == IF label = NoName THEN a ELSE AddSymbol(a, label, value, 0, a.current)
           r == Encode(a, label, s, TRUE)
<1>1. value \in Int /\ s.reach \in Nat /\ Address(a, TRUE) = value
  BY StmtOK DEF Assemblers, Places, Address, StatementOK, Sections, NoSection
<1>2. b = IF r.asm.ok THEN [r EXCEPT !.asm.location[a.current] = @ + r.size].asm ELSE r.asm
  BY DEF ParseAsmStatement, OpRead
<1>3. l.ok
  <2> SUFFICES ASSUME ~l.ok PROVE FALSE
    OBVIOUS
  <2>1. r = Refused(l)
    BY <1>1 DEF Encode
  <2>2. label # NoName /\ label \in DOMAIN a.indices
    <3> SUFFICES ASSUME label # NoName, label \notin DOMAIN a.indices PROVE FALSE
      OBVIOUS
    <3>1. Added(a, l, label, Symbol(label, value, 0, a.current))
      BY <1>1, AddSymbolFields
    <3> HIDE DEF l
    <3> QED BY <3>1 DEF Added
  <2>3. l = Fail(a)
    BY <2>2 DEF AddSymbol
  <2> HIDE DEF l
  <2>4. ~r.asm.ok
    <3> HIDE DEF r
    <3> QED BY <2>1, <2>3 DEF Refused, Read, Fail, Assemblers
  <2> HIDE DEF r
  <2> QED BY <1>2, <2>4
<1> HIDE DEF l, value
<1>4. /\ l \in Assemblers /\ TableOK(l)
      /\ l.lines = a.lines /\ l.current = a.current /\ l.location = a.location
      /\ DOMAIN l.indices = DOMAIN a.indices \cup ({label} \ {NoName})
      /\ \A n \in DOMAIN a.indices : At(l, n) = At(a, n)
      /\ label \notin DOMAIN a.indices \cup {NoName} =>
           /\ At(l, label).section = a.current
           /\ DataAddressUnit = 1 => At(l, label).value = a.location[a.current]
      /\ IsFiniteSet(a.undefined) => IsFiniteSet(l.undefined)
      /\ a.undefined \subseteq l.undefined \cup DOMAIN l.indices
  BY <1>1, <1>3, LabelledEffect DEF l, value
<1> DEFINE c == Noted(l, s)
           x == IF s.target = NoName THEN [asm |-> l, value |-> 0] ELSE ZeroResolve(l, s.target)
           bytes == <<s.code, 0 - (IF s.relative THEN value ELSE 0)>>
           names == IF s.target = NoName THEN << >> ELSE <<s.target>>
<1>5. x.asm = c /\ x.value = 0
  BY DEF Noted, ZeroResolve
<1>6. r = Read(c, bytes, 2, names)
  <2>1. r = IF x.value > s.reach THEN Refused(x.asm)
            ELSE Read(x.asm, <<s.code, x.value - (IF s.relative THEN value ELSE 0)>>, 2, names)
    BY <1>1, <1>3 DEF Encode, l, value
  <2>2. ~(0 > s.reach)
    BY <1>1
  <2> HIDE DEF x, c
  <2> QED BY <1>5, <2>1, <2>2
<1>7. /\ c \in Assemblers /\ c.location = l.location /\ c.current = l.current /\ c.lines = l.lines /\ c.ok = l.ok
      /\ SameTable(l, c) /\ l.undefined \subseteq c.undefined
      /\ IsFiniteSet(l.undefined) => IsFiniteSet(c.undefined)
      /\ Targets(s) \subseteq c.undefined \cup DOMAIN l.indices
  BY <1>4, NotedEffect
<1> HIDE DEF c, bytes, names, r
<1>8. b = WithLocation(c, a.current, 2)
  <2>1. r.asm = c /\ r.size = 2 /\ r.asm.ok
    BY <1>3, <1>6, <1>7 DEF Read
  <2>2. [r EXCEPT !.asm.location[a.current] = @ + r.size].asm = WithLocation(c, a.current, 2)
    BY <1>6, <2>1 DEF Read, WithLocation
  <2> QED BY <1>2, <2>1, <2>2
<1>9. /\ b \in Assemblers /\ b.location = Moved(c.location, a.current, 2) /\ b.lines = c.lines
      /\ b.current = c.current /\ b.undefined = c.undefined /\ b.ok = c.ok /\ SameTable(c, b)
  <2>1. a.current \in Places /\ 2 \in Int
    BY DEF Places
  <2> DEFINE w == WithLocation(c, a.current, 2)
  <2>2. /\ w \in Assemblers /\ w.location = Moved(c.location, a.current, 2) /\ w.lines = c.lines
        /\ w.current = c.current /\ w.undefined = c.undefined /\ w.ok = c.ok /\ SameTable(c, w)
    BY <1>7, <2>1, WithLocationEffect
  <2> HIDE DEF w
  <2>3. b = w
    BY <1>8 DEF w
  <2> QED BY <2>2, <2>3
<1>10. SameTable(l, b)
  BY <1>7, <1>9 DEF SameTable
<1>11. /\ TableOK(b) /\ DOMAIN b.indices = DOMAIN l.indices
       /\ \A n \in DOMAIN l.indices : At(b, n) = At(l, n)
  <2>1. TableOK(l)
    BY <1>4
  <2>2. b.symtab = l.symtab /\ b.indices = l.indices
    BY <1>10 DEF SameTable
  <2>3. TableOK(b)
    BY <2>1, <2>2 DEF TableOK
  <2>4. \A n \in DOMAIN l.indices : At(b, n) = At(l, n)
    BY <2>2 DEF At
  <2> QED BY <2>2, <2>3, <2>4
<1>12. SectionAfter(a.current, s) = a.current /\ SizeOf(s) = 2
  BY DEF SectionAfter, SizeOf
<1>13. /\ \A n \in DOMAIN a.indices : At(b, n) = At(a, n)
       /\ label # NoName => At(b, label) = At(l, label)
  BY <1>4, <1>11
<1> QED BY <1>3, <1>4, <1>7, <1>9, <1>11, <1>12, <1>13 DEF FirstStep

(* Where a line may stand.                                                 *)
InSection(section, line) ==
  /\ section \in Sections \/ (line.stmt.kind = "section" /\ line.label = NoName)
  /\ line.stmt.kind # "align"

LEMMA MovedNothing ==
  ASSUME NEW a \in Assemblers, NEW section
  PROVE  Moved(a.location, section, 0) = a.location
<1>1. a.location \in [Places -> Int]
  BY DEF Assemblers
<1> QED BY <1>1 DEF Moved

LEMMA KeepLine ==
  ASSUME NEW a, NEW r \in Assemblers, NEW label, NEW s \in Stmts, FirstStep(a, r, label, s),
         NEW b, b = [r EXCEPT !.lines = Append(@, s)]
  PROVE  /\ FirstStep(a, b, label, s) /\ b.lines = Append(r.lines, s)
         /\ b.undefined = r.undefined /\ b.indices = r.indices
<1> DEFINE l == Append(r.lines, s)
<1>1. l \in Seq(Stmts)
  BY DEF Assemblers
<1>2. b = [r EXCEPT !.lines = l]
  OBVIOUS
<1> HIDE DEF l
<1>3. /\ b \in Assemblers /\ b.lines = l /\ b.undefined = r.undefined /\ b.indices = r.indices
      /\ b.symtab = r.symtab /\ b.ok = r.ok /\ b.current = r.current /\ b.location = r.location
  BY <1>1, <1>2 DEF Assemblers
<1>4. TableOK(b) <=> TableOK(r)
  BY <1>3 DEF TableOK
<1>5. \A n : At(b, n) = At(r, n)
  BY <1>3 DEF At
<1>6. FirstStep(a, b, label, s)
  BY <1>3, <1>4, <1>5 DEF FirstStep
<1> QED BY <1>3, <1>6 DEF l

LEMMA FirstLabel ==
  ASSUME NEW a \in Assemblers, a.ok, TableOK(a), NEW s \in Stmts, s.kind = "empty",
         NEW label \in AllNames, a.current \in Sections,
         NEW b, b = IF label # NoName THEN LabelAlone(a, label) ELSE a, b.ok
  PROVE  FirstStep(a, b, label, s) /\ b.lines = a.lines
<1> DEFINE at == a.location[a.current]
           value == IF a.current \in {".data", ".bss"} THEN at \div DataAddressUnit ELSE at
<1>1. at \in Int /\ Address(a, TRUE) = at
  BY DEF Assemblers, Places, Address, Sections, NoSection
<1>2. value \in Int /\ (DataAddressUnit = 1 => value = at)
  <2> HIDE DEF at
  <2> QED BY <1>1, AssemblerAssumption
<1>3. b = IF label = NoName THEN a ELSE AddSymbol(a, label, value, 0, a.current)
  BY <1>1 DEF LabelAlone
<1> HIDE DEF value
<1>4. /\ b \in Assemblers /\ TableOK(b) /\ b.ok
      /\ b.lines = a.lines /\ b.current = a.current /\ b.location = a.location
      /\ DOMAIN b.indices = DOMAIN a.indices \cup ({label} \ {NoName})
      /\ \A n \in DOMAIN a.indices : At(b, n) = At(a, n)
      /\ label \notin DOMAIN a.indices \cup {NoName} =>
           /\ At(b, label).section = a.current
           /\ DataAddressUnit = 1 => At(b, label).value = a.location[a.current]
      /\ IsFiniteSet(a.undefined) => IsFiniteSet(b.undefined)
      /\ a.undefined \subseteq b.undefined \cup DOMAIN b.indices
  <2>1. value \in Int /\ (DataAddressUnit = 1 => value = a.location[a.current])
    BY <1>2
  <2> HIDE DEF at
  <2> QED BY <1>3, <2>1, LabelledEffect
<1>5. SectionAfter(a.current, s) = a.current /\ SizeOf(s) = 0
  BY DEF SectionAfter, SizeOf
<1>6. Moved(a.location, a.current, 0) = a.location
  BY MovedNothing
<1> QED BY <1>4, <1>5, <1>6 DEF FirstStep

LEMMA FirstLine ==
  ASSUME NEW a \in Assemblers, a.ok, TableOK(a), NEW line \in Lines, InSection(a.current, line),
         NEW b, b = ParseLine(a, line), b.ok
  PROVE  /\ FirstStep(a, b, line.label, line.stmt)
         /\ b.lines = IF line.stmt.kind = "empty" THEN a.lines ELSE Append(a.lines, line.stmt)
         /\ line.stmt.kind # "empty" => Acceptable(line.stmt)
         /\ line.stmt.kind = "op" => Targets(line.stmt) \subseteq b.undefined \cup DOMAIN b.indices
<1> DEFINE s == line.stmt
           label == line.label
           r == ParseStatement(a, label, s, TRUE).asm
<1>1. s \in Stmts /\ label \in AllNames
  BY DEF Stmts, AllNames
<1>2. CASE s.kind = "empty"
  <2>1. b = IF label # NoName THEN LabelAlone(a, label) ELSE a
    BY <1>2 DEF ParseLine
  <2>2. a.current \in Sections
    BY <1>2 DEF InSection
  <2>3. FirstStep(a, b, label, s) /\ b.lines = a.lines
    <3> HIDE DEF s, label, r
    <3> QED BY <1>1, <1>2, <2>1, <2>2, FirstLabel
  <2> QED BY <1>2, <2>3
<1>3. CASE s.kind # "empty"
  <2>1. b = IF r.ok THEN [r EXCEPT !.lines = Append(@, s)] ELSE r
    BY <1>3 DEF ParseLine
  <2>2. r.ok
    <3> HIDE DEF r
    <3> QED BY <2>1
  <2>3. /\ FirstStep(a, r, label, s) /\ r.lines = a.lines /\ Acceptable(s)
        /\ s.kind = "op" => Targets(s) \subseteq r.undefined \cup DOMAIN r.indices
    <3>1. CASE s.kind = "op"
      <4>1. r = OpRead(a, label, s)
        BY <3>1 DEF ParseStatement, OpRead
      <4>2. a.current \in Sections /\ Acceptable(s)
        BY <3>1 DEF InSection, Acceptable
      <4> HIDE DEF s, label, r
      <4>3. /\ FirstStep(a, r, label, s) /\ r.lines = a.lines
            /\ Targets(s) \subseteq r.undefined \cup DOMAIN r.indices
        BY <1>1, <2>2, <3>1, <4>1, <4>2, FirstOp
      <4> QED BY <4>2, <4>3
    <3>2. CASE s.kind # "op"
      <4>1. r = ParseAsmDirective(a, label, s).asm
        BY <3>2 DEF ParseStatement
      <4>2. s.kind \notin {"op", "align"} /\ (a.current \in Sections \/ (s.kind = "section" /\ label = NoName))
        BY <3>2 DEF InSection
      <4> HIDE DEF s, label, r
      <4> QED BY <1>1, <2>2, <3>2, <4>1, <4>2, FirstDirective
    <3> QED BY <3>1, <3>2
  <2> HIDE DEF s, label, r
  <2>4. r \in Assemblers /\ b = [r EXCEPT !.lines = Append(@, s)]
    BY <2>1, <2>2, <2>3 DEF FirstStep
  <2>5. /\ FirstStep(a, b, label, s) /\ b.lines = Append(r.lines, s)
        /\ b.undefined = r.undefined /\ b.indices = r.indices
    BY <1>1, <2>3, <2>4, KeepLine, SMTT(30)
  <2> QED BY <1>3, <2>3, <2>5 DEF s, label
<1> QED BY <1>2, <1>3

-----------------------------------------------------------------------------
(* The first pass: where the assembler is after the lines of src.          *)

PlacesOK(a, src) ==
  /\ a.current = SectionAt(src, Len(src) + 1)
  /\ \A s \in Sections : a.location[s] = SizeBefore(src, s, Len(src) + 1)

(* m are the lines that the saved statements come from.                    *)
Kept(lines, src, m) ==
  /\ m \in [0 .. Len(lines) -> 0 .. Len(src)] /\ m[0] = 0
  /\ \A n \in 1 .. Len(lines) :
       /\ m[n - 1] < m[n] /\ src[m[n]].stmt = lines[n] /\ lines[n].kind # "empty"
       /\ \A j \in m[n - 1] + 1 .. m[n] - 1 : src[j].stmt.kind = "empty"
  /\ \A j \in m[Len(lines)] + 1 .. Len(src) : src[j].stmt.kind = "empty"
  /\ \A k \in DOMAIN src : src[k].stmt.kind # "empty" => \E n \in 1 .. Len(lines) : m[n] = k

FirstLabelled(src, k) ==
  src[k].label \notin Sections \cup {NoName} /\ \A j \in 1 .. k - 1 : src[j].label # src[k].label

LabelsOK(a, src) ==
  \A k \in DOMAIN src : FirstLabelled(src, k) =>
    /\ src[k].label \in DOMAIN a.indices
    /\ At(a, src[k].label).section # NoSection =>
         /\ At(a, src[k].label).section = SectionAt(src, k)
         /\ DataAddressUnit = 1 => At(a, src[k].label).value = OffsetAt(src, k)

DefinedOK(a, src) ==
  \A n \in DOMAIN a.indices :
    At(a, n).section = NoSection \/ n \in Sections \/ \E k \in DOMAIN src : src[k].label = n

TargetsOK(a, src) ==
  \A k \in DOMAIN src : src[k].stmt.kind = "op" =>
    Targets(src[k].stmt) \subseteq a.undefined \cup DOMAIN a.indices

AcceptedOK(src) == \A k \in DOMAIN src : src[k].stmt.kind # "empty" => Acceptable(src[k].stmt)

FirstPass(a, src) ==
  /\ a \in Assemblers /\ a.ok /\ TableOK(a) /\ IsFiniteSet(a.undefined)
  /\ PlacesOK(a, src)
  /\ \E m : Kept(a.lines, src, m)
  /\ LabelsOK(a, src)
  /\ DefinedOK(a, src)
  /\ TargetsOK(a, src)
  /\ AcceptedOK(src)

Longer(src, line, r) ==
  /\ r \in Seq(Lines) /\ Len(r) = Len(src) + 1 /\ DOMAIN r = 1 .. Len(src) + 1
  /\ r[Len(src) + 1] = line /\ Len(src) \in Nat /\ DOMAIN src = 1 .. Len(src)
  /\ \A k \in 1 .. Len(src) : r[k] = src[k]
  /\ \A k \in 1 .. Len(src) + 1 : SectionAt(r, k) = SectionAt(src, k)
  /\ \A k \in 1 .. Len(src) + 1 : \A s : SizeBefore(r, s, k) = SizeBefore(src, s, k)

LEMMA Appended ==
  ASSUME NEW src \in Seq(Lines), NEW line \in Lines, NEW r, r = Append(src, line)
  PROVE  Longer(src, line, r)
<1>1. /\ r \in Seq(Lines) /\ Len(r) = Len(src) + 1 /\ DOMAIN r = 1 .. Len(src) + 1
      /\ r[Len(src) + 1] = line /\ Len(src) \in Nat /\ DOMAIN src = 1 .. Len(src)
      /\ \A k \in 1 .. Len(src) : r[k] = src[k]
  OBVIOUS
<1>2. ASSUME NEW k \in 1 .. Len(src) + 1
      PROVE  k \in Nat /\ \A j \in 1 .. k - 1 : r[j] = src[j]
  BY <1>1
<1>3. \A k \in 1 .. Len(src) + 1 : SectionAt(r, k) = SectionAt(src, k)
  BY <1>2, SectionSame
<1>4. \A k \in 1 .. Len(src) + 1 : \A s : SizeBefore(r, s, k) = SizeBefore(src, s, k)
  BY <1>2, SizeSame
<1> QED BY <1>1, <1>3, <1>4 DEF Longer

LEMMA GapsBefore ==
  ASSUME NEW src \in Seq(Lines), NEW line \in Lines, NEW r, r = Append(src, line), WithoutGaps(r)
  PROVE  WithoutGaps(src) /\ InSection(SectionAt(src, Len(src) + 1), line)
<1> DEFINE N == Len(src)
<1>1. /\ Len(r) = N + 1 /\ DOMAIN r = 1 .. N + 1 /\ r[N + 1] = line /\ N \in Nat /\ DOMAIN src = 1 .. N
      /\ \A k \in DOMAIN src : r[k] = src[k]
      /\ \A k \in 1 .. N + 1 : SectionAt(r, k) = SectionAt(src, k)
  <2>1. Longer(src, line, r)
    BY Appended
  <2> QED BY <2>1 DEF Longer
<1>2. SectionAt(src, N + 1) \in Places
  BY <1>1, SectionTyped
<1> HIDE DEF N
<1>3. WithoutGaps(src)
  BY <1>1 DEF WithoutGaps
<1>4. N + 1 \in DOMAIN r /\ N + 1 \in 1 .. N + 1
  BY <1>1
<1>5. InSection(SectionAt(src, N + 1), line)
  BY <1>1, <1>2, <1>4 DEF WithoutGaps, InSection, Places
<1> QED BY <1>3, <1>5 DEF N

LEMMA PlacesNext ==
  ASSUME NEW a \in Assemblers, NEW src \in Seq(Lines), NEW line \in Lines, NEW r, r = Append(src, line),
         PlacesOK(a, src), NEW b,
         b.current = SectionAfter(a.current, line.stmt),
         b.location = Moved(a.location, a.current, SizeOf(line.stmt))
  PROVE  PlacesOK(b, r)
<1> DEFINE N == Len(src)
<1>1. /\ r \in Seq(Lines) /\ Len(r) = N + 1 /\ DOMAIN r = 1 .. N + 1 /\ r[N + 1] = line /\ N \in Nat
      /\ \A k \in 1 .. N + 1 : SectionAt(r, k) = SectionAt(src, k)
      /\ \A k \in 1 .. N + 1 : \A s : SizeBefore(r, s, k) = SizeBefore(src, s, k)
  <2>1. Longer(src, line, r)
    BY Appended
  <2> QED BY <2>1 DEF Longer
<1>2. a.current = SectionAt(src, N + 1) /\ \A s \in Sections : a.location[s] = SizeBefore(src, s, N + 1)
  BY DEF PlacesOK
<1> HIDE DEF N
<1>3. N + 1 \in Nat \ {0} /\ N + 1 \in 1 .. N + 1 /\ N + 1 \in DOMAIN r
  BY <1>1
<1>4. b.current = SectionAt(r, (N + 1) + 1)
  <2>1. SectionAt(r, (N + 1) + 1) = SectionAfter(SectionAt(r, N + 1), r[N + 1].stmt)
    BY <1>3, SectionNext DEF SectionAfter
  <2> QED BY <1>1, <1>2, <1>3, <2>1
<1>5. ASSUME NEW s \in Sections PROVE b.location[s] = SizeBefore(r, s, (N + 1) + 1)
  <2>1. SizeBefore(r, s, (N + 1) + 1)
          = SizeBefore(r, s, N + 1) + (IF SectionAt(r, N + 1) = s THEN SizeOf(r[N + 1].stmt) ELSE 0)
    <3> DEFINE K == N + 1
    <3>1. r \in Seq(Lines) /\ K \in DOMAIN r
      BY <1>1, <1>3
    <3> HIDE DEF K
    <3>2. SizeBefore(r, s, K + 1) = SizeBefore(r, s, K) + (IF SectionAt(r, K) = s THEN SizeOf(r[K].stmt) ELSE 0)
      BY <3>1, SizeNext, ZenonT(60)
    <3> QED BY <3>2 DEF K
  <2>2. SizeBefore(r, s, N + 1) = a.location[s] /\ SectionAt(r, N + 1) = a.current
    BY <1>1, <1>2, <1>3
  <2>3. b.location[s] = IF s = a.current THEN a.location[s] + SizeOf(line.stmt) ELSE a.location[s]
    BY DEF Moved, Places
  <2>4. a.location[s] \in Int
    BY DEF Assemblers, Places
  <2> QED BY <1>1, <2>1, <2>2, <2>3, <2>4
<1> QED BY <1>1, <1>4, <1>5 DEF PlacesOK

LEMMA KeptNext ==
  ASSUME NEW lines \in Seq(Stmts), NEW src \in Seq(Lines), NEW line \in Lines, NEW r, r = Append(src, line),
         NEW m, Kept(lines, src, m),
         NEW new, new = IF line.stmt.kind = "empty" THEN lines ELSE Append(lines, line.stmt)
  PROVE  \E n : Kept(new, r, n)
<1> DEFINE N == Len(src)
           M == Len(lines)
<1>1. /\ Len(r) = N + 1 /\ DOMAIN r = 1 .. N + 1 /\ r[N + 1] = line /\ N \in Nat /\ DOMAIN src = 1 .. N
      /\ \A k \in 1 .. N : r[k] = src[k]
  <2>1. Longer(src, line, r)
    BY Appended
  <2> QED BY <2>1 DEF Longer
<1>2. M \in Nat /\ m \in [0 .. M -> 0 .. N]
  BY DEF Kept
<1>3. \A n \in 1 .. M : m[n - 1] \in 0 .. N /\ m[n] \in 1 .. N
  <2> TAKE n \in 1 .. M
  <2>1. n - 1 \in 0 .. M /\ n \in 0 .. M
    BY <1>2
  <2>2. m[n - 1] < m[n]
    BY DEF Kept
  <2> QED BY <1>2, <2>1, <2>2
<1>4. CASE line.stmt.kind = "empty"
  <2>1. new = lines
    BY <1>4
  <2>2. m \in [0 .. M -> 0 .. N + 1]
    BY <1>1, <1>2
  <2>3. \A n \in 1 .. M : /\ m[n - 1] < m[n] /\ r[m[n]].stmt = lines[n] /\ lines[n].kind # "empty"
                          /\ \A j \in m[n - 1] + 1 .. m[n] - 1 : r[j].stmt.kind = "empty"
    BY <1>1, <1>3 DEF Kept
  <2>4. \A j \in m[M] + 1 .. N + 1 : r[j].stmt.kind = "empty"
    <3> TAKE j \in m[M] + 1 .. N + 1
    <3>1. m[M] \in 0 .. N
      BY <1>2
    <3>2. CASE j = N + 1
      BY <1>1, <1>4, <3>2
    <3>3. CASE j # N + 1
      <4>1. j \in m[M] + 1 .. N /\ j \in 1 .. N
        BY <1>1, <3>1, <3>3
      <4> QED BY <1>1, <4>1 DEF Kept
    <3> QED BY <3>2, <3>3
  <2>5. \A k \in 1 .. N + 1 : r[k].stmt.kind # "empty" => \E n \in 1 .. M : m[n] = k
    <3> TAKE k \in 1 .. N + 1
    <3>1. CASE k = N + 1
      BY <1>1, <1>4, <3>1
    <3>2. CASE k # N + 1
      <4>1. k \in 1 .. N
        BY <1>1, <3>2
      <4> QED BY <1>1, <4>1 DEF Kept
    <3> QED BY <3>1, <3>2
  <2>6. m[0] = 0
    BY DEF Kept
  <2>7. Kept(lines, r, m)
    BY <1>1, <2>2, <2>3, <2>4, <2>5, <2>6 DEF Kept
  <2> QED BY <2>1, <2>7
<1>5. CASE line.stmt.kind # "empty"
  <2> DEFINE l == [n \in 0 .. M + 1 |-> IF n = M + 1 THEN N + 1 ELSE m[n]]
  <2>1. /\ new \in Seq(Stmts) /\ Len(new) = M + 1 /\ new[M + 1] = line.stmt /\ \A n \in 1 .. M : new[n] = lines[n]
    <3>1. line.stmt \in Stmts /\ new = Append(lines, line.stmt)
      BY <1>5 DEF Stmts
    <3> QED BY <3>1, AppendProperties
  <2>2. l[M + 1] = N + 1 /\ \A n \in 0 .. M : l[n] = m[n]
    BY <1>2
  <2>3. l \in [0 .. M + 1 -> 0 .. N + 1]
    BY <1>1, <1>2
  <2> HIDE DEF l
  <2>4. ASSUME NEW n \in 1 .. M + 1
        PROVE  /\ l[n - 1] < l[n] /\ r[l[n]].stmt = new[n] /\ new[n].kind # "empty"
               /\ \A j \in l[n - 1] + 1 .. l[n] - 1 : r[j].stmt.kind = "empty"
    <3>1. CASE n = M + 1
      <4>1. l[n] = N + 1 /\ l[n - 1] = m[M] /\ m[M] \in 0 .. N
        BY <1>2, <2>2, <3>1
      <4>2. \A j \in m[M] + 1 .. N : j \in 1 .. N /\ src[j].stmt.kind = "empty"
        BY <4>1 DEF Kept
      <4>3. (N + 1) - 1 = N
        BY <1>1
      <4> QED BY <1>1, <1>5, <2>1, <3>1, <4>1, <4>2, <4>3
    <3>2. CASE n # M + 1
      <4>1. n \in 1 .. M /\ n \in 0 .. M /\ n - 1 \in 0 .. M
        BY <1>2, <3>2
      <4>2. l[n] = m[n] /\ l[n - 1] = m[n - 1] /\ new[n] = lines[n] /\ m[n] \in 1 .. N /\ m[n - 1] \in 0 .. N
        BY <1>3, <2>1, <2>2, <4>1
      <4>3. /\ m[n - 1] < m[n] /\ src[m[n]].stmt = lines[n] /\ lines[n].kind # "empty"
            /\ \A j \in m[n - 1] + 1 .. m[n] - 1 : src[j].stmt.kind = "empty"
        BY <4>1 DEF Kept
      <4>4. \A j \in m[n - 1] + 1 .. m[n] - 1 : j \in 1 .. N
        BY <1>1, <4>2
      <4> QED BY <1>1, <4>2, <4>3, <4>4
    <3> QED BY <3>1, <3>2
  <2>5. \A j \in l[M + 1] + 1 .. N + 1 : r[j].stmt.kind = "empty"
    BY <1>1, <2>2
  <2>6. \A k \in 1 .. N + 1 : r[k].stmt.kind # "empty" => \E n \in 1 .. M + 1 : l[n] = k
    <3> TAKE k \in 1 .. N + 1
    <3>1. CASE k = N + 1
      <4>1. M + 1 \in 1 .. M + 1
        BY <1>2
      <4> QED BY <2>2, <3>1, <4>1
    <3>2. CASE k # N + 1
      <4>1. k \in 1 .. N
        BY <1>1, <3>2
      <4>2. r[k].stmt.kind # "empty" => \E n \in 1 .. M : m[n] = k
        BY <1>1, <4>1 DEF Kept
      <4>3. \A n \in 1 .. M : n \in 1 .. M + 1 /\ n \in 0 .. M
        BY <1>2
      <4> QED BY <2>2, <4>2, <4>3
    <3> QED BY <3>1, <3>2
  <2>7. l[0] = 0
    BY <1>2, <2>2 DEF Kept
  <2>8. Kept(new, r, l)
    BY <1>1, <2>1, <2>3, <2>4, <2>5, <2>6, <2>7, ZenonT(60) DEF Kept
  <2> QED BY <2>8
<1> QED BY <1>4, <1>5

LEMMA LabelsNext ==
  ASSUME NEW a \in Assemblers, NEW src \in Seq(Lines), NEW line \in Lines, NEW r, r = Append(src, line),
         PlacesOK(a, src), LabelsOK(a, src), DefinedOK(a, src), InSection(a.current, line),
         NEW b, FirstStep(a, b, line.label, line.stmt)
  PROVE  LabelsOK(b, r) /\ DefinedOK(b, r)
<1> DEFINE N == Len(src)
           L == line.label
<1>1. /\ Len(r) = N + 1 /\ DOMAIN r = 1 .. N + 1 /\ r[N + 1] = line /\ N \in Nat /\ DOMAIN src = 1 .. N
      /\ \A k \in 1 .. N : r[k] = src[k]
      /\ \A k \in 1 .. N + 1 : SectionAt(r, k) = SectionAt(src, k)
      /\ \A k \in 1 .. N + 1 : \A s : SizeBefore(r, s, k) = SizeBefore(src, s, k)
  <2>1. Longer(src, line, r)
    BY Appended
  <2> QED BY <2>1 DEF Longer
<1>2. a.current = SectionAt(src, N + 1) /\ \A s \in Sections : a.location[s] = SizeBefore(src, s, N + 1)
  BY DEF PlacesOK
<1>3. /\ DOMAIN b.indices = DOMAIN a.indices \cup ({L} \ {NoName})
      /\ \A n \in DOMAIN a.indices : At(b, n) = At(a, n)
      /\ L \notin DOMAIN a.indices \cup {NoName} =>
           /\ At(b, L).section = a.current
           /\ DataAddressUnit = 1 => At(b, L).value = a.location[a.current]
  BY DEF FirstStep
<1> HIDE DEF N
<1>4. N + 1 \in 1 .. N + 1 /\ \A k \in 1 .. N : k \in 1 .. N + 1 /\ \A j \in 1 .. k - 1 : j \in 1 .. N
  BY <1>1
<1>5. ASSUME NEW k \in DOMAIN r, FirstLabelled(r, k)
      PROVE  /\ r[k].label \in DOMAIN b.indices
             /\ At(b, r[k].label).section # NoSection =>
                  /\ At(b, r[k].label).section = SectionAt(r, k)
                  /\ DataAddressUnit = 1 => At(b, r[k].label).value = OffsetAt(r, k)
  <2>1. CASE k = N + 1
    <3>1. r[k].label = L /\ L \notin Sections \cup {NoName} /\ \A j \in 1 .. N : src[j].label # L
      <4>1. (N + 1) - 1 = N
        BY <1>1
      <4> QED BY <1>1, <1>5, <2>1, <4>1 DEF FirstLabelled
    <3>2. CASE L \in DOMAIN a.indices
      <4>1. At(a, L).section = NoSection
        BY <1>1, <3>1, <3>2 DEF DefinedOK
      <4> HIDE DEF L
      <4> QED BY <1>3, <3>1, <3>2, <4>1
    <3>3. CASE L \notin DOMAIN a.indices
      <4>1. a.current \in Sections
        BY <3>1 DEF InSection
      <4>2. OffsetAt(r, k) = a.location[a.current] /\ SectionAt(r, k) = a.current
        BY <1>1, <1>2, <1>4, <2>1, <4>1 DEF OffsetAt
      <4> HIDE DEF L
      <4> QED BY <1>3, <3>1, <3>3, <4>2
    <3> QED BY <3>2, <3>3
  <2>2. CASE k # N + 1
    <3>1. k \in 1 .. N
      BY <1>1, <2>2
    <3>2. r[k] = src[k] /\ SectionAt(r, k) = SectionAt(src, k) /\ OffsetAt(r, k) = OffsetAt(src, k)
      BY <1>1, <1>4, <3>1 DEF OffsetAt
    <3>3. FirstLabelled(src, k)
      BY <1>1, <1>4, <1>5, <3>1 DEF FirstLabelled
    <3>4. /\ src[k].label \in DOMAIN a.indices
          /\ At(a, src[k].label).section # NoSection =>
               /\ At(a, src[k].label).section = SectionAt(src, k)
               /\ DataAddressUnit = 1 => At(a, src[k].label).value = OffsetAt(src, k)
      BY <1>1, <3>1, <3>3 DEF LabelsOK
    <3> QED BY <1>3, <3>2, <3>4
  <2> QED BY <2>1, <2>2
<1>6. ASSUME NEW n \in DOMAIN b.indices
      PROVE  At(b, n).section = NoSection \/ n \in Sections \/ \E k \in DOMAIN r : r[k].label = n
  <2>1. CASE n = L
    BY <1>1, <1>4, <2>1
  <2>2. CASE n # L
    <3>1. n \in DOMAIN a.indices /\ At(b, n) = At(a, n)
      BY <1>3, <2>2
    <3>2. At(a, n).section = NoSection \/ n \in Sections \/ \E k \in DOMAIN src : src[k].label = n
      BY <3>1 DEF DefinedOK
    <3> QED BY <1>1, <1>4, <3>1, <3>2
  <2> QED BY <2>1, <2>2
<1>7. LabelsOK(b, r)
  BY <1>5 DEF LabelsOK
<1>8. DefinedOK(b, r)
  BY <1>6 DEF DefinedOK
<1> QED BY <1>7, <1>8

LEMMA TargetsNext ==
  ASSUME NEW a, NEW src \in Seq(Lines), NEW line \in Lines, NEW r, r = Append(src, line),
         TargetsOK(a, src), AcceptedOK(src),
         NEW b, FirstStep(a, b, line.label, line.stmt),
         line.stmt.kind # "empty" => Acceptable(line.stmt),
         line.stmt.kind = "op" => Targets(line.stmt) \subseteq b.undefined \cup DOMAIN b.indices
  PROVE  TargetsOK(b, r) /\ AcceptedOK(r)
<1> DEFINE N == Len(src)
<1>1. /\ Len(r) = N + 1 /\ DOMAIN r = 1 .. N + 1 /\ r[N + 1] = line /\ N \in Nat /\ DOMAIN src = 1 .. N
      /\ \A k \in 1 .. N : r[k] = src[k]
  <2>1. Longer(src, line, r)
    BY Appended
  <2> QED BY <2>1 DEF Longer
<1>2. a.undefined \cup DOMAIN a.indices \subseteq b.undefined \cup DOMAIN b.indices
  BY DEF FirstStep
<1> HIDE DEF N
<1>3. ASSUME NEW k \in DOMAIN r
      PROVE  /\ r[k].stmt.kind = "op" => Targets(r[k].stmt) \subseteq b.undefined \cup DOMAIN b.indices
             /\ r[k].stmt.kind # "empty" => Acceptable(r[k].stmt)
  <2>1. CASE k = N + 1
    BY <1>1, <2>1
  <2>2. CASE k # N + 1
    <3>1. k \in DOMAIN src /\ r[k] = src[k]
      BY <1>1, <2>2
    <3>2. /\ src[k].stmt.kind = "op" => Targets(src[k].stmt) \subseteq a.undefined \cup DOMAIN a.indices
          /\ src[k].stmt.kind # "empty" => Acceptable(src[k].stmt)
      BY <3>1 DEF TargetsOK, AcceptedOK
    <3> QED BY <1>2, <3>1, <3>2
  <2> QED BY <2>1, <2>2
<1> QED BY <1>3 DEF TargetsOK, AcceptedOK

LEMMA FirstPassNext ==
  ASSUME NEW a, NEW src \in Seq(Lines), NEW line \in Lines, FirstPass(a, src),
         NEW r, r = Append(src, line), WithoutGaps(r),
         NEW b, b = ParseLine(a, line), b.ok
  PROVE  FirstPass(b, r)
<1>1. /\ a \in Assemblers /\ a.ok /\ TableOK(a) /\ IsFiniteSet(a.undefined) /\ PlacesOK(a, src)
      /\ LabelsOK(a, src) /\ DefinedOK(a, src) /\ TargetsOK(a, src) /\ AcceptedOK(src)
  BY DEF FirstPass
<1>2. InSection(a.current, line)
  <2>1. InSection(SectionAt(src, Len(src) + 1), line)
    BY GapsBefore
  <2> QED BY <1>1, <2>1 DEF PlacesOK
<1>3. /\ FirstStep(a, b, line.label, line.stmt)
      /\ b.lines = IF line.stmt.kind = "empty" THEN a.lines ELSE Append(a.lines, line.stmt)
      /\ line.stmt.kind # "empty" => Acceptable(line.stmt)
      /\ line.stmt.kind = "op" => Targets(line.stmt) \subseteq b.undefined \cup DOMAIN b.indices
  BY <1>1, <1>2, FirstLine
<1>4. /\ b \in Assemblers /\ TableOK(b) /\ IsFiniteSet(b.undefined)
      /\ b.current = SectionAfter(a.current, line.stmt)
      /\ b.location = Moved(a.location, a.current, SizeOf(line.stmt))
  BY <1>1, <1>3 DEF FirstStep
<1>5. PlacesOK(b, r)
  BY <1>1, <1>4, PlacesNext
<1>6. \E m : Kept(b.lines, r, m)
  <2>1. PICK m : Kept(a.lines, src, m)
    BY DEF FirstPass
  <2>2. a.lines \in Seq(Stmts)
    BY <1>1 DEF Assemblers
  <2> DEFINE old == a.lines
             new == b.lines
  <2>3. new = IF line.stmt.kind = "empty" THEN old ELSE Append(old, line.stmt)
    BY <1>3
  <2>4. old \in Seq(Stmts) /\ Kept(old, src, m)
    BY <2>1, <2>2
  <2> HIDE DEF old, new
  <2>5. \E n : Kept(new, r, n)
    BY <2>3, <2>4, KeptNext
  <2> QED BY <2>5 DEF new
<1>7. LabelsOK(b, r) /\ DefinedOK(b, r)
  BY <1>1, <1>2, <1>3, LabelsNext
<1>8. TargetsOK(b, r) /\ AcceptedOK(r)
  BY <1>1, <1>3, TargetsNext
<1> QED BY <1>4, <1>5, <1>6, <1>7, <1>8 DEF FirstPass

LEMMA FirstPassInit == FirstPass(NewAssembler, << >>)
<1> DEFINE a == NewAssembler
           e == [s \in Sections |-> Symbol(s, 0, 0, s)]
           order == <<".text", ".data", ".bss">>
<1>1. Sections \subseteq AllNames /\ \A s \in Sections : e[s] \in Symbols /\ e[s].name = s
  BY DEF AllNames, Symbol, Symbols, Places
<1>2. a.symtab = <<e[".text"], e[".data"], e[".bss"]>>
  BY DEF NewAssembler, Sections
<1>3. a.symtab \in Seq(Symbols) /\ DOMAIN a.symtab = 1 .. 3
  <2>1. e[".text"] \in Symbols /\ e[".data"] \in Symbols /\ e[".bss"] \in Symbols
    BY <1>1 DEF Sections
  <2> HIDE DEF e, a
  <2> QED BY <1>2, <2>1
<1>4. a.indices = [s \in Sections |-> CHOOSE k \in 1 .. 3 : order[k] = s]
  BY DEF NewAssembler
<1>5. DOMAIN a.indices = Sections /\ a.indices[".text"] = 1 /\ a.indices[".data"] = 2 /\ a.indices[".bss"] = 3
  <2>1. /\ (CHOOSE k \in 1 .. 3 : order[k] = ".text") = 1
        /\ (CHOOSE k \in 1 .. 3 : order[k] = ".data") = 2
        /\ (CHOOSE k \in 1 .. 3 : order[k] = ".bss") = 3
    OBVIOUS
  <2> HIDE DEF a, order
  <2> QED BY <1>4, <2>1 DEF Sections
<1>6. a.indices \in [Sections -> Nat]
  <2> HIDE DEF order
  <2>1. a.indices = [s \in Sections |-> a.indices[s]]
    BY <1>4
  <2> HIDE DEF a
  <2>2. \A s \in Sections : a.indices[s] \in Nat
    BY <1>5 DEF Sections
  <2> QED BY <2>1, <2>2
<1>7. a.indices \in UNION {[D -> Nat] : D \in SUBSET AllNames}
  <2> HIDE DEF a
  <2> QED BY <1>1, <1>6
<1>8. /\ a.lines = << >> /\ a.current = NoSection /\ a.location = [s \in Places |-> 0]
      /\ a.global = {} /\ a.undefined = {} /\ a.bssSize = 0 /\ a.ok = TRUE
      /\ a = [lines |-> a.lines, current |-> a.current, location |-> a.location, symtab |-> a.symtab,
              indices |-> a.indices, global |-> a.global, undefined |-> a.undefined, bssSize |-> a.bssSize, ok |-> a.ok]
  <2> HIDE DEF e
  <2> QED BY DEF NewAssembler, Places
<1> HIDE DEF a
<1>9. a \in Assemblers
  <2>1. a.location \in [Places -> Int] /\ a.lines \in Seq(Stmts) /\ a.current \in Places
    BY <1>8 DEF Places
  <2> QED BY <1>3, <1>7, <1>8, <2>1 DEF Assemblers
<1>10. TableOK(a)
  <2>1. a.symtab[1] = e[".text"] /\ a.symtab[2] = e[".data"] /\ a.symtab[3] = e[".bss"]
    BY <1>2
  <2>2. e[".text"].name = ".text" /\ e[".data"].name = ".data" /\ e[".bss"].name = ".bss"
    BY <1>1 DEF Sections
  <2> HIDE DEF e
  <2>3. \A k \in 1 .. 3 : k = 1 \/ k = 2 \/ k = 3
    OBVIOUS
  <2>4. \A k \in DOMAIN a.symtab : a.symtab[k].name \in DOMAIN a.indices /\ a.indices[a.symtab[k].name] = k
    BY <1>3, <1>5, <2>1, <2>2, <2>3 DEF Sections
  <2>5. \A n \in DOMAIN a.indices : a.indices[n] \in DOMAIN a.symtab /\ a.symtab[a.indices[n]].name = n
    BY <1>3, <1>5, <2>1, <2>2 DEF Sections
  <2> QED BY <2>4, <2>5 DEF TableOK, Corresponds
<1>11. PlacesOK(a, << >>)
  <2>1. Len(<< >>) + 1 = 1
    OBVIOUS
  <2>2. a.current = SectionAt(<< >>, 1)
    BY <1>8, SectionFirst
  <2>3. \A s \in Sections : a.location[s] = SizeBefore(<< >>, s, 1)
    BY <1>8, SizeFirst DEF Places
  <2> QED BY <2>1, <2>2, <2>3 DEF PlacesOK
<1>12. \E m : Kept(a.lines, << >>, m)
  <2> DEFINE m == [n \in 0 .. 0 |-> 0]
  <2>1. m \in [0 .. 0 -> 0 .. 0] /\ m[0] = 0
    OBVIOUS
  <2> HIDE DEF m
  <2>2. Kept(<< >>, << >>, m)
    BY <2>1 DEF Kept
  <2> QED BY <1>8, <2>2
<1>13. LabelsOK(a, << >>) /\ TargetsOK(a, << >>) /\ AcceptedOK(<< >>)
  BY DEF LabelsOK, TargetsOK, AcceptedOK
<1>14. DefinedOK(a, << >>)
  BY <1>5 DEF DefinedOK
<1>15. IsFiniteSet(a.undefined)
  BY <1>8, FS_EmptySet
<1> QED BY <1>8, <1>9, <1>10, <1>11, <1>12, <1>13, <1>14, <1>15 DEF FirstPass, a

(* The names that are not defined enter the table, each once.              *)
EndIndices(a, names, C) ==
  [n \in DOMAIN a.indices \cup {names[k] : k \in 1 .. C} |->
     IF n \in DOMAIN a.indices THEN a.indices[n] ELSE Len(a.symtab) + (CHOOSE k \in 1 .. C : names[k] = n)]
EndSymbols(names, C) == [k \in 1 .. C |-> Symbol(names[k], 0, 0, NoSection)]

LEMMA EndFields ==
  ASSUME NEW a \in Assemblers, a.ok, IsFiniteSet(a.undefined), NEW names \in SetToSeqs(a.undefined),
         NEW b, b = AddUndefined(a, names), b.ok,
         NEW C, C = Cardinality(a.undefined)
  PROVE  /\ C \in Nat /\ \A k \in 1 .. C : names[k] \in a.undefined /\ names[k] \notin DOMAIN a.indices
         /\ \A k, j \in 1 .. C : k # j => names[k] # names[j]
         /\ a.undefined \subseteq {names[k] : k \in 1 .. C}
         /\ b = [a EXCEPT !.symtab = @ \o EndSymbols(names, C), !.indices = EndIndices(a, names, C),
                          !.undefined = {}, !.bssSize = a.location[".bss"]]
<1> DEFINE U == a.undefined
           D == 1 .. C
           known == {k \in DOMAIN names : names[k] \in DOMAIN a.indices}
<1>1. C \in Nat
  BY FS_CardinalityType
<1>2. names \in [D -> U] /\ \A i, j \in D : i # j => names[i] # names[j]
  BY DEF SetToSeqs
<1>3. Len(names) = C /\ DOMAIN names = D
  <2> HIDE DEF U
  <2>1. names \in Seq(U)
    BY <1>1, <1>2, SeqDef
  <2>2. DOMAIN names = 1 .. Len(names) /\ Len(names) \in Nat
    BY <2>1
  <2> QED BY <1>1, <1>2, <2>2
<1>4. U \subseteq {names[k] : k \in D}
  <2> HIDE DEF U
  <2>1. names \in Injection(D, U)
    <3> HIDE DEF D
    <3> QED BY <1>2 DEF Injection, IsInjective
  <2>2. Cardinality(D) = C /\ IsFiniteSet(D)
    BY <1>1, FS_Interval
  <2> HIDE DEF D
  <2>3. names \in Surjection(D, U)
    BY <2>1, <2>2, FS_Injection DEF U
  <2> QED BY <2>3 DEF Surjection
<1> DEFINE new == 1 .. IF known = {} THEN Len(names) ELSE Min(known) - 1
           symbols == [k \in new |-> Symbol(names[k], 0, 0, NoSection)]
           indices == [n \in DOMAIN a.indices \cup {names[k] : k \in new} |->
                         IF n \in DOMAIN a.indices THEN a.indices[n]
                         ELSE Len(a.symtab) + (CHOOSE k \in new : names[k] = n)]
           added == [a EXCEPT !.symtab = @ \o symbols, !.indices = indices]
<1>5. b = IF known # {} THEN Fail(added) ELSE [added EXCEPT !.undefined = {}, !.bssSize = a.location[".bss"]]
  BY DEF AddUndefined
<1>6. known = {}
  <2> SUFFICES ASSUME known # {} PROVE FALSE
    OBVIOUS
  <2>1. b = Fail(added)
    BY <1>5
  <2> HIDE DEF symbols, indices
  <2>2. "ok" \in DOMAIN added
    BY DEF Assemblers
  <2> HIDE DEF added
  <2> QED BY <2>1, <2>2 DEF Fail
<1>7. new = D
  BY <1>3, <1>6
<1>8. symbols = EndSymbols(names, C) /\ indices = EndIndices(a, names, C)
  <2> HIDE DEF new
  <2> QED BY <1>7 DEF EndSymbols, EndIndices
<1> HIDE DEF symbols, indices, new, known
<1>9. b = [a EXCEPT !.symtab = @ \o EndSymbols(names, C), !.indices = EndIndices(a, names, C),
                    !.undefined = {}, !.bssSize = a.location[".bss"]]
  BY <1>5, <1>6, <1>8
<1>10. \A k \in 1 .. C : names[k] \in a.undefined /\ names[k] \notin DOMAIN a.indices
  BY <1>2, <1>3, <1>6 DEF known
<1> QED BY <1>1, <1>2, <1>4, <1>9, <1>10

Ended(a, b, names, C) ==
  /\ TableOK(b) /\ b.symtab \in Seq(Symbols)
  /\ b.indices \in UNION {[D -> Nat] : D \in SUBSET AllNames}
  /\ DOMAIN b.indices = DOMAIN a.indices \cup {names[k] : k \in 1 .. C}
  /\ \A n \in DOMAIN a.indices : At(b, n) = At(a, n)
  /\ \A k \in 1 .. C : At(b, names[k]).section = NoSection

LEMMA EndTable ==
  ASSUME NEW a \in Assemblers, TableOK(a), NEW names, NEW C \in Nat,
         \A k \in 1 .. C : names[k] \in AllNames /\ names[k] \notin DOMAIN a.indices,
         \A k, j \in 1 .. C : k # j => names[k] # names[j],
         NEW b, b.symtab = a.symtab \o EndSymbols(names, C), b.indices = EndIndices(a, names, C)
  PROVE  Ended(a, b, names, C)
<1> DEFINE N == Len(a.symtab)
           t == EndSymbols(names, C)
           at(n) == CHOOSE k \in 1 .. C : names[k] = n
<1>1. a.symtab \in Seq(Symbols) /\ N \in Nat /\ DOMAIN a.symtab = 1 .. N
  BY DEF Assemblers
<1>2. PICK D \in SUBSET AllNames : a.indices \in [D -> Nat]
  BY DEF Assemblers
<1>3. \A k \in 1 .. C : t[k] = Symbol(names[k], 0, 0, NoSection) /\ t[k] \in Symbols /\ t[k].name = names[k] /\ t[k].section = NoSection
  BY DEF EndSymbols, Symbol, Symbols, Places
<1>4. t \in Seq(Symbols) /\ Len(t) = C
  <2>1. t = [k \in 1 .. C |-> t[k]]
    BY DEF EndSymbols
  <2> HIDE DEF t
  <2>2. t \in [1 .. C -> Symbols]
    BY <1>3, <2>1
  <2>3. t \in Seq(Symbols)
    BY <2>2, SeqDef
  <2> QED BY <2>2, <2>3, LenProperties
<1> HIDE DEF t
<1>5. /\ b.symtab \in Seq(Symbols) /\ DOMAIN b.symtab = 1 .. N + C
      /\ \A k \in 1 .. N : b.symtab[k] = a.symtab[k]
      /\ \A k \in 1 .. C : N + k \in 1 .. N + C /\ b.symtab[N + k] = t[k]
  <2> DEFINE u == b.symtab
  <2>1. u = a.symtab \o t
    BY DEF t
  <2>2. /\ u \in Seq(Symbols) /\ Len(u) = N + C
        /\ \A i \in 1 .. N + C : u[i] = IF i <= N THEN a.symtab[i] ELSE t[i - N]
    <3> DEFINE v == a.symtab
    <3>1. v \in Seq(Symbols) /\ u = v \o t /\ N = Len(v)
      BY <1>1, <2>1
    <3> HIDE DEF u, v, N
    <3>2. u \in Seq(Symbols) /\ Len(u) = Len(v) + Len(t)
      BY <1>4, <3>1, ConcatProperties
    <3>3. \A i \in 1 .. Len(v) + Len(t) : u[i] = IF i <= Len(v) THEN v[i] ELSE t[i - Len(v)]
      BY <1>4, <3>1, ConcatProperties
    <3> QED BY <1>4, <3>1, <3>2, <3>3 DEF v
  <2> HIDE DEF u, N
  <2>3. \A k \in 1 .. N : u[k] = a.symtab[k]
    BY <1>1, <2>2
  <2>4. \A k \in 1 .. C : N + k \in 1 .. N + C /\ u[N + k] = t[k]
    <3> TAKE k \in 1 .. C
    <3>1. N + k \in 1 .. N + C /\ ~(N + k <= N) /\ (N + k) - N = k
      BY <1>1
    <3>2. u[N + k] = t[(N + k) - N]
      BY <2>2, <3>1
    <3> QED BY <3>1, <3>2
  <2>5. DOMAIN u = 1 .. N + C
    BY <2>2, LenProperties
  <2> QED BY <2>2, <2>3, <2>4, <2>5 DEF u
<1>6. \A k \in 1 .. C : at(names[k]) = k
  OBVIOUS
<1> HIDE DEF N
<1>7. /\ DOMAIN b.indices = DOMAIN a.indices \cup {names[k] : k \in 1 .. C}
      /\ \A n \in DOMAIN a.indices : b.indices[n] = a.indices[n]
      /\ \A k \in 1 .. C : b.indices[names[k]] = N + k
  <2>1. /\ DOMAIN b.indices = DOMAIN a.indices \cup {names[k] : k \in 1 .. C}
        /\ \A n \in DOMAIN a.indices : b.indices[n] = a.indices[n]
    BY DEF EndIndices
  <2>2. ASSUME NEW k \in 1 .. C PROVE b.indices[names[k]] = N + k
    <3>1. b.indices[names[k]] = N + at(names[k])
      BY DEF EndIndices, N
    <3> HIDE DEF at
    <3> QED BY <1>6, <3>1
  <2> QED BY <2>1, <2>2
<1> HIDE DEF at
<1>8. b.indices \in UNION {[E -> Nat] : E \in SUBSET AllNames}
  <2> DEFINE E == D \cup {names[k] : k \in 1 .. C}
             i == b.indices
  <2>1. DOMAIN a.indices = D /\ E \in SUBSET AllNames
    BY <1>2
  <2>2. i = [n \in E |-> i[n]]
    BY <2>1 DEF EndIndices
  <2>3. \A n \in E : i[n] \in Nat
    BY <1>1, <1>2, <1>7, <2>1
  <2> HIDE DEF i, E
  <2>4. i \in [E -> Nat]
    BY <2>2, <2>3
  <2> QED BY <2>1, <2>4 DEF i
<1>9. \A n \in DOMAIN a.indices : a.indices[n] \in 1 .. N /\ At(a, n).name = n
  BY <1>1 DEF TableOK, Corresponds, At
<1>10. \A n \in DOMAIN a.indices : At(b, n) = At(a, n)
  BY <1>5, <1>7, <1>9 DEF At
<1>11. \A k \in 1 .. C : At(b, names[k]) = t[k]
  BY <1>5, <1>7 DEF At
<1>12. ASSUME NEW k \in DOMAIN b.symtab
       PROVE  b.symtab[k].name \in DOMAIN b.indices /\ b.indices[b.symtab[k].name] = k
  <2>1. CASE k \in 1 .. N
    <3>1. b.symtab[k] = a.symtab[k] /\ a.symtab[k].name \in DOMAIN a.indices /\ a.indices[a.symtab[k].name] = k
      BY <1>1, <1>5, <2>1 DEF TableOK, Corresponds
    <3> QED BY <1>7, <3>1
  <2>2. CASE k \notin 1 .. N
    <3> DEFINE j == k - N
    <3>1. j \in 1 .. C /\ k = N + j
      BY <1>1, <1>5, <2>2
    <3> HIDE DEF j
    <3>2. b.symtab[k].name = names[j]
      BY <1>3, <1>5, <3>1
    <3> QED BY <1>7, <3>1, <3>2
  <2> QED BY <2>1, <2>2
<1>13. ASSUME NEW n \in DOMAIN b.indices
       PROVE  b.indices[n] \in DOMAIN b.symtab /\ At(b, n).name = n
  <2>1. CASE n \in DOMAIN a.indices
    BY <1>1, <1>5, <1>7, <1>9, <1>10, <2>1
  <2>2. CASE n \notin DOMAIN a.indices
    <3>1. PICK k \in 1 .. C : n = names[k]
      BY <1>7, <2>2
    <3> QED BY <1>3, <1>5, <1>7, <1>11, <3>1
  <2> QED BY <2>1, <2>2
<1>14. TableOK(b)
  BY <1>12, <1>13 DEF TableOK, Corresponds, At
<1>15. \A k \in 1 .. C : At(b, names[k]).section = NoSection
  BY <1>3, <1>11
<1> QED BY <1>5, <1>7, <1>8, <1>10, <1>14, <1>15 DEF Ended

LEMMA FirstPassEnd ==
  ASSUME NEW a, NEW src \in Seq(Lines), FirstPass(a, src), NEW names \in SetToSeqs(a.undefined),
         NEW b, b = AddUndefined(a, names), b.ok
  PROVE  FirstPass(b, src) /\ b.undefined = {}
<1>1. /\ a \in Assemblers /\ a.ok /\ TableOK(a) /\ IsFiniteSet(a.undefined) /\ PlacesOK(a, src)
      /\ \E m : Kept(a.lines, src, m)
      /\ LabelsOK(a, src) /\ DefinedOK(a, src) /\ TargetsOK(a, src) /\ AcceptedOK(src)
  BY DEF FirstPass
<1> DEFINE C == Cardinality(a.undefined)
           t == a.symtab \o EndSymbols(names, C)
           i == EndIndices(a, names, C)
           z == a.location[".bss"]
<1>2. /\ C \in Nat /\ \A k \in 1 .. C : names[k] \in a.undefined /\ names[k] \notin DOMAIN a.indices
      /\ \A k, j \in 1 .. C : k # j => names[k] # names[j]
      /\ a.undefined \subseteq {names[k] : k \in 1 .. C}
      /\ b = [a EXCEPT !.symtab = t, !.indices = i, !.undefined = {}, !.bssSize = z]
  BY <1>1, EndFields
<1>3. z \in Int /\ a.undefined \in SUBSET AllNames
  BY <1>1 DEF Assemblers, Places, Sections
<1> HIDE DEF t, i, z, C
<1>4. /\ b.symtab = t /\ b.indices = i /\ b.undefined = {} /\ b.bssSize = z
      /\ b.lines = a.lines /\ b.current = a.current /\ b.location = a.location /\ b.ok = a.ok
  BY <1>1, <1>2 DEF Assemblers
<1>5. \A k \in 1 .. C : names[k] \in AllNames
  BY <1>2, <1>3
<1>6. b.symtab = a.symtab \o EndSymbols(names, C) /\ b.indices = EndIndices(a, names, C)
  BY <1>4 DEF t, i
<1>7. /\ TableOK(b) /\ b.symtab \in Seq(Symbols)
      /\ b.indices \in UNION {[D -> Nat] : D \in SUBSET AllNames}
      /\ DOMAIN b.indices = DOMAIN a.indices \cup {names[k] : k \in 1 .. C}
      /\ \A n \in DOMAIN a.indices : At(b, n) = At(a, n)
      /\ \A k \in 1 .. C : At(b, names[k]).section = NoSection
  <2>1. \A k \in 1 .. C : names[k] \in AllNames /\ names[k] \notin DOMAIN a.indices
    BY <1>2, <1>5
  <2>2. C \in Nat /\ \A k, j \in 1 .. C : k # j => names[k] # names[j]
    BY <1>2
  <2>3. a \in Assemblers /\ TableOK(a)
    BY <1>1
  <2>4. Ended(a, b, names, C)
    BY <1>6, <2>1, <2>2, <2>3, EndTable
  <2> QED BY <2>4 DEF Ended
<1>8. b \in Assemblers
  BY <1>1, <1>2, <1>3, <1>4, <1>7 DEF Assemblers
<1>9. PlacesOK(b, src)
  BY <1>1, <1>4 DEF PlacesOK
<1>10. \E m : Kept(b.lines, src, m)
  BY <1>1, <1>4
<1>11. LabelsOK(b, src)
  BY <1>1, <1>7 DEF LabelsOK
<1>12. DefinedOK(b, src)
  <2> SUFFICES ASSUME NEW n \in DOMAIN b.indices
               PROVE  At(b, n).section = NoSection \/ n \in Sections \/ \E k \in DOMAIN src : src[k].label = n
    BY DEF DefinedOK
  <2>1. CASE n \in DOMAIN a.indices
    BY <1>1, <1>7, <2>1 DEF DefinedOK
  <2>2. CASE n \notin DOMAIN a.indices
    BY <1>7, <2>2
  <2> QED BY <2>1, <2>2
<1>13. TargetsOK(b, src)
  <2>1. a.undefined \cup DOMAIN a.indices \subseteq b.undefined \cup DOMAIN b.indices
    BY <1>2, <1>7
  <2> QED BY <1>1, <2>1 DEF TargetsOK
<1>14. IsFiniteSet(b.undefined)
  BY <1>4, FS_EmptySet
<1> QED BY <1>1, <1>4, <1>7, <1>8, <1>9, <1>10, <1>11, <1>12, <1>13, <1>14 DEF FirstPass

-----------------------------------------------------------------------------
(* The second pass: what a saved statement does.                           *)

Relocations == [symbol : AllNames, section : Places, offset : Int]
Images ==
  [content : [Sections -> Seq(AllBytes)], relocations : Seq(Relocations), rela : {{}},
   start : [Sections -> Int], entry : {0}, ok : BOOLEAN, crashed : BOOLEAN]
Passes == [asm : Assemblers, image : Images]

(* A name's index is that of its entry.                                    *)
Indexed(a) == \A n \in DOMAIN a.indices : a.indices[n] \in DOMAIN a.symtab /\ At(a, n).name = n

Value(a, s) == IF s.target = NoName THEN 0 ELSE At(a, s.target).value
Fits(a, s) == s.kind = "op" => Value(a, s) <= s.reach
BytesAt(a, s, at) ==
  IF s.kind = "op" THEN <<s.code, Value(a, s) - (IF s.relative THEN at ELSE 0)>> ELSE DataBytes(s)
NamesOf(s) == IF s.kind = "op" /\ s.target # NoName THEN <<s.target>> ELSE << >>
TargetsIn(a, s) == s.kind = "op" => Targets(s) \subseteq DOMAIN a.indices

SecondRead(a, s) == ParseStatement(a, NoName, s, FALSE)

LEMMA ValueTyped ==
  ASSUME NEW a \in Assemblers, Indexed(a), NEW s \in Stmts, s.kind = "op", TargetsIn(a, s)
  PROVE  Value(a, s) \in Int
<1>1. CASE s.target = NoName
  BY <1>1 DEF Value
<1>2. CASE s.target # NoName
  <2>1. s.target \in DOMAIN a.indices
    BY <1>2 DEF TargetsIn, Targets
  <2>2. a.indices[s.target] \in DOMAIN a.symtab /\ a.symtab \in Seq(Symbols)
    BY <2>1 DEF Indexed, Assemblers
  <2>3. At(a, s.target) \in Symbols
    BY <2>2 DEF At
  <2> QED BY <1>2, <2>3 DEF Value, Symbols
<1> QED BY <1>1, <1>2

LEMMA BytesTyped ==
  ASSUME NEW a \in Assemblers, Indexed(a), NEW s \in Stmts, TargetsIn(a, s), NEW at \in Int
  PROVE  /\ BytesAt(a, s, at) \in Seq(AllBytes)
         /\ s.kind \in {"op", "values", "strings"} => Len(BytesAt(a, s, at)) = SizeOf(s)
         /\ s.kind \notin {"op", "values", "strings"} => BytesAt(a, s, at) = << >>
<1>1. CASE s.kind = "op"
  <2> DEFINE v == Value(a, s) - (IF s.relative THEN at ELSE 0)
  <2>1. v \in AllBytes /\ s.code \in AllBytes
    BY <1>1, ValueTyped, StmtOK DEF StatementOK, AllBytes
  <2>2. BytesAt(a, s, at) = <<s.code, v>>
    BY <1>1 DEF BytesAt
  <2> HIDE DEF v
  <2> QED BY <1>1, <2>1, <2>2 DEF SizeOf
<1>2. CASE s.kind # "op"
  <2>1. BytesAt(a, s, at) = DataBytes(s)
    BY <1>2 DEF BytesAt
  <2>2. s.kind \notin {"values", "strings"} => DataBytes(s) = << >>
    BY DEF DataBytes
  <2> QED BY <1>2, <2>1, <2>2, DataBytesTyped
<1> QED BY <1>1, <1>2

LEMMA SecondReads ==
  ASSUME NEW a \in Assemblers, a.ok, Indexed(a), NEW s \in Stmts, s.kind # "align", Acceptable(s), TargetsIn(a, s),
         s.kind = "op" => a.current \in Sections
  PROVE  SecondRead(a, s) = IF Fits(a, s) THEN Read(Grown(a, s), BytesAt(a, s, a.location[a.current]), SizeOf(s), NamesOf(s))
                            ELSE Refused(a)
<1>1. CASE s.kind = "op"
  <2> DEFINE at == a.location[a.current]
             x == IF s.target = NoName THEN [asm |-> a, value |-> 0] ELSE Resolve(a, s.target)
             v == Value(a, s)
             bytes == <<s.code, v - (IF s.relative THEN at ELSE 0)>>
             names == IF s.target = NoName THEN << >> ELSE <<s.target>>
             r == Encode(a, NoName, s, FALSE)
  <2>1. SecondRead(a, s) = IF r.asm.ok THEN [r EXCEPT !.asm.location[a.current] = @ + r.size] ELSE r
    BY <1>1 DEF SecondRead, ParseStatement, ParseAsmStatement
  <2>2. x.asm = a /\ x.value = v
    BY DEF Resolve, Value, At
  <2>3. r = IF x.value > s.reach THEN Refused(x.asm)
            ELSE Read(x.asm, <<s.code, x.value - (IF s.relative THEN at ELSE 0)>>, 2, names)
    BY DEF Encode, Address
  <2>4. v \in Int /\ s.reach \in Int
    BY <1>1, ValueTyped, StmtOK DEF StatementOK
  <2> HIDE DEF x, r
  <2>5. CASE Fits(a, s)
    <3>1. ~(v > s.reach)
      BY <1>1, <2>4, <2>5 DEF Fits
    <3>2. r = Read(a, bytes, 2, names)
      BY <2>2, <2>3, <3>1
    <3> HIDE DEF bytes, names, v
    <3>3. r.asm = a /\ r.size = 2
      BY <3>2 DEF Read
    <3>4. [r EXCEPT !.asm.location[a.current] = @ + r.size] = Read(WithLocation(a, a.current, 2), bytes, 2, names)
      BY <3>2, <3>3 DEF Read, WithLocation
    <3>5. SizeOf(s) = 2 /\ Grown(a, s) = WithLocation(a, a.current, 2)
      BY <1>1 DEF SizeOf, Grown, After, Sections, NoSection
    <3>6. BytesAt(a, s, at) = bytes /\ NamesOf(s) = names
      BY <1>1 DEF BytesAt, NamesOf, bytes, names, v
    <3> QED BY <2>1, <2>5, <3>3, <3>4, <3>5, <3>6
  <2>6. CASE ~Fits(a, s)
    <3>1. v > s.reach
      BY <1>1, <2>4, <2>6 DEF Fits
    <3>2. r = Refused(a)
      BY <2>2, <2>3, <3>1
    <3>3. ~r.asm.ok
      BY <3>2 DEF Refused, Read, Fail, Assemblers
    <3> QED BY <2>1, <2>6, <3>2, <3>3
  <2> QED BY <2>5, <2>6
<1>2. CASE s.kind # "op"
  <2>1. SecondRead(a, s) = Read(Grown(a, s), DataBytes(s), SizeOf(s), << >>)
    BY <1>2, DirectiveUnlabelled DEF SecondRead, ParseStatement
  <2>2. Fits(a, s) /\ NamesOf(s) = << >> /\ BytesAt(a, s, a.location[a.current]) = DataBytes(s)
    BY <1>2 DEF Fits, NamesOf, BytesAt
  <2> QED BY <2>1, <2>2
<1> QED BY <1>1, <1>2

(* What the image becomes with the bytes and the names of a statement.     *)
ContentWith(content, section, bytes) ==
  [t \in Sections |-> IF t = section /\ t # ".bss" THEN content[t] \o bytes ELSE content[t]]
RelocationsAt(names, section, offset) ==
  [k \in DOMAIN names |-> [symbol |-> names[k], section |-> section, offset |-> offset]]

PassedLine(p, q, c, bytes, names) ==
  /\ q \in Passes /\ q.asm = c
  /\ q.image.ok /\ ~q.image.crashed /\ q.image.start = p.image.start
  /\ q.image.content = ContentWith(p.image.content, p.asm.current, bytes)
  /\ q.image.relocations
       = p.image.relocations \o RelocationsAt(names, p.asm.current, p.asm.location[p.asm.current])

LEMMA PassLine ==
  ASSUME NEW p \in Passes, p.image.ok, ~p.image.crashed, NEW s,
         NEW r, r = SecondRead(p.asm, s),
         NEW c \in Assemblers, c = [r.asm EXCEPT !.ok = TRUE],
         r.bytes \in Seq(AllBytes), r.names \in Seq(AllNames),
         p.asm.current \in Sections \/ (r.names = << >> /\ r.bytes = << >>)
  PROVE  PassedLine(p, SecondPassLine(p, s), c, r.bytes, r.names)
<1> DEFINE section == p.asm.current
           at == p.asm.location[section]
           i == p.image
           rel == RelocationsAt(r.names, section, at)
           all == i.relocations \o rel
           j == [i EXCEPT !.relocations = all]
           q == [asm |-> c, image |-> j]
           z == SecondPassLine(p, s)
<1>1. p.asm \in Assemblers /\ i \in Images /\ section \in Places /\ at \in Int
  BY DEF Passes, Assemblers
<1>2. all \in Seq(Relocations)
  <2> DEFINE n == r.names
             N == Len(n)
  <2>1. N \in Nat /\ DOMAIN n = 1 .. N /\ \A k \in 1 .. N : n[k] \in AllNames
    OBVIOUS
  <2>2. rel = [k \in 1 .. N |-> [symbol |-> n[k], section |-> section, offset |-> at]]
    BY <2>1 DEF RelocationsAt
  <2> HIDE DEF n, N, at, section, i
  <2>3. \A k \in 1 .. N : [symbol |-> n[k], section |-> section, offset |-> at] \in Relocations
    BY <1>1, <2>1 DEF Relocations
  <2>4. rel \in [1 .. N -> Relocations]
    BY <2>2, <2>3
  <2> HIDE DEF rel
  <2>5. rel \in Seq(Relocations)
    BY <2>1, <2>4, SeqDef
  <2>6. i.relocations \in Seq(Relocations)
    BY <1>1 DEF Images
  <2> QED BY <2>5, <2>6, ConcatProperties
<1>3. j \in Images /\ j.relocations = all /\ j.content = i.content /\ j.ok /\ ~j.crashed /\ j.start = i.start
  <2> HIDE DEF all, i
  <2> QED BY <1>1, <1>2 DEF Images, i
<1>4. WithRelocations(p, r) = q
  <2>1. WithRelocations(p, r) = [p EXCEPT !.asm = c, !.image.relocations = p.image.relocations \o rel]
    BY DEF WithRelocations, RelocationsAt
  <2>2. p = [asm |-> p.asm, image |-> i] /\ all = p.image.relocations \o rel
    BY DEF Passes
  <2> HIDE DEF all, rel
  <2>3. WithRelocations(p, r) = [p EXCEPT !.asm = c, !.image.relocations = all]
    BY <2>1, <2>2, SMTT(30)
  <2> HIDE DEF i
  <2> QED BY <1>1, <2>2, <2>3 DEF Passes, i
<1> HIDE DEF j, all, q, rel
<1>5. z = IF r.names # << >> /\ section = NoSection THEN [q EXCEPT !.image.crashed = TRUE]
          ELSE IF r.bytes = << >> \/ section = ".bss" THEN q
          ELSE IF section = NoSection THEN [q EXCEPT !.image.ok = FALSE]
          ELSE [q EXCEPT !.image.content[section] = @ \o r.bytes]
  BY <1>4 DEF SecondPassLine, SecondRead
<1>6. i.content \in [Sections -> Seq(AllBytes)]
  BY <1>1 DEF Images
<1> HIDE DEF i, z
<1>7. CASE r.bytes = << >> \/ section = ".bss"
  <2>1. z = q
    BY <1>5, <1>7 DEF NoSection, Sections
  <2>2. ContentWith(i.content, section, r.bytes) = i.content
    <3>1. \A t \in Sections : i.content[t] \o << >> = i.content[t]
      BY <1>6
    <3> QED BY <1>6, <1>7, <3>1 DEF ContentWith
  <2> HIDE DEF section, at
  <2>3. z \in Passes /\ z.asm = c /\ z.image = j
    BY <1>3, <2>1 DEF Passes, q
  <2> QED BY <1>3, <2>2, <2>3 DEF PassedLine, all, rel, z, i, section, at
<1>8. CASE ~(r.bytes = << >> \/ section = ".bss")
  <2> DEFINE w == [i.content EXCEPT ![section] = @ \o r.bytes]
             k == [j EXCEPT !.content = w]
  <2>1. section \in Sections /\ section # ".bss" /\ section # NoSection
    BY <1>8 DEF Sections, NoSection
  <2>2. z = [q EXCEPT !.image.content[section] = @ \o r.bytes]
    BY <1>5, <1>8, <2>1
  <2>3. w = ContentWith(i.content, section, r.bytes) /\ w \in [Sections -> Seq(AllBytes)]
    <3> HIDE DEF section
    <3>1. i.content[section] \o r.bytes \in Seq(AllBytes)
      BY <1>6, <2>1, ConcatProperties
    <3> QED BY <1>6, <2>1, <3>1 DEF ContentWith
  <2> HIDE DEF w, section
  <2>4. z = [asm |-> c, image |-> k]
    BY <1>3, <2>2 DEF w, q
  <2>5. k \in Images /\ k.relocations = all /\ k.content = w /\ k.ok /\ ~k.crashed /\ k.start = i.start
    BY <1>3, <2>3 DEF Images
  <2> HIDE DEF k
  <2>6. z \in Passes /\ z.asm = c /\ z.image = k
    BY <2>4, <2>5 DEF Passes
  <2> QED BY <2>3, <2>5, <2>6 DEF PassedLine, all, rel, z, i, section, at
<1> QED BY <1>7, <1>8

LEMMA SecondStep ==
  ASSUME NEW p \in Passes, p.asm.ok, Indexed(p.asm), p.image.ok, ~p.image.crashed,
         NEW s \in Stmts, s.kind # "align", Acceptable(s), TargetsIn(p.asm, s),
         p.asm.current \in Sections \/ s.kind = "section"
  PROVE  /\ Fits(p.asm, s) => PassedLine(p, SecondPassLine(p, s), Grown(p.asm, s),
                                        BytesAt(p.asm, s, p.asm.location[p.asm.current]), NamesOf(s))
         /\ ~Fits(p.asm, s) => PassedLine(p, SecondPassLine(p, s), p.asm, << >>, << >>)
<1> DEFINE a == p.asm
           at == a.location[a.current]
           r == SecondRead(a, s)
<1>1. a \in Assemblers /\ at \in Int
  BY DEF Passes, Assemblers
<1>2. r = IF Fits(a, s) THEN Read(Grown(a, s), BytesAt(a, s, at), SizeOf(s), NamesOf(s)) ELSE Refused(a)
  <2>1. s.kind = "op" => a.current \in Sections
    OBVIOUS
  <2> HIDE DEF a
  <2> QED BY <1>1, <2>1, SecondReads DEF a
<1>3. CASE Fits(a, s)
  <2> DEFINE g == Grown(a, s)
             bytes == BytesAt(a, s, at)
             names == NamesOf(s)
  <2>1. r.asm = g /\ r.bytes = bytes /\ r.names = names
    <3> HIDE DEF r, g, bytes, names
    <3>1. r = Read(g, bytes, SizeOf(s), names)
      BY <1>2, <1>3 DEF g, bytes, names
    <3> QED BY <3>1 DEF Read
  <2>2. g \in Assemblers /\ g.ok
    <3>1. a.current # NoSection \/ SizeOf(s) = 0
      BY DEF SizeOf, Sections, NoSection
    <3>2. g \in Assemblers /\ g.ok = a.ok
      BY <1>1, <3>1, GrownEffect
    <3> QED BY <3>2
  <2>3. g = [r.asm EXCEPT !.ok = TRUE]
    <3> HIDE DEF g, r
    <3> QED BY <2>1, <2>2, OkAgain
  <2>4. /\ bytes \in Seq(AllBytes)
        /\ s.kind \notin {"op", "values", "strings"} => bytes = << >>
    BY <1>1, BytesTyped
  <2>5. names \in Seq(AllNames) /\ (s.kind # "op" => names = << >>)
    <3>1. s.target \in AllNames
      BY DEF Stmts, AllNames
    <3> QED BY <3>1 DEF NamesOf
  <2>6. a.current \in Sections \/ (r.names = << >> /\ r.bytes = << >>)
    <3> HIDE DEF r, bytes, names
    <3> QED BY <2>1, <2>4, <2>5
  <2> HIDE DEF g, bytes, names, r
  <2>7. r.bytes \in Seq(AllBytes) /\ r.names \in Seq(AllNames)
    BY <2>1, <2>4, <2>5
  <2>8. PassedLine(p, SecondPassLine(p, s), g, r.bytes, r.names)
    BY <2>2, <2>3, <2>6, <2>7, PassLine DEF r
  <2> QED BY <1>3, <2>1, <2>8 DEF g, bytes, names
<1>4. CASE ~Fits(a, s)
  <2>1. r = Refused(a)
    BY <1>2, <1>4
  <2> HIDE DEF r
  <2>2. r.asm = Fail(a) /\ r.bytes = << >> /\ r.names = << >>
    BY <2>1 DEF Refused, Read
  <2>3. a = [r.asm EXCEPT !.ok = TRUE]
    BY <1>1, <2>2, OkAgain
  <2>4. << >> \in Seq(AllBytes) /\ << >> \in Seq(AllNames)
    OBVIOUS
  <2>5. PassedLine(p, SecondPassLine(p, s), a, r.bytes, r.names)
    <3> HIDE DEF a
    <3>1. r = SecondRead(p.asm, s) /\ a \in Assemblers /\ r.bytes \in Seq(AllBytes) /\ r.names \in Seq(AllNames)
      BY <1>1, <2>2, <2>4 DEF r, a
    <3> QED BY <2>2, <2>3, <3>1, PassLine
  <2> QED BY <1>4, <2>2, <2>5
<1> QED BY <1>3, <1>4

LEMMA RelocationsRange ==
  ASSUME NEW names, NEW section, NEW offset
  PROVE  Range(RelocationsAt(names, section, offset))
           = {[symbol |-> n, section |-> section, offset |-> offset] : n \in Range(names)}
<1> DEFINE f == RelocationsAt(names, section, offset)
<1>1. DOMAIN f = DOMAIN names /\ \A k \in DOMAIN names : f[k] = [symbol |-> names[k], section |-> section, offset |-> offset]
  BY DEF RelocationsAt
<1> HIDE DEF f
<1>2. Range(f) = {f[k] : k \in DOMAIN f} /\ Range(names) = {names[k] : k \in DOMAIN names}
  BY DEF Range
<1> QED BY <1>1, <1>2 DEF f

LEMMA RelocationsTyped ==
  ASSUME NEW s \in Stmts, NEW section \in Places, NEW offset \in Int
  PROVE  RelocationsAt(NamesOf(s), section, offset) \in Seq(Relocations)
<1> DEFINE new == RelocationsAt(NamesOf(s), section, offset)
<1>1. s.target \in AllNames
  BY DEF Stmts, AllNames
<1>2. CASE NamesOf(s) = << >>
  <2>1. new = << >>
    BY <1>2 DEF RelocationsAt
  <2> QED BY <2>1
<1>3. CASE NamesOf(s) = <<s.target>>
  <2>1. new = <<[symbol |-> s.target, section |-> section, offset |-> offset]>>
    BY <1>3 DEF RelocationsAt
  <2>2. [symbol |-> s.target, section |-> section, offset |-> offset] \in Relocations
    BY <1>1 DEF Relocations
  <2> QED BY <2>1, <2>2
<1> QED BY <1>2, <1>3 DEF NamesOf

(* The symbols of the relocations are in the table.                        *)
Found(a, p) == \A r \in Range(p.image.relocations) : r.symbol \in DOMAIN a.indices

LEMMA RelocationsFound ==
  ASSUME NEW a, NEW p \in Passes, Found(a, p), NEW s \in Stmts, TargetsIn(a, s), NEW q,
         q.image.relocations
           = p.image.relocations \o RelocationsAt(NamesOf(s), p.asm.current, p.asm.location[p.asm.current])
  PROVE  Found(a, q)
<1> DEFINE c == p.asm.current
           o == p.asm.location[c]
           old == p.image.relocations
           new == RelocationsAt(NamesOf(s), c, o)
<1>1. old \in Seq(Relocations) /\ c \in Places /\ o \in Int
  BY DEF Passes, Images, Assemblers
<1>2. new \in Seq(Relocations)
  <2> HIDE DEF c, o
  <2> QED BY <1>1, RelocationsTyped
<1>3. Range(new) = {[symbol |-> n, section |-> c, offset |-> o] : n \in Range(NamesOf(s))}
  BY RelocationsRange
<1>4. \A n \in Range(NamesOf(s)) : n \in DOMAIN a.indices
  BY DEF NamesOf, Range, TargetsIn, Targets
<1> HIDE DEF c, o, new, old
<1>5. Range(old \o new) = Range(old) \cup Range(new)
  BY <1>1, <1>2, RangeConcatenation
<1>6. \A r \in Range(new) : r.symbol \in DOMAIN a.indices
  BY <1>3, <1>4
<1>7. \A r \in Range(old) : r.symbol \in DOMAIN a.indices
  BY DEF Found, old
<1>8. q.image.relocations = old \o new
  BY DEF old, new, c, o
<1> QED BY <1>5, <1>6, <1>7, <1>8 DEF Found

-----------------------------------------------------------------------------
(* The second pass: where it is after n of the saved statements.           *)

(* What the first pass leaves for the second.                              *)
Ready(a, start, src, m) ==
  /\ a \in Assemblers /\ Indexed(a) /\ a.ok
  /\ src \in Seq(Lines) /\ WithoutGaps(src) /\ AcceptedOK(src) /\ Kept(a.lines, src, m)
  /\ \A k \in DOMAIN src : TargetsIn(a, src[k].stmt)
  /\ start \in [Sections -> Int]

InPass(a, start, src, m, n, p) ==
  /\ p \in Passes /\ p.asm.ok /\ SameTable(a, p.asm)
  /\ p.image.ok /\ ~p.image.crashed /\ p.image.start = start /\ Found(a, p)
  /\ n # 0 => p.asm.current = SectionAt(src, m[n] + 1)

Holds(content, offset, bytes) ==
  /\ offset + Len(bytes) <= Len(content)
  /\ \A i \in 1 .. Len(bytes) : content[offset + i] = bytes[i]

AddressAt(start, src, k) == start[SectionAt(src, k)] + OffsetAt(src, k)

LineIn(a, start, src, content, k) ==
  SectionAt(src, k) \in {".text", ".data"} =>
    Holds(content[SectionAt(src, k)], OffsetAt(src, k), BytesAt(a, src[k].stmt, AddressAt(start, src, k)))

LineRelocations(start, src, k) ==
  {[symbol |-> n, section |-> SectionAt(src, k), offset |-> AddressAt(start, src, k)] : n \in Range(NamesOf(src[k].stmt))}

InPlace(a, start, src, m, n, p) ==
  /\ \A s \in Sections : p.asm.location[s] = start[s] + SizeBefore(src, s, m[n] + 1)
  /\ \A s \in {".text", ".data"} : Len(p.image.content[s]) = SizeBefore(src, s, m[n] + 1)
  /\ \A i \in 1 .. n : LineIn(a, start, src, p.image.content, m[i])
  /\ Range(p.image.relocations) = UNION {LineRelocations(start, src, m[i]) : i \in 1 .. n}

(* A saved statement and the one before it.                                *)
KeptStep(src, lines, m, n, k, j) ==
  /\ k \in DOMAIN src /\ j \in 0 .. Len(src) /\ k = m[n] /\ j = m[n - 1] /\ j < k
  /\ lines[n] = src[k].stmt /\ src[k].stmt \in Stmts /\ src[k].stmt.kind # "empty"
  /\ SectionAt(src, k) = SectionAt(src, j + 1)
  /\ \A s : SizeBefore(src, s, k) = SizeBefore(src, s, j + 1)
  /\ n = 1 => SectionAt(src, k) = NoSection

LEMMA KeptSteps ==
  ASSUME NEW src \in Seq(Lines), NEW lines \in Seq(Stmts), NEW m, Kept(lines, src, m), NEW n \in 1 .. Len(lines)
  PROVE  KeptStep(src, lines, m, n, m[n], m[n - 1])
<1> DEFINE k == m[n]
           j == m[n - 1]
<1>1. /\ m \in [0 .. Len(lines) -> 0 .. Len(src)] /\ m[0] = 0
      /\ j < k /\ src[k].stmt = lines[n] /\ lines[n].kind # "empty"
      /\ \A i \in j + 1 .. k - 1 : src[i].stmt.kind = "empty"
  BY DEF Kept
<1>2. n \in 0 .. Len(lines) /\ n - 1 \in 0 .. Len(lines)
  OBVIOUS
<1>3. k \in 0 .. Len(src) /\ j \in 0 .. Len(src)
  BY <1>1, <1>2
<1>4. n = 1 => j = 0
  BY <1>1
<1> HIDE DEF k, j
<1>5. k \in DOMAIN src /\ j + 1 \in Nat \ {0} /\ k \in Nat /\ j + 1 <= k
  BY <1>1, <1>3
<1>6. src[k].stmt \in Stmts
  BY <1>5 DEF Stmts
<1>7. \A i \in j + 1 .. k - 1 : src[i].stmt.kind # "section"
  BY <1>1
<1> DEFINE l == j + 1
<1>8. /\ l \in Nat \ {0} /\ l <= k /\ (\A i \in l .. k - 1 : src[i].stmt.kind = "empty")
      /\ \A i \in l .. k - 1 : src[i].stmt.kind # "section"
  BY <1>1, <1>5, <1>7
<1> HIDE DEF l
<1>9. SectionAt(src, k) = SectionAt(src, l)
  BY <1>5, <1>8, SectionGap
<1>10. \A s : SizeBefore(src, s, k) = SizeBefore(src, s, l)
  BY <1>5, <1>8, SizeGap
<1>11. n = 1 => SectionAt(src, k) = NoSection
  <2> SUFFICES ASSUME n = 1 PROVE SectionAt(src, k) = NoSection
    OBVIOUS
  <2>1. l = 1
    BY <1>4 DEF l
  <2> QED BY <1>9, <2>1, SectionFirst
<1>12. k = m[n] /\ j = m[n - 1]
  BY DEF k, j
<1>13. KeptStep(src, lines, m, n, k, j)
  BY <1>1, <1>3, <1>5, <1>6, <1>9, <1>10, <1>11, <1>12 DEF KeptStep, l
<1> QED BY <1>13 DEF k, j

LEMMA SecondSame ==
  ASSUME NEW a, NEW b, SameTable(a, b), NEW s
  PROVE  /\ Indexed(b) <=> Indexed(a)
         /\ TargetsIn(b, s) <=> TargetsIn(a, s)
         /\ Fits(b, s) <=> Fits(a, s)
         /\ \A at : BytesAt(b, s, at) = BytesAt(a, s, at)
<1>1. b.symtab = a.symtab /\ b.indices = a.indices
  BY DEF SameTable
<1>2. Value(b, s) = Value(a, s)
  BY <1>1 DEF Value, At
<1>3. Indexed(b) <=> Indexed(a)
  BY <1>1 DEF Indexed, At
<1> QED BY <1>1, <1>2, <1>3 DEF TargetsIn, Fits, BytesAt

LEMMA HoldsAppended ==
  ASSUME NEW S, NEW content \in Seq(S), NEW more \in Seq(S), NEW bytes \in Seq(S), NEW offset \in Nat,
         Holds(content, offset, bytes)
  PROVE  Holds(content \o more, offset, bytes)
<1> DEFINE c == content \o more
<1>1. /\ Len(c) = Len(content) + Len(more)
      /\ \A i \in 1 .. Len(content) + Len(more) : c[i] = IF i <= Len(content) THEN content[i] ELSE more[i - Len(content)]
  BY ConcatProperties
<1>2. Len(content) \in Nat /\ Len(more) \in Nat /\ Len(bytes) \in Nat
  OBVIOUS
<1>3. offset + Len(bytes) <= Len(content) /\ \A i \in 1 .. Len(bytes) : content[offset + i] = bytes[i]
  BY DEF Holds
<1> HIDE DEF c
<1>4. ASSUME NEW i \in 1 .. Len(bytes) PROVE c[offset + i] = bytes[i]
  <2>1. offset + i \in 1 .. Len(content) + Len(more) /\ offset + i <= Len(content)
    BY <1>2, <1>3
  <2> QED BY <1>1, <1>3, <2>1
<1>5. Holds(c, offset, bytes)
  BY <1>1, <1>2, <1>3, <1>4 DEF Holds
<1> QED BY <1>5 DEF c

LEMMA HoldsNew ==
  ASSUME NEW S, NEW content \in Seq(S), NEW bytes \in Seq(S)
  PROVE  Holds(content \o bytes, Len(content), bytes)
<1> DEFINE c == content \o bytes
<1>1. /\ Len(c) = Len(content) + Len(bytes)
      /\ \A i \in 1 .. Len(content) + Len(bytes) : c[i] = IF i <= Len(content) THEN content[i] ELSE bytes[i - Len(content)]
  BY ConcatProperties
<1>2. Len(content) \in Nat /\ Len(bytes) \in Nat
  OBVIOUS
<1> HIDE DEF c
<1>3. ASSUME NEW i \in 1 .. Len(bytes) PROVE c[Len(content) + i] = bytes[i]
  <2> DEFINE x == Len(content) + i
  <2>1. x \in 1 .. Len(content) + Len(bytes) /\ ~(x <= Len(content)) /\ x - Len(content) = i
    BY <1>2
  <2>2. c[x] = bytes[x - Len(content)]
    <3> HIDE DEF x
    <3> QED BY <1>1, <2>1
  <2> QED BY <2>1, <2>2
<1>4. Holds(c, Len(content), bytes)
  BY <1>1, <1>2, <1>3 DEF Holds
<1> QED BY <1>4 DEF c

(* The assembler stands where the first pass stood, unless the statement is *)
(* one that chooses a section.                                             *)
Standing(src, k, p) ==
  \/ src[k].stmt.kind = "section"
  \/ src[k].stmt.kind # "section" /\ p.asm.current = SectionAt(src, k) /\ p.asm.current \in Sections

LEMMA StandsThere ==
  ASSUME NEW a, NEW start, NEW src, NEW m, Ready(a, start, src, m), NEW n \in 1 .. Len(a.lines),
         NEW p, InPass(a, start, src, m, n - 1, p)
  PROVE  Standing(src, m[n], p)
<1> DEFINE k == m[n]
           j == m[n - 1]
<1>1. src \in Seq(Lines) /\ a.lines \in Seq(Stmts) /\ Kept(a.lines, src, m) /\ WithoutGaps(src)
  BY DEF Ready, Assemblers
<1>2. KeptStep(src, a.lines, m, n, k, j)
  BY <1>1, KeptSteps
<1>3. /\ k \in DOMAIN src /\ j \in 0 .. Len(src) /\ j < k
      /\ SectionAt(src, k) = SectionAt(src, j + 1) /\ (n = 1 => SectionAt(src, k) = NoSection)
  BY <1>2 DEF KeptStep
<1>4. n - 1 # 0 => p.asm.current = SectionAt(src, j + 1)
  BY DEF InPass
<1>5. SectionAt(src, k) = NoSection => src[k].stmt.kind = "section"
  <2> HIDE DEF k, j
  <2> QED BY <1>1, <1>3 DEF WithoutGaps
<1>6. SectionAt(src, k) \in Places
  <2>1. k \in 1 .. Len(src) + 1
    BY <1>1, <1>3
  <2> QED BY <1>1, <2>1, SectionTyped
<1>7. CASE src[k].stmt.kind # "section"
  <2>1. n # 1 /\ SectionAt(src, k) # NoSection
    BY <1>3, <1>5, <1>7
  <2>2. n - 1 # 0
    BY <2>1
  <2> QED BY <1>3, <1>4, <1>6, <1>7, <2>1, <2>2 DEF Standing, Places
<1> QED BY <1>7 DEF Standing

(* One statement of the second pass, whether it can be encoded or not.     *)
LEMMA SecondLine ==
  ASSUME NEW a, NEW start, NEW src, NEW m, Ready(a, start, src, m), NEW n \in 1 .. Len(a.lines),
         NEW p, InPass(a, start, src, m, n - 1, p),
         NEW s, s = a.lines[n], NEW q, q = SecondPassLine(p, s)
  PROVE  /\ Fits(a, s) => PassedLine(p, q, Grown(p.asm, s), BytesAt(a, s, p.asm.location[p.asm.current]), NamesOf(s))
         /\ ~Fits(a, s) => PassedLine(p, q, p.asm, << >>, << >>)
<1> DEFINE k == m[n]
<1>1. /\ src \in Seq(Lines) /\ a.lines \in Seq(Stmts) /\ Kept(a.lines, src, m) /\ WithoutGaps(src)
      /\ AcceptedOK(src) /\ (\A l \in DOMAIN src : TargetsIn(a, src[l].stmt)) /\ Indexed(a)
  BY DEF Ready, Assemblers
<1>2. KeptStep(src, a.lines, m, n, k, m[n - 1])
  BY <1>1, KeptSteps
<1>3. k \in DOMAIN src /\ s = src[k].stmt /\ s \in Stmts /\ s.kind # "empty"
  BY <1>2 DEF KeptStep
<1>4. Standing(src, k, p)
  BY StandsThere
<1> HIDE DEF k
<1>5. s.kind # "align" /\ Acceptable(s) /\ TargetsIn(a, s)
  BY <1>1, <1>3 DEF WithoutGaps, AcceptedOK
<1>6. p \in Passes /\ p.asm.ok /\ SameTable(a, p.asm) /\ p.image.ok /\ ~p.image.crashed
  BY DEF InPass
<1>7. Indexed(p.asm) /\ TargetsIn(p.asm, s) /\ (Fits(p.asm, s) <=> Fits(a, s)) /\ \A at : BytesAt(p.asm, s, at) = BytesAt(a, s, at)
  BY <1>1, <1>5, <1>6, SecondSame
<1>8. p.asm.current \in Sections \/ s.kind = "section"
  BY <1>3, <1>4 DEF Standing
<1>9. /\ Fits(p.asm, s) => PassedLine(p, q, Grown(p.asm, s), BytesAt(p.asm, s, p.asm.location[p.asm.current]), NamesOf(s))
      /\ ~Fits(p.asm, s) => PassedLine(p, q, p.asm, << >>, << >>)
  BY <1>3, <1>5, <1>6, <1>7, <1>8, SecondStep
<1> QED BY <1>7, <1>9

LEMMA InPassNext ==
  ASSUME NEW a, NEW start, NEW src, NEW m, Ready(a, start, src, m), NEW n \in 1 .. Len(a.lines),
         NEW p, InPass(a, start, src, m, n - 1, p), NEW q, q = SecondPassLine(p, a.lines[n])
  PROVE  InPass(a, start, src, m, n, q)
<1> DEFINE k == m[n]
           s == a.lines[n]
<1>1. src \in Seq(Lines) /\ a.lines \in Seq(Stmts) /\ Kept(a.lines, src, m)
  BY DEF Ready, Assemblers
<1>2. KeptStep(src, a.lines, m, n, k, m[n - 1])
  BY <1>1, KeptSteps
<1>3. k \in DOMAIN src /\ s = src[k].stmt /\ s \in Stmts
  BY <1>2 DEF KeptStep
<1>4. Standing(src, k, p)
  BY StandsThere
<1>5. p \in Passes /\ p.asm \in Assemblers /\ p.asm.ok /\ SameTable(a, p.asm) /\ p.image.start = start /\ Found(a, p)
  BY DEF InPass, Passes
<1>6. SectionAt(src, k + 1) = SectionAfter(SectionAt(src, k), s)
  <2>1. k \in Nat \ {0}
    BY <1>1, <1>3
  <2> HIDE DEF k
  <2> QED BY <1>3, <2>1, SectionNext DEF SectionAfter
<1>7. CASE Fits(a, s)
  <2> DEFINE g == Grown(p.asm, s)
             bytes == BytesAt(a, s, p.asm.location[p.asm.current])
  <2>1. PassedLine(p, q, g, bytes, NamesOf(s))
    BY <1>7, SecondLine
  <2>2. p.asm.current # NoSection \/ SizeOf(s) = 0
    BY <1>3, <1>4 DEF Standing, SizeOf, Sections, NoSection
  <2>3. g.current = SectionAfter(p.asm.current, s) /\ g.ok = p.asm.ok /\ SameTable(p.asm, g)
    BY <1>3, <1>5, <2>2, GrownEffect
  <2> HIDE DEF g, bytes, k, s
  <2>4. g.current = SectionAt(src, k + 1)
    BY <1>3, <1>4, <1>6, <2>3 DEF Standing, SectionAfter
  <2>5. SameTable(a, g)
    BY <1>5, <2>3 DEF SameTable
  <2>6. q \in Passes /\ q.asm = g /\ q.image.ok /\ ~q.image.crashed /\ q.image.start = p.image.start
    BY <2>1 DEF PassedLine
  <2>7. Found(a, q)
    <3>1. q.image.relocations
            = p.image.relocations \o RelocationsAt(NamesOf(s), p.asm.current, p.asm.location[p.asm.current])
      BY <2>1 DEF PassedLine
    <3>2. TargetsIn(a, s)
      BY <1>3 DEF Ready
    <3> QED BY <1>3, <1>5, <3>1, <3>2, RelocationsFound
  <2> QED BY <1>5, <2>3, <2>4, <2>5, <2>6, <2>7 DEF InPass, k
<1>8. CASE ~Fits(a, s)
  <2>1. PassedLine(p, q, p.asm, << >>, << >>)
    BY <1>8, SecondLine
  <2>2. s.kind = "op"
    BY <1>8 DEF Fits
  <2> HIDE DEF k, s
  <2>3. p.asm.current = SectionAt(src, k + 1)
    BY <1>3, <1>4, <1>6, <2>2 DEF Standing, SectionAfter
  <2>4. q \in Passes /\ q.asm = p.asm /\ q.image.ok /\ ~q.image.crashed /\ q.image.start = p.image.start
    BY <2>1 DEF PassedLine
  <2>5. Found(a, q)
    <3>1. q.image.relocations
            = p.image.relocations \o RelocationsAt(<< >>, p.asm.current, p.asm.location[p.asm.current])
      BY <2>1 DEF PassedLine
    <3>2. \A x, y : RelocationsAt(<< >>, x, y) = << >>
      BY DEF RelocationsAt
    <3>3. p.image.relocations \in Seq(Relocations)
      BY <1>5 DEF Passes, Images
    <3>4. q.image.relocations = p.image.relocations
      <4>1. RelocationsAt(<< >>, p.asm.current, p.asm.location[p.asm.current]) = << >>
        BY <3>2
      <4>2. q.image.relocations = p.image.relocations \o << >>
        BY <3>1, <4>1
      <4> DEFINE x == p.image.relocations
      <4>3. x \in Seq(Relocations) /\ q.image.relocations = x \o << >>
        BY <3>3, <4>2
      <4> HIDE DEF x
      <4>4. x \o << >> = x
        BY <4>3
      <4> QED BY <4>3, <4>4 DEF x
    <3> QED BY <1>5, <3>4 DEF Found
  <2> QED BY <1>5, <2>3, <2>4, <2>5 DEF InPass, k
<1> QED BY <1>7, <1>8

(* What is known of a step that is in place before, for statement s of     *)
(* line k, with bytes for the content.                                     *)
PlaceStep(a, start, src, m, n, p, q, k, s, bytes) ==
  /\ src \in Seq(Lines) /\ k \in DOMAIN src /\ k = m[n] /\ s = src[k].stmt /\ s \in Stmts
  /\ a \in Assemblers /\ Indexed(a) /\ TargetsIn(a, s) /\ start \in [Sections -> Int] /\ n \in Nat \ {0}
  /\ p \in Passes /\ q \in Passes
  /\ q.asm.location = Moved(p.asm.location, p.asm.current, SizeOf(s))
  /\ q.image.content = ContentWith(p.image.content, p.asm.current, bytes)
  /\ q.image.relocations
       = p.image.relocations \o RelocationsAt(NamesOf(s), p.asm.current, p.asm.location[p.asm.current])
  /\ bytes = BytesAt(a, s, p.asm.location[p.asm.current])
  /\ Standing(src, k, p)
  /\ s.kind = "space" => SectionAt(src, k) = ".bss"
  /\ Acceptable(s)
  /\ \A t \in Sections : p.asm.location[t] = start[t] + SizeBefore(src, t, k)
  /\ \A t \in {".text", ".data"} : Len(p.image.content[t]) = SizeBefore(src, t, k)
  /\ \A i \in 1 .. n - 1 : /\ m[i] \in DOMAIN src
                           /\ LineIn(a, start, src, p.image.content, m[i])
  /\ Range(p.image.relocations) = UNION {LineRelocations(start, src, m[i]) : i \in 1 .. n - 1}
  /\ \A l \in DOMAIN src : src[l].stmt \in Stmts /\ TargetsIn(a, src[l].stmt)

LEMMA PlaceStepHolds ==
  ASSUME NEW a, NEW start, NEW src, NEW m, Ready(a, start, src, m), NEW n \in 1 .. Len(a.lines),
         NEW p, InPass(a, start, src, m, n - 1, p), InPlace(a, start, src, m, n - 1, p), Fits(a, a.lines[n]),
         NEW q, q = SecondPassLine(p, a.lines[n])
  PROVE  \E bytes : PlaceStep(a, start, src, m, n, p, q, m[n], a.lines[n], bytes)
<1> DEFINE k == m[n]
           j == m[n - 1]
           s == a.lines[n]
           bytes == BytesAt(a, s, p.asm.location[p.asm.current])
<1>1. /\ src \in Seq(Lines) /\ a.lines \in Seq(Stmts) /\ Kept(a.lines, src, m) /\ WithoutGaps(src)
      /\ AcceptedOK(src) /\ (\A l \in DOMAIN src : TargetsIn(a, src[l].stmt)) /\ Indexed(a)
      /\ a \in Assemblers /\ start \in [Sections -> Int]
  BY DEF Ready, Assemblers
<1>2. KeptStep(src, a.lines, m, n, k, j)
  BY <1>1, KeptSteps
<1>3. /\ k \in DOMAIN src /\ s = src[k].stmt /\ s \in Stmts /\ s.kind # "empty"
      /\ \A t : SizeBefore(src, t, k) = SizeBefore(src, t, j + 1)
  BY <1>2 DEF KeptStep
<1>4. Standing(src, k, p)
  BY StandsThere
<1>5. p \in Passes /\ p.asm \in Assemblers
  BY DEF InPass, Passes
<1>6. PassedLine(p, q, Grown(p.asm, s), bytes, NamesOf(s))
  BY SecondLine
<1>7. q.asm.location = Moved(p.asm.location, p.asm.current, SizeOf(s))
  <2>1. p.asm.current # NoSection \/ SizeOf(s) = 0
    BY <1>3, <1>4 DEF Standing, SizeOf, Sections, NoSection
  <2>2. Grown(p.asm, s).location = Moved(p.asm.location, p.asm.current, SizeOf(s))
    BY <1>3, <1>5, <2>1, GrownEffect
  <2> HIDE DEF bytes
  <2> QED BY <1>6, <2>2 DEF PassedLine
<1>8. /\ q \in Passes /\ q.image.content = ContentWith(p.image.content, p.asm.current, bytes)
      /\ q.image.relocations
           = p.image.relocations \o RelocationsAt(NamesOf(s), p.asm.current, p.asm.location[p.asm.current])
  <2> HIDE DEF bytes
  <2> QED BY <1>6 DEF PassedLine
<1>9. (s.kind = "space" => SectionAt(src, k) = ".bss") /\ Acceptable(s) /\ TargetsIn(a, s)
  <2> HIDE DEF k, s
  <2> QED BY <1>1, <1>3 DEF WithoutGaps, AcceptedOK
<1>10. /\ \A t \in Sections : p.asm.location[t] = start[t] + SizeBefore(src, t, k)
       /\ \A t \in {".text", ".data"} : Len(p.image.content[t]) = SizeBefore(src, t, k)
       /\ \A i \in 1 .. n - 1 : LineIn(a, start, src, p.image.content, m[i])
       /\ Range(p.image.relocations) = UNION {LineRelocations(start, src, m[i]) : i \in 1 .. n - 1}
  BY <1>3 DEF InPlace
<1>11. \A i \in 1 .. n - 1 : m[i] \in DOMAIN src
  <2> TAKE i \in 1 .. n - 1
  <2>1. i \in 1 .. Len(a.lines)
    BY <1>1
  <2>2. KeptStep(src, a.lines, m, i, m[i], m[i - 1])
    BY <1>1, <2>1, KeptSteps
  <2> QED BY <2>2 DEF KeptStep
<1>12. \A l \in DOMAIN src : src[l].stmt \in Stmts
  BY <1>1 DEF Stmts
<1>13. n \in Nat \ {0} /\ k = m[n]
  BY <1>1
<1> HIDE DEF k, s
<1>14. bytes = BytesAt(a, s, p.asm.location[p.asm.current])
  BY SMTT(30)
<1> HIDE DEF bytes
<1>15. PlaceStep(a, start, src, m, n, p, q, k, s, bytes)
  BY <1>1, <1>3, <1>4, <1>5, <1>7, <1>8, <1>9, <1>10, <1>11, <1>12, <1>13, <1>14 DEF PlaceStep
<1> QED BY <1>15 DEF k, s

LEMMA PlaceLocation ==
  ASSUME NEW a, NEW start, NEW src, NEW m, NEW n, NEW p, NEW q, NEW k, NEW s, NEW bytes,
         PlaceStep(a, start, src, m, n, p, q, k, s, bytes), NEW t \in Sections
  PROVE  q.asm.location[t] = start[t] + SizeBefore(src, t, k + 1)
<1>1. /\ src \in Seq(Lines) /\ k \in DOMAIN src /\ s = src[k].stmt /\ s \in Stmts /\ start \in [Sections -> Int]
      /\ q.asm.location = Moved(p.asm.location, p.asm.current, SizeOf(s)) /\ Standing(src, k, p)
      /\ p.asm.location[t] = start[t] + SizeBefore(src, t, k)
  BY DEF PlaceStep
<1>2. SizeBefore(src, t, k + 1) = SizeBefore(src, t, k) + (IF SectionAt(src, k) = t THEN SizeOf(s) ELSE 0)
  BY <1>1, SizeNext
<1>3. q.asm.location[t] = IF t = p.asm.current THEN p.asm.location[t] + SizeOf(s) ELSE p.asm.location[t]
  BY <1>1 DEF Moved, Places
<1>4. SizeOf(s) \in Nat /\ start[t] \in Int /\ SizeBefore(src, t, k) \in Int
  <2>1. k \in 1 .. Len(src) + 1
    BY <1>1
  <2> QED BY <1>1, <2>1, StmtOK, SizeBeforeTyped
<1>5. CASE s.kind = "section"
  <2>1. SizeOf(s) = 0
    BY <1>5 DEF SizeOf
  <2> QED BY <1>1, <1>2, <1>3, <1>4, <2>1
<1>6. CASE s.kind # "section"
  <2>1. p.asm.current = SectionAt(src, k)
    BY <1>1, <1>6 DEF Standing
  <2> QED BY <1>1, <1>2, <1>3, <1>4, <2>1
<1> QED BY <1>5, <1>6

(* The bytes of the statement, and the section that they go to.            *)
LEMMA PlaceBytes ==
  ASSUME NEW a, NEW start, NEW src, NEW m, NEW n, NEW p, NEW q, NEW k, NEW s, NEW bytes,
         PlaceStep(a, start, src, m, n, p, q, k, s, bytes)
  PROVE  /\ bytes \in Seq(AllBytes)
         /\ s.kind = "section" => bytes = << >> /\ SizeOf(s) = 0
         /\ s.kind # "section" => /\ p.asm.current = SectionAt(src, k) /\ p.asm.current \in Sections
                                  /\ SectionAt(src, k) \in {".text", ".data"} => Len(bytes) = SizeOf(s)
<1>1. /\ s = src[k].stmt /\ s \in Stmts /\ a \in Assemblers /\ Indexed(a) /\ TargetsIn(a, s)
      /\ bytes = BytesAt(a, s, p.asm.location[p.asm.current]) /\ Standing(src, k, p) /\ p \in Passes
      /\ s.kind = "space" => SectionAt(src, k) = ".bss"
      /\ Acceptable(s)
  BY DEF PlaceStep
<1> DEFINE at == p.asm.location[p.asm.current]
<1>2. at \in Int
  BY <1>1 DEF Passes, Assemblers
<1> HIDE DEF at
<1>3. /\ bytes \in Seq(AllBytes)
      /\ s.kind \in {"op", "values", "strings"} => Len(bytes) = SizeOf(s)
      /\ s.kind \notin {"op", "values", "strings"} => bytes = << >>
  BY <1>1, <1>2, BytesTyped DEF at
<1>4. CASE s.kind = "section"
  BY <1>3, <1>4 DEF SizeOf
<1>5. CASE s.kind # "section"
  <2>1. p.asm.current = SectionAt(src, k) /\ p.asm.current \in Sections
    BY <1>1, <1>5 DEF Standing
  <2>2. CASE s.kind \in {"op", "values", "strings"}
    BY <1>3, <1>5, <2>1, <2>2
  <2>3. CASE s.kind \notin {"op", "values", "strings"}
    <3>1. s.kind = "global" \/ s.kind = "space"
      BY <1>1, <1>5, <2>3 DEF Acceptable
    <3>2. s.kind = "global" => SizeOf(s) = 0
      BY DEF SizeOf
    <3>3. Len(bytes) = 0
      BY <1>3, <2>3
    <3> QED BY <1>1, <1>3, <1>5, <2>1, <3>1, <3>2, <3>3
  <2> QED BY <2>2, <2>3
<1> QED BY <1>4, <1>5

ContentStep(src, p, q, k, bytes, t) ==
  /\ p.image.content[t] \in Seq(AllBytes)
  /\ q.image.content[t] = p.image.content[t] \o (IF t = p.asm.current THEN bytes ELSE << >>)
  /\ Len(q.image.content[t]) = SizeBefore(src, t, k + 1)

LEMMA PlaceContent ==
  ASSUME NEW a, NEW start, NEW src, NEW m, NEW n, NEW p, NEW q, NEW k, NEW s, NEW bytes,
         PlaceStep(a, start, src, m, n, p, q, k, s, bytes), NEW t \in {".text", ".data"}
  PROVE  ContentStep(src, p, q, k, bytes, t)
<1>1. /\ src \in Seq(Lines) /\ k \in DOMAIN src /\ s = src[k].stmt /\ s \in Stmts /\ p \in Passes
      /\ q.image.content = ContentWith(p.image.content, p.asm.current, bytes)
      /\ Len(p.image.content[t]) = SizeBefore(src, t, k)
  BY DEF PlaceStep
<1> DEFINE c == p.image.content[t]
           more == IF t = p.asm.current THEN bytes ELSE << >>
<1>2. c \in Seq(AllBytes) /\ t \in Sections /\ t # ".bss"
  BY <1>1 DEF Passes, Images, Sections
<1>3. /\ bytes \in Seq(AllBytes)
      /\ s.kind = "section" => bytes = << >> /\ SizeOf(s) = 0
      /\ s.kind # "section" => /\ p.asm.current = SectionAt(src, k) /\ p.asm.current \in Sections
                               /\ SectionAt(src, k) \in {".text", ".data"} => Len(bytes) = SizeOf(s)
  BY PlaceBytes
<1>4. q.image.content[t] = IF t = p.asm.current /\ t # ".bss" THEN c \o bytes ELSE c
  BY <1>1, <1>2 DEF ContentWith
<1>5. c \o << >> = c
  BY <1>2
<1>6. q.image.content[t] = c \o more
  <2> HIDE DEF c
  <2> QED BY <1>2, <1>4, <1>5
<1>7. SizeBefore(src, t, k + 1) = SizeBefore(src, t, k) + (IF SectionAt(src, k) = t THEN SizeOf(s) ELSE 0)
  BY <1>1, SizeNext
<1>8. more \in Seq(AllBytes) /\ Len(more) = IF SectionAt(src, k) = t THEN SizeOf(s) ELSE 0
  <2>1. CASE s.kind = "section"
    BY <1>3, <2>1
  <2>2. CASE s.kind # "section"
    <3>1. p.asm.current = SectionAt(src, k)
      BY <1>3, <2>2
    <3>2. CASE SectionAt(src, k) = t
      BY <1>3, <2>2, <3>1, <3>2
    <3>3. CASE SectionAt(src, k) # t
      BY <3>1, <3>3
    <3> QED BY <3>2, <3>3
  <2> QED BY <2>1, <2>2
<1> HIDE DEF c, more
<1>9. Len(c \o more) = Len(c) + Len(more)
  BY <1>2, <1>8
<1>10. Len(q.image.content[t]) = SizeBefore(src, t, k + 1)
  <2>1. Len(c) = SizeBefore(src, t, k)
    BY <1>1 DEF c
  <2> QED BY <1>6, <1>7, <1>8, <1>9, <2>1
<1> QED BY <1>2, <1>6, <1>10 DEF c, more, ContentStep

LEMMA AddressTyped ==
  ASSUME NEW src \in Seq(Lines), NEW start \in [Sections -> Int], NEW k \in DOMAIN src, SectionAt(src, k) \in Sections
  PROVE  OffsetAt(src, k) \in Nat /\ AddressAt(start, src, k) \in Int
<1>1. k \in 1 .. Len(src) + 1
  OBVIOUS
<1>2. OffsetAt(src, k) \in Nat
  BY <1>1, SizeBeforeTyped DEF OffsetAt
<1> QED BY <1>2 DEF AddressAt

LEMMA PlaceLines ==
  ASSUME NEW a, NEW start, NEW src, NEW m, NEW n, NEW p, NEW q, NEW k, NEW s, NEW bytes,
         PlaceStep(a, start, src, m, n, p, q, k, s, bytes), NEW i \in 1 .. n
  PROVE  LineIn(a, start, src, q.image.content, m[i])
<1> DEFINE l == m[i]
           t == SectionAt(src, l)
           b == BytesAt(a, src[l].stmt, AddressAt(start, src, l))
<1>1. /\ src \in Seq(Lines) /\ k \in DOMAIN src /\ k = m[n] /\ s = src[k].stmt /\ s \in Stmts
      /\ start \in [Sections -> Int] /\ n \in Nat \ {0} /\ a \in Assemblers /\ Indexed(a)
      /\ \A x \in 1 .. n - 1 : m[x] \in DOMAIN src /\ LineIn(a, start, src, p.image.content, m[x])
      /\ \A x \in DOMAIN src : src[x].stmt \in Stmts /\ TargetsIn(a, src[x].stmt)
  BY DEF PlaceStep
<1> SUFFICES ASSUME t \in {".text", ".data"}
             PROVE  Holds(q.image.content[t], OffsetAt(src, l), b)
  BY DEF LineIn
<1>2. /\ p.image.content[t] \in Seq(AllBytes)
      /\ q.image.content[t] = p.image.content[t] \o (IF t = p.asm.current THEN bytes ELSE << >>)
  <2>1. ContentStep(src, p, q, k, bytes, t)
    <3> HIDE DEF t
    <3> QED BY PlaceContent
  <2> QED BY <2>1 DEF ContentStep
<1>3. /\ bytes \in Seq(AllBytes)
      /\ s.kind = "section" => bytes = << >> /\ SizeOf(s) = 0
      /\ s.kind # "section" => p.asm.current = SectionAt(src, k) /\ p.asm.current \in Sections
  BY PlaceBytes
<1>4. l \in DOMAIN src
  BY <1>1
<1>5. t \in Sections /\ OffsetAt(src, l) \in Nat /\ AddressAt(start, src, l) \in Int
  <2>1. t \in Sections
    BY DEF Sections
  <2> QED BY <1>1, <1>4, <2>1, AddressTyped
<1>6. b \in Seq(AllBytes)
  <2>1. src[l].stmt \in Stmts /\ TargetsIn(a, src[l].stmt)
    BY <1>1, <1>4
  <2> HIDE DEF l, t
  <2> QED BY <1>1, <1>5, <2>1, BytesTyped
<1>7. CASE i # n
  <2>1. LineIn(a, start, src, p.image.content, l)
    BY <1>1, <1>7
  <2>2. Holds(p.image.content[t], OffsetAt(src, l), b)
    BY <2>1 DEF LineIn
  <2> DEFINE c == p.image.content[t]
             more == IF t = p.asm.current THEN bytes ELSE << >>
             o == OffsetAt(src, l)
  <2>3. c \in Seq(AllBytes) /\ more \in Seq(AllBytes) /\ o \in Nat /\ Holds(c, o, b) /\ q.image.content[t] = c \o more
    BY <1>2, <1>3, <1>5, <2>2
  <2> HIDE DEF c, more, o, b, t, l
  <2>4. Holds(c \o more, o, b)
    BY <1>6, <2>3, HoldsAppended
  <2> QED BY <2>3, <2>4 DEF o
<1>8. CASE i = n
  <2> DEFINE c == p.image.content[t]
  <2>1. l = k
    BY <1>1, <1>8
  <2>2. OffsetAt(src, l) = Len(c)
    BY <2>1 DEF OffsetAt, PlaceStep
  <2>3. q.image.content[t] = c \o b
    <3>1. CASE s.kind = "section"
      <4>1. b = << >> /\ bytes = << >>
        BY <1>1, <1>3, <2>1, <3>1 DEF BytesAt, DataBytes
      <4> HIDE DEF b, c, t, l
      <4> QED BY <1>2, <4>1 DEF c
    <3>2. CASE s.kind # "section"
      <4>1. p.asm.current = t
        BY <1>3, <2>1, <3>2
      <4>2. p.asm.location[t] = start[t] + SizeBefore(src, t, k)
        BY <1>5 DEF PlaceStep
      <4>3. p.asm.location[p.asm.current] = AddressAt(start, src, l)
        BY <2>1, <4>1, <4>2 DEF AddressAt, OffsetAt
      <4>4. bytes = BytesAt(a, s, p.asm.location[p.asm.current])
        BY DEF PlaceStep
      <4>5. bytes = b
        BY <1>1, <2>1, <4>3, <4>4
      <4> HIDE DEF b, c, t, l
      <4> QED BY <1>2, <4>1, <4>5 DEF c
    <3> QED BY <3>1, <3>2
  <2>4. c \in Seq(AllBytes)
    BY <1>2
  <2> HIDE DEF b, c, t, l
  <2>5. Holds(c \o b, Len(c), b)
    BY <1>6, <2>4, HoldsNew
  <2> QED BY <2>2, <2>3, <2>5
<1> QED BY <1>7, <1>8

LEMMA PlaceRelocations ==
  ASSUME NEW a, NEW start, NEW src, NEW m, NEW n, NEW p, NEW q, NEW k, NEW s, NEW bytes,
         PlaceStep(a, start, src, m, n, p, q, k, s, bytes)
  PROVE  Range(q.image.relocations) = UNION {LineRelocations(start, src, m[i]) : i \in 1 .. n}
<1> DEFINE c == p.asm.current
           o == p.asm.location[c]
           new == RelocationsAt(NamesOf(s), c, o)
           old == p.image.relocations
<1>1. /\ k = m[n] /\ s = src[k].stmt /\ s \in Stmts /\ n \in Nat \ {0} /\ p \in Passes
      /\ q.image.relocations = old \o new
      /\ Standing(src, k, p) /\ \A t \in Sections : p.asm.location[t] = start[t] + SizeBefore(src, t, k)
      /\ Range(old) = UNION {LineRelocations(start, src, m[i]) : i \in 1 .. n - 1}
  BY DEF PlaceStep
<1>2. old \in Seq(Relocations) /\ c \in Places /\ o \in Int
  BY <1>1 DEF Passes, Images, Assemblers
<1>3. new \in Seq(Relocations)
  <2> HIDE DEF c, o
  <2> QED BY <1>1, <1>2, RelocationsTyped
<1>4. Range(new) = LineRelocations(start, src, k)
  <2>1. Range(new) = {[symbol |-> x, section |-> c, offset |-> o] : x \in Range(NamesOf(s))}
    BY RelocationsRange
  <2>2. CASE s.kind = "op"
    <3>1. c = SectionAt(src, k) /\ c \in Sections
      BY <1>1, <2>2 DEF Standing
    <3>2. o = AddressAt(start, src, k)
      BY <1>1, <3>1 DEF AddressAt, OffsetAt
    <3> HIDE DEF new, o, c
    <3> QED BY <1>1, <2>1, <3>1, <3>2 DEF LineRelocations
  <2>3. CASE s.kind # "op"
    <3>1. Range(NamesOf(s)) = {}
      BY <2>3 DEF NamesOf, Range
    <3> HIDE DEF new, o, c
    <3> QED BY <1>1, <2>1, <3>1 DEF LineRelocations
  <2> QED BY <2>2, <2>3
<1> HIDE DEF new, old, o, c
<1>5. Range(q.image.relocations) = Range(old) \cup Range(new)
  BY <1>1, <1>2, <1>3, RangeConcatenation
<1> DEFINE R(i) == LineRelocations(start, src, m[i])
<1>6. Range(q.image.relocations) = (UNION {R(i) : i \in 1 .. n - 1}) \cup R(n)
  BY <1>1, <1>4, <1>5
<1> HIDE DEF R
<1>7. 1 .. n = (1 .. n - 1) \cup {n}
  BY <1>1
<1>8. (UNION {R(i) : i \in 1 .. n - 1}) \cup R(n) = UNION {R(i) : i \in 1 .. n}
  BY <1>7
<1> QED BY <1>6, <1>8 DEF R

LEMMA InPlaceNext ==
  ASSUME NEW a, NEW start, NEW src, NEW m, Ready(a, start, src, m), NEW n \in 1 .. Len(a.lines),
         NEW p, InPass(a, start, src, m, n - 1, p), InPlace(a, start, src, m, n - 1, p), Fits(a, a.lines[n]),
         NEW q, q = SecondPassLine(p, a.lines[n])
  PROVE  InPlace(a, start, src, m, n, q)
<1>1. PICK bytes : PlaceStep(a, start, src, m, n, p, q, m[n], a.lines[n], bytes)
  BY PlaceStepHolds
<1>2. \A t \in Sections : q.asm.location[t] = start[t] + SizeBefore(src, t, m[n] + 1)
  BY <1>1, PlaceLocation
<1>3. \A t \in {".text", ".data"} : Len(q.image.content[t]) = SizeBefore(src, t, m[n] + 1)
  <2> TAKE t \in {".text", ".data"}
  <2>1. ContentStep(src, p, q, m[n], bytes, t)
    BY <1>1, PlaceContent
  <2> QED BY <2>1 DEF ContentStep
<1>4. \A i \in 1 .. n : LineIn(a, start, src, q.image.content, m[i])
  BY <1>1, PlaceLines
<1>5. Range(q.image.relocations) = UNION {LineRelocations(start, src, m[i]) : i \in 1 .. n}
  BY <1>1, PlaceRelocations
<1> QED BY <1>2, <1>3, <1>4, <1>5 DEF InPlace

-----------------------------------------------------------------------------
(* All of the second pass.                                                 *)

(* f holds what the first n saved statements make of the assembler and the *)
(* image.                                                                  *)
Passing(a, i, N, f) ==
  f = [n \in 0 .. N |-> IF n = 0 THEN [asm |-> a, image |-> i] ELSE SecondPassLine(f[n - 1], a.lines[n])]

LEMMA PassingExists ==
  ASSUME NEW a, NEW i, NEW N \in Nat
  PROVE  \E f : Passing(a, i, N, f)
<1> DEFINE bad == {n \in Nat : ~\E f : Passing(a, i, n, f)}
           first == [asm |-> a, image |-> i]
<1> SUFFICES ASSUME bad # {} PROVE FALSE
  OBVIOUS
<1>1. PICK n \in bad : \A k \in bad : n <= k
  <2>1. bad \in SUBSET Nat
    OBVIOUS
  <2> HIDE DEF bad
  <2> QED BY <2>1, Least
<1>2. n \in Nat /\ ~\E f : Passing(a, i, n, f)
  OBVIOUS
<1>3. CASE n = 0
  <2> DEFINE f == [k \in 0 .. 0 |-> first]
  <2>1. f = [k \in 0 .. 0 |-> IF k = 0 THEN first ELSE SecondPassLine(f[k - 1], a.lines[k])]
    <3>1. \A k \in 0 .. 0 : k = 0
      OBVIOUS
    <3> HIDE DEF first
    <3> QED BY <3>1
  <2>2. Passing(a, i, 0, f)
    BY <2>1 DEF Passing
  <2> QED BY <1>2, <1>3, <2>2
<1>4. CASE n # 0
  <2>1. n - 1 \in Nat /\ 0 \in 0 .. n - 1
    BY <1>2, <1>4
  <2>2. n - 1 \notin bad
    BY <1>1, <1>2, <2>1
  <2>3. PICK f : Passing(a, i, n - 1, f)
    BY <2>1, <2>2
  <2> HIDE DEF first
  <2> DEFINE e == [k \in 0 .. n |-> IF k = n THEN SecondPassLine(f[n - 1], a.lines[n]) ELSE f[k]]
             g == [k \in 0 .. n |-> IF k = 0 THEN first ELSE SecondPassLine(e[k - 1], a.lines[k])]
  <2>4. \A k \in 0 .. n - 1 : f[k] = IF k = 0 THEN first ELSE SecondPassLine(f[k - 1], a.lines[k])
    <3>1. f = [k \in 0 .. n - 1 |-> IF k = 0 THEN first ELSE SecondPassLine(f[k - 1], a.lines[k])]
      BY <2>3 DEF Passing, first
    <3> QED BY <3>1
  <2>5. /\ e[n] = SecondPassLine(f[n - 1], a.lines[n])
        /\ \A k \in 0 .. n - 1 : e[k] = f[k]
    <3>1. n \in 0 .. n /\ \A k \in 0 .. n - 1 : k \in 0 .. n /\ k # n
      BY <1>2, <1>4
    <3> QED BY <3>1
  <2>6. ASSUME NEW k \in 0 .. n PROVE e[k] = IF k = 0 THEN first ELSE SecondPassLine(e[k - 1], a.lines[k])
    <3> HIDE DEF e
    <3>1. CASE k \in 0 .. n - 1
      <4>1. k # 0 => k - 1 \in 0 .. n - 1
        BY <2>1, <3>1
      <4> QED BY <2>4, <2>5, <3>1, <4>1
    <3>2. CASE k = n
      <4>1. n - 1 \in 0 .. n - 1
        BY <2>1
      <4> QED BY <1>4, <2>5, <3>2, <4>1
    <3> QED BY <1>2, <3>1, <3>2
  <2>7. e = g
    BY <2>6
  <2>8. Passing(a, i, n, e)
    BY <2>7 DEF Passing, first
  <2> QED BY <1>2, <2>8
<1> QED BY <1>3, <1>4

LEMMA PassTwoSteps ==
  ASSUME NEW a, NEW i, Len(a.lines) \in Nat
  PROVE  \E f : /\ f[0] = [asm |-> a, image |-> i] /\ ParsePassTwo(a, i) = f[Len(a.lines)]
                /\ \A n \in 1 .. Len(a.lines) : f[n] = SecondPassLine(f[n - 1], a.lines[n])
<1> DEFINE N == Len(a.lines)
           f == CHOOSE f : Passing(a, i, N, f)
<1>1. Passing(a, i, N, f)
  BY PassingExists
<1>2. ParsePassTwo(a, i) = f[N]
  BY DEF ParsePassTwo, Passing
<1> HIDE DEF f
<1>3. \A n \in 0 .. N : f[n] = IF n = 0 THEN [asm |-> a, image |-> i] ELSE SecondPassLine(f[n - 1], a.lines[n])
  <2>1. f = [n \in 0 .. N |-> IF n = 0 THEN [asm |-> a, image |-> i] ELSE SecondPassLine(f[n - 1], a.lines[n])]
    BY <1>1 DEF Passing
  <2> QED BY <2>1
<1>4. 0 \in 0 .. N /\ \A n \in 1 .. N : n \in 0 .. N /\ n # 0
  OBVIOUS
<1> QED BY <1>2, <1>3, <1>4

AllFit(a) == \A n \in 1 .. Len(a.lines) : Fits(a, a.lines[n])

LEMMA AllPassed ==
  ASSUME NEW a, NEW start, NEW src, NEW m, Ready(a, start, src, m), NEW i,
         InPass(a, start, src, m, 0, [asm |-> a, image |-> i]),
         InPlace(a, start, src, m, 0, [asm |-> a, image |-> i]),
         NEW p, p = ParsePassTwo(a, i)
  PROVE  /\ InPass(a, start, src, m, Len(a.lines), p)
         /\ AllFit(a) => InPlace(a, start, src, m, Len(a.lines), p)
<1> DEFINE N == Len(a.lines)
<1>1. N \in Nat
  BY DEF Ready, Assemblers
<1>2. PICK f : /\ f[0] = [asm |-> a, image |-> i] /\ ParsePassTwo(a, i) = f[N]
               /\ \A n \in 1 .. N : f[n] = SecondPassLine(f[n - 1], a.lines[n])
  BY <1>1, PassTwoSteps
<1> DEFINE Good(n) == InPass(a, start, src, m, n, f[n]) /\ (AllFit(a) => InPlace(a, start, src, m, n, f[n]))
           bad == {n \in 0 .. N : ~Good(n)}
<1>3. bad = {}
  <2> SUFFICES ASSUME bad # {} PROVE FALSE
    OBVIOUS
  <2>1. bad \in SUBSET Nat
    OBVIOUS
  <2>2. PICK n \in bad : \A k \in bad : n <= k
    <3> HIDE DEF bad
    <3> QED BY <2>1, Least
  <2>3. n \in 0 .. N /\ ~Good(n)
    OBVIOUS
  <2>4. CASE n = 0
    <3> HIDE DEF bad
    <3> QED BY <1>2, <2>3, <2>4
  <2>5. CASE n # 0
    <3>1. n \in 1 .. N /\ n - 1 \in 0 .. N /\ n - 1 < n
      BY <1>1, <2>3, <2>5
    <3>2. Good(n - 1)
      <4>1. n - 1 \notin bad
        <5> HIDE DEF bad
        <5> QED BY <2>1, <2>2, <3>1
      <4> QED BY <3>1, <4>1
    <3>3. f[n] = SecondPassLine(f[n - 1], a.lines[n])
      BY <1>2, <3>1
    <3>4. InPass(a, start, src, m, n - 1, f[n - 1])
      BY <3>2
    <3>5. InPass(a, start, src, m, n, f[n])
      <4> HIDE DEF Good, bad
      <4> QED BY <3>1, <3>3, <3>4, InPassNext
    <3>6. ASSUME AllFit(a) PROVE InPlace(a, start, src, m, n, f[n])
      <4>1. InPlace(a, start, src, m, n - 1, f[n - 1])
        BY <3>2, <3>6
      <4>2. Fits(a, a.lines[n])
        BY <3>1, <3>6 DEF AllFit
      <4> HIDE DEF Good, bad
      <4> QED BY <3>1, <3>3, <3>4, <4>1, <4>2, InPlaceNext
    <3> QED BY <2>3, <3>5, <3>6
  <2> QED BY <2>4, <2>5
<1>4. Good(N)
  <2>1. N \in 0 .. N
    BY <1>1
  <2> QED BY <1>3, <2>1
<1> QED BY <1>2, <1>4

(* An image whose contents are still to come.                              *)
Blank(start) == [NoImage EXCEPT !.start = start]

LEMMA BlankImage ==
  ASSUME NEW start \in [Sections -> Int]
  PROVE  /\ Blank(start) \in Images
         /\ Blank(start).content = [s \in Sections |-> << >>] /\ Blank(start).relocations = << >>
         /\ Blank(start).start = start /\ Blank(start).ok /\ ~Blank(start).crashed
<1> DEFINE c == [s \in Sections |-> << >>]
<1>1. c \in [Sections -> Seq(AllBytes)] /\ << >> \in Seq(Relocations)
  OBVIOUS
<1> HIDE DEF c
<1> DEFINE z == [s \in Sections |-> 0]
<1>2. NoImage = [content |-> c, relocations |-> << >>, rela |-> {}, start |-> z, entry |-> 0, ok |-> TRUE, crashed |-> FALSE]
  BY DEF NoImage, c
<1>3. z \in [Sections -> Int]
  OBVIOUS
<1> HIDE DEF z
<1>4. NoImage \in Images /\ NoImage.content = c /\ NoImage.relocations = << >> /\ NoImage.ok /\ ~NoImage.crashed
  BY <1>1, <1>2, <1>3 DEF Images
<1> DEFINE b == Blank(start)
<1>5. /\ b \in Images /\ b.content = NoImage.content /\ b.relocations = NoImage.relocations
      /\ b.start = start /\ b.ok = NoImage.ok /\ b.crashed = NoImage.crashed
  BY <1>4 DEF Images, Blank
<1> HIDE DEF b
<1> QED BY <1>4, <1>5 DEF c, b

LEMMA PassBegins ==
  ASSUME NEW a, NEW start, NEW src, NEW m, Ready(a, start, src, m), \A s \in Sections : a.location[s] = start[s]
  PROVE  /\ InPass(a, start, src, m, 0, [asm |-> a, image |-> Blank(start)])
         /\ InPlace(a, start, src, m, 0, [asm |-> a, image |-> Blank(start)])
<1> DEFINE p == [asm |-> a, image |-> Blank(start)]
<1>1. a \in Assemblers /\ a.ok /\ start \in [Sections -> Int] /\ src \in Seq(Lines) /\ m[0] = 0
  BY DEF Ready, Kept
<1>2. p.asm = a /\ p.image = Blank(start)
  OBVIOUS
<1>3. /\ p.image \in Images /\ p.image.content = [s \in Sections |-> << >>] /\ p.image.relocations = << >>
      /\ p.image.start = start /\ p.image.ok /\ ~p.image.crashed
  BY <1>1, <1>2, BlankImage
<1>4. p \in Passes
  BY <1>1, <1>2, <1>3 DEF Passes
<1> HIDE DEF p
<1>5. InPass(a, start, src, m, 0, p)
  <2>1. Found(a, p)
    BY <1>3 DEF Found, Range
  <2> QED BY <1>1, <1>2, <1>3, <1>4, <2>1 DEF InPass, SameTable
<1>6. \A s : SizeBefore(src, s, m[0] + 1) = 0
  <2>1. m[0] + 1 = 1
    BY <1>1
  <2> QED BY <1>1, <2>1, SizeFirst
<1>7. \A s \in Sections : p.asm.location[s] = start[s] + SizeBefore(src, s, m[0] + 1)
  BY <1>1, <1>2, <1>6
<1>8. \A s \in {".text", ".data"} : Len(p.image.content[s]) = SizeBefore(src, s, m[0] + 1)
  BY <1>3, <1>6 DEF Sections
<1>9. Range(p.image.relocations) = UNION {LineRelocations(start, src, m[i]) : i \in 1 .. 0}
  <2>1. Range(p.image.relocations) = {}
    BY <1>3 DEF Range
  <2>2. 1 .. 0 = {}
    OBVIOUS
  <2> QED BY <2>1, <2>2
<1>10. \A i \in 1 .. 0 : LineIn(a, start, src, p.image.content, m[i])
  OBVIOUS
<1>11. InPlace(a, start, src, m, 0, p)
  BY <1>7, <1>8, <1>9, <1>10 DEF InPlace
<1> QED BY <1>5, <1>11 DEF p

(* What the second pass makes of the source.                               *)
LinesFit(a, src) == \A k \in DOMAIN src : Fits(a, src[k].stmt)
Assembled(a, start, src, p) ==
  /\ \A s \in {".text", ".data"} : Len(p.image.content[s]) = SizeBefore(src, s, Len(src) + 1)
  /\ \A k \in DOMAIN src : src[k].stmt.kind # "empty" => LineIn(a, start, src, p.image.content, k)
  /\ Range(p.image.relocations) = UNION {LineRelocations(start, src, k) : k \in DOMAIN src}
PassDone(a, start, src, p) ==
  /\ p \in Passes /\ SameTable(a, p.asm) /\ p.image.ok /\ ~p.image.crashed /\ p.image.start = start /\ Found(a, p)
  /\ LinesFit(a, src) => Assembled(a, start, src, p)

LEMMA PassTwo ==
  ASSUME NEW a, NEW start, NEW src, NEW m, Ready(a, start, src, m), \A s \in Sections : a.location[s] = start[s],
         NEW p, p = ParsePassTwo(a, Blank(start))
  PROVE  PassDone(a, start, src, p)
<1> DEFINE N == Len(a.lines)
           i == Blank(start)
<1>1. /\ InPass(a, start, src, m, 0, [asm |-> a, image |-> i])
      /\ InPlace(a, start, src, m, 0, [asm |-> a, image |-> i])
  BY PassBegins
<1> HIDE DEF i
<1>2. InPass(a, start, src, m, N, p) /\ (AllFit(a) => InPlace(a, start, src, m, N, p))
  BY <1>1, AllPassed DEF i
<1>3. /\ src \in Seq(Lines) /\ a.lines \in Seq(Stmts) /\ Kept(a.lines, src, m)
  BY DEF Ready, Assemblers
<1>4. N \in Nat /\ \A n \in 1 .. N : m[n] \in DOMAIN src /\ a.lines[n] = src[m[n]].stmt
  <2>1. \A n \in 1 .. N : KeptStep(src, a.lines, m, n, m[n], m[n - 1])
    BY <1>3, KeptSteps
  <2> QED BY <1>3, <2>1 DEF KeptStep
<1>5. ASSUME LinesFit(a, src) PROVE Assembled(a, start, src, p)
  <2>1. AllFit(a)
    BY <1>4, <1>5 DEF AllFit, LinesFit
  <2>2. /\ \A s \in {".text", ".data"} : Len(p.image.content[s]) = SizeBefore(src, s, m[N] + 1)
        /\ \A x \in 1 .. N : LineIn(a, start, src, p.image.content, m[x])
        /\ Range(p.image.relocations) = UNION {LineRelocations(start, src, m[x]) : x \in 1 .. N}
    BY <1>2, <2>1 DEF InPlace
  <2>3. \A k \in DOMAIN src : src[k].stmt.kind # "empty" => \E n \in 1 .. N : m[n] = k
    BY <1>3 DEF Kept
  <2>4. \A s : SizeBefore(src, s, Len(src) + 1) = SizeBefore(src, s, m[N] + 1)
    <3> DEFINE x == m[N] + 1
               y == Len(src) + 1
    <3>1. m[N] \in 0 .. Len(src) /\ \A j \in m[N] + 1 .. Len(src) : src[j].stmt.kind = "empty"
      <4>1. N \in 0 .. N
        BY <1>4
      <4> QED BY <1>3, <4>1 DEF Kept
    <3>2. x \in Nat \ {0} /\ y \in Nat /\ x <= y /\ \A j \in x .. y - 1 : src[j].stmt.kind = "empty"
      BY <1>3, <3>1
    <3> HIDE DEF x, y
    <3>3. \A s : SizeBefore(src, s, y) = SizeBefore(src, s, x)
      BY <1>3, <3>2, SizeGap
    <3> QED BY <3>3 DEF x, y
  <2>5. \A s \in {".text", ".data"} : Len(p.image.content[s]) = SizeBefore(src, s, Len(src) + 1)
    BY <2>2, <2>4
  <2>6. \A k \in DOMAIN src : src[k].stmt.kind # "empty" => LineIn(a, start, src, p.image.content, k)
    BY <2>2, <2>3
  <2>7. \A k \in DOMAIN src : src[k].stmt.kind = "empty" => LineRelocations(start, src, k) = {}
    <3> TAKE k \in DOMAIN src
    <3> HAVE src[k].stmt.kind = "empty"
    <3>1. Range(NamesOf(src[k].stmt)) = {}
      BY DEF NamesOf, Range
    <3> QED BY <3>1 DEF LineRelocations
  <2>8. UNION {LineRelocations(start, src, m[x]) : x \in 1 .. N} = UNION {LineRelocations(start, src, k) : k \in DOMAIN src}
    BY <1>4, <2>3, <2>7
  <2> QED BY <2>2, <2>5, <2>6, <2>8 DEF Assembled
<1> QED BY <1>2, <1>5 DEF InPass, PassDone

-----------------------------------------------------------------------------
(* Between the passes: the symbols become addresses or the table is sorted. *)

(* Every entry has a name of its own.                                      *)
Distinct(t) == \A x, y \in Range(t) : x.name = y.name => x = y

LEMMA TableEntries ==
  ASSUME NEW a \in Assemblers, TableOK(a)
  PROVE  /\ Indexed(a) /\ Distinct(a.symtab)
         /\ DOMAIN a.indices = {x.name : x \in Range(a.symtab)}
         /\ \A n \in DOMAIN a.indices : At(a, n) \in Range(a.symtab) /\ At(a, n) \in Symbols
<1> DEFINE t == a.symtab
           i == a.indices
<1>1. /\ \A k \in DOMAIN t : t[k].name \in DOMAIN i /\ i[t[k].name] = k
      /\ \A n \in DOMAIN i : i[n] \in DOMAIN t /\ t[i[n]].name = n
  BY DEF TableOK, Corresponds
<1>2. Range(t) = {t[k] : k \in DOMAIN t} /\ t \in Seq(Symbols)
  BY DEF Range, Assemblers
<1>3. \A n \in DOMAIN i : At(a, n) = t[i[n]]
  BY DEF At
<1>4. \A k \in DOMAIN t : t[k] \in Symbols
  BY <1>2
<1> HIDE DEF t, i
<1>5. \A n \in DOMAIN i : i[n] \in DOMAIN t /\ At(a, n).name = n /\ At(a, n) \in Range(t) /\ At(a, n) \in Symbols
  BY <1>1, <1>2, <1>3, <1>4
<1>6. DOMAIN i = {x.name : x \in Range(t)}
  <2>1. \A x \in Range(t) : x.name \in DOMAIN i
    BY <1>1, <1>2
  <2>2. \A n \in DOMAIN i : t[i[n]] \in Range(t) /\ n = t[i[n]].name
    BY <1>1, <1>2
  <2>3. \A n \in DOMAIN i : \E x \in Range(t) : n = x.name
    BY <2>2
  <2> QED BY <2>1, <2>3
<1>7. Distinct(t)
  BY <1>1, <1>2 DEF Distinct
<1> QED BY <1>5, <1>6, <1>7 DEF Indexed, t, i

(* An entry that is in place, at the start of its section.                 *)
Shifted(a, start, s) ==
  LET b == Bound(a, s)
  IN IF b.section = NoSection THEN b ELSE [b EXCEPT !.value = @ + start[b.section]]

LEMMA BoundSymbol ==
  ASSUME NEW a, NEW s \in Symbols
  PROVE  /\ Bound(a, s) \in Symbols /\ Bound(a, s).name = s.name
         /\ Bound(a, s).section = s.section /\ Bound(a, s).value = s.value
<1>1. CASE s.name \in a.global
  <2>1. Bound(a, s) = [s EXCEPT !.bind = "global"]
    BY <1>1 DEF Bound
  <2> QED BY <2>1 DEF Symbols
<1>2. CASE s.name \notin a.global
  BY <1>2 DEF Bound
<1> QED BY <1>1, <1>2

ShiftedTo(start, s, x) ==
  /\ x \in Symbols /\ x.name = s.name /\ x.section = s.section
  /\ s.section # NoSection => x.value = s.value + start[s.section]

LEMMA ShiftedSymbol ==
  ASSUME NEW a, NEW start \in [Sections -> Int], NEW s \in Symbols
  PROVE  ShiftedTo(start, s, Shifted(a, start, s))
<1> DEFINE b == Bound(a, s)
<1>1. b \in Symbols /\ b.name = s.name /\ b.section = s.section /\ b.value = s.value
  BY BoundSymbol
<1>2. Shifted(a, start, s) = IF b.section = NoSection THEN b ELSE [b EXCEPT !.value = @ + start[b.section]]
  BY DEF Shifted
<1> HIDE DEF b
<1>3. CASE b.section = NoSection
  BY <1>1, <1>2, <1>3 DEF ShiftedTo
<1>4. CASE b.section # NoSection
  <2>1. b.section \in Sections
    BY <1>1, <1>4 DEF Symbols, Places
  <2>2. start[b.section] \in Int /\ b.value \in Int
    BY <1>1, <2>1 DEF Symbols
  <2> DEFINE v == b.value + start[b.section]
  <2>3. Shifted(a, start, s) = [b EXCEPT !.value = v] /\ v \in Int
    BY <1>2, <1>4, <2>2
  <2>4. v = s.value + start[s.section]
    BY <1>1
  <2> HIDE DEF v
  <2> QED BY <1>1, <2>3, <2>4 DEF Symbols, ShiftedTo
<1> QED BY <1>3, <1>4

(* The table's entries changed one by one, the names and sections kept.    *)
Remade(a, t) ==
  /\ t \in Seq(Symbols) /\ DOMAIN t = DOMAIN a.symtab
  /\ \A k \in DOMAIN t : t[k].name = a.symtab[k].name /\ t[k].section = a.symtab[k].section

LEMMA RemadeTable ==
  ASSUME NEW a \in Assemblers, TableOK(a), NEW t, Remade(a, t), NEW b, b.symtab = t, b.indices = a.indices
  PROVE  TableOK(b)
BY SMTT(30) DEF Remade, TableOK, Corresponds

LEMMA RemadeEach ==
  ASSUME NEW a \in Assemblers, NEW t, DOMAIN t = DOMAIN a.symtab, t = [k \in DOMAIN a.symtab |-> t[k]],
         \A k \in DOMAIN a.symtab : /\ t[k] \in Symbols /\ t[k].name = a.symtab[k].name
                                    /\ t[k].section = a.symtab[k].section
  PROVE  Remade(a, t)
<1>1. a.symtab \in Seq(Symbols) /\ DOMAIN a.symtab = 1 .. Len(a.symtab) /\ Len(a.symtab) \in Nat
  BY DEF Assemblers
<1>2. t \in [1 .. Len(a.symtab) -> Symbols]
  BY <1>1
<1>3. t \in Seq(Symbols)
  BY <1>1, <1>2, SeqDef
<1> QED BY <1>3 DEF Remade

(* The sections at their starts.                                           *)
At0(location, start) == [s \in DOMAIN location |-> IF s \in Sections THEN start[s] ELSE location[s]]

Restarted(a, start, b) ==
  /\ b \in Assemblers /\ SameTable(a, b) /\ b.lines = a.lines /\ b.ok = a.ok
  /\ \A s \in Sections : b.location[s] = start[s]

LEMMA StartLocation ==
  ASSUME NEW a \in Assemblers, NEW start \in [Sections -> Int],
         NEW b, b = [a EXCEPT !.location = [s \in DOMAIN @ |-> IF s \in Sections THEN start[s] ELSE @[s]]]
  PROVE  Restarted(a, start, b)
<1> DEFINE l == At0(a.location, start)
<1>1. a.location \in [Places -> Int]
  BY DEF Assemblers
<1>2. l \in [Places -> Int] /\ \A s \in Sections : l[s] = start[s]
  BY <1>1 DEF At0, Places
<1>3. b = [a EXCEPT !.location = l]
  BY DEF At0
<1> HIDE DEF l
<1> QED BY <1>2, <1>3 DEF Assemblers, SameTable, Restarted

LaidOut(a, start) ==
  [UpdateSymbolsForExecutable(a, start)
     EXCEPT !.location = [s \in DOMAIN @ |-> IF s \in Sections THEN start[s] ELSE @[s]]]

LaidFrom(a, start, b) ==
  /\ b \in Assemblers /\ TableOK(b) /\ b.lines = a.lines /\ b.ok = a.ok /\ b.indices = a.indices
  /\ \A s \in Sections : b.location[s] = start[s]
  /\ \A n \in DOMAIN a.indices :
       /\ At(b, n).section = At(a, n).section
       /\ At(a, n).section # NoSection => At(b, n).value = At(a, n).value + start[At(a, n).section]

LEMMA LaidOutEffect ==
  ASSUME NEW a \in Assemblers, TableOK(a), NEW start \in [Sections -> Int]
  PROVE  LaidFrom(a, start, LaidOut(a, start))
<1> DEFINE t == [k \in DOMAIN a.symtab |-> Shifted(a, start, a.symtab[k])]
           c == UpdateSymbolsForExecutable(a, start)
           b == LaidOut(a, start)
<1>1. c = [a EXCEPT !.symtab = t]
  BY DEF UpdateSymbolsForExecutable, Shifted
<1>2. b = [c EXCEPT !.location = [s \in DOMAIN @ |-> IF s \in Sections THEN start[s] ELSE @[s]]]
  BY DEF LaidOut
<1>3. \A k \in DOMAIN a.symtab : a.symtab[k] \in Symbols
  BY DEF Assemblers
<1>4. /\ DOMAIN t = DOMAIN a.symtab /\ t = [k \in DOMAIN a.symtab |-> t[k]]
      /\ \A k \in DOMAIN a.symtab : t[k] = Shifted(a, start, a.symtab[k])
  OBVIOUS
<1> HIDE DEF t, c, b
<1>5. \A k \in DOMAIN a.symtab :
        /\ t[k] \in Symbols /\ t[k].name = a.symtab[k].name /\ t[k].section = a.symtab[k].section
        /\ a.symtab[k].section # NoSection => t[k].value = a.symtab[k].value + start[a.symtab[k].section]
  <2>1. \A k \in DOMAIN a.symtab : ShiftedTo(start, a.symtab[k], t[k])
    BY <1>3, <1>4, ShiftedSymbol
  <2> QED BY <2>1 DEF ShiftedTo
<1>6. Remade(a, t)
  BY <1>4, <1>5, RemadeEach
<1>7. c \in Assemblers /\ c.symtab = t /\ c.indices = a.indices /\ c.lines = a.lines /\ c.ok = a.ok
  BY <1>1, <1>6 DEF Assemblers, Remade
<1>8. TableOK(c)
  BY <1>6, <1>7, RemadeTable
<1>9. /\ b \in Assemblers /\ SameTable(c, b) /\ b.lines = c.lines /\ b.ok = c.ok
      /\ \A s \in Sections : b.location[s] = start[s]
  <2>1. Restarted(c, start, b)
    BY <1>2, <1>7, StartLocation
  <2> QED BY <2>1 DEF Restarted
<1>10. b.symtab = t /\ b.indices = a.indices /\ TableOK(b)
  BY <1>7, <1>8, <1>9 DEF SameTable, TableOK
<1>11. ASSUME NEW n \in DOMAIN a.indices
       PROVE  /\ At(b, n).section = At(a, n).section
              /\ At(a, n).section # NoSection => At(b, n).value = At(a, n).value + start[At(a, n).section]
  <2> DEFINE k == a.indices[n]
  <2>1. k \in DOMAIN a.symtab
    BY DEF TableOK, Corresponds
  <2>2. At(a, n) = a.symtab[k] /\ At(b, n) = t[k]
    BY <1>10 DEF At
  <2> HIDE DEF k
  <2> QED BY <1>5, <2>1, <2>2
<1>12. LaidFrom(a, start, b)
  BY <1>7, <1>9, <1>10, <1>11 DEF LaidFrom
<1> QED BY <1>12 DEF b

(* The table with the local symbols first.                                 *)
LocalsFirst(t) == \A k, j \in DOMAIN t : k < j /\ t[j].bind = "local" => t[k].bind = "local"

LEMMA SymbolsWithBind ==
  ASSUME NEW t \in Seq(Symbols), NEW bind
  PROVE  /\ SymbolsWith(t, bind) \in Seq({s \in Symbols : s.bind = bind})
         /\ Range(SymbolsWith(t, bind)) = {s \in Range(t) : s.bind = bind}
<1> DEFINE S == {s \in Symbols : s.bind = bind}
           ss == [k \in DOMAIN t |-> IF t[k].bind = bind THEN <<t[k]>> ELSE << >>]
<1>1. DOMAIN t = 1 .. Len(t) /\ Len(t) \in Nat /\ \A k \in DOMAIN t : t[k] \in Symbols
  OBVIOUS
<1>2. \A k \in DOMAIN t : ss[k] = IF t[k].bind = bind THEN <<t[k]>> ELSE << >>
  OBVIOUS
<1>3. \A k \in DOMAIN t : (IF t[k].bind = bind THEN <<t[k]>> ELSE << >>) \in Seq(S)
  <2> TAKE k \in DOMAIN t
  <2>1. CASE t[k].bind = bind
    <3>1. t[k] \in S
      BY <1>1, <2>1
    <3> HIDE DEF S
    <3> QED BY <2>1, <3>1
  <2>2. CASE t[k].bind # bind
    <3> HIDE DEF S
    <3> QED BY <2>2
  <2> QED BY <2>1, <2>2
<1>4. ss \in [1 .. Len(t) -> Seq(S)]
  <2> HIDE DEF S
  <2> QED BY <1>1, <1>3
<1>5. ss \in Seq(Seq(S))
  <2> HIDE DEF S, ss
  <2> QED BY <1>1, <1>4, SeqDef
<1>6. SymbolsWith(t, bind) = FlattenSeq(ss) /\ DOMAIN ss = DOMAIN t
  BY DEF SymbolsWith
<1>7. \A k \in DOMAIN t : Range(ss[k]) = {s \in {t[k]} : s.bind = bind}
  <2> TAKE k \in DOMAIN t
  <2> HIDE DEF ss, S
  <2>1. CASE t[k].bind = bind
    <3>1. ss[k] = <<t[k]>>
      BY <1>2, <2>1
    <3>2. Range(ss[k]) = {t[k]}
      BY <3>1 DEF Range
    <3> QED BY <2>1, <3>2
  <2>2. CASE t[k].bind # bind
    <3>1. ss[k] = << >>
      BY <1>2, <2>2
    <3>2. Range(ss[k]) = {}
      BY <3>1 DEF Range
    <3> QED BY <2>2, <3>2
  <2> QED BY <2>1, <2>2
<1> HIDE DEF S, ss
<1>8. FlattenSeq(ss) \in Seq(S) /\ Range(FlattenSeq(ss)) = UNION {Range(ss[k]) : k \in DOMAIN ss}
  BY <1>5, Flattened
<1>9. Range(t) = {t[k] : k \in DOMAIN t}
  BY DEF Range
<1>10. UNION {Range(ss[k]) : k \in DOMAIN ss} = {s \in Range(t) : s.bind = bind}
  BY <1>6, <1>7, <1>9
<1> QED BY <1>6, <1>8, <1>10 DEF S

Sorted(t) == SymbolsWith(t, "local") \o SymbolsWith(t, "global")

SortedFrom(t, u) == u \in Seq(Symbols) /\ Range(u) = Range(t) /\ LocalsFirst(u)

LEMMA SortedTable ==
  ASSUME NEW t \in Seq(Symbols)
  PROVE  SortedFrom(t, Sorted(t))
<1> DEFINE L == {s \in Symbols : s.bind = "local"}
           G == {s \in Symbols : s.bind = "global"}
           u == SymbolsWith(t, "local")
           v == SymbolsWith(t, "global")
           w == u \o v
<1>1. u \in Seq(L) /\ Range(u) = {s \in Range(t) : s.bind = "local"}
  BY SymbolsWithBind
<1>2. v \in Seq(G) /\ Range(v) = {s \in Range(t) : s.bind = "global"}
  BY SymbolsWithBind
<1>3. \A x \in Range(t) : x.bind = "local" \/ x.bind = "global"
  <2>1. \A k \in DOMAIN t : t[k] \in Symbols
    OBVIOUS
  <2> QED BY <2>1 DEF Range, Symbols
<1>4. L \subseteq Symbols /\ G \subseteq Symbols /\ (\A x \in L : x.bind = "local") /\ (\A x \in G : x.bind = "global")
  OBVIOUS
<1> HIDE DEF L, G, u, v
<1>5. u \in Seq(Symbols) /\ v \in Seq(Symbols)
  <2>1. \A k \in DOMAIN u : u[k] \in Symbols
    BY <1>1, <1>4
  <2>2. \A k \in DOMAIN v : v[k] \in Symbols
    BY <1>2, <1>4
  <2>3. u \in [1 .. Len(u) -> Symbols] /\ Len(u) \in Nat /\ v \in [1 .. Len(v) -> Symbols] /\ Len(v) \in Nat
    BY <1>1, <1>2, <2>1, <2>2
  <2> QED BY <2>3, SeqDef
<1>6. w \in Seq(Symbols) /\ Range(w) = Range(u) \cup Range(v)
  BY <1>5, RangeConcatenation, ConcatProperties
<1>7. Range(w) = Range(t)
  <2> HIDE DEF w
  <2> QED BY <1>1, <1>2, <1>3, <1>6
<1>8. /\ DOMAIN w = 1 .. Len(u) + Len(v) /\ Len(u) \in Nat /\ Len(v) \in Nat
      /\ \A k \in 1 .. Len(u) + Len(v) : w[k] = IF k <= Len(u) THEN u[k] ELSE v[k - Len(u)]
  BY <1>5, ConcatProperties
<1> HIDE DEF w
<1>9. LocalsFirst(w)
  <2> SUFFICES ASSUME NEW k \in DOMAIN w, NEW j \in DOMAIN w, k < j, w[j].bind = "local"
               PROVE  w[k].bind = "local"
    BY DEF LocalsFirst
  <2>1. j <= Len(u)
    <3> SUFFICES ASSUME ~(j <= Len(u)) PROVE FALSE
      OBVIOUS
    <3>1. j - Len(u) \in 1 .. Len(v) /\ w[j] = v[j - Len(u)]
      BY <1>8
    <3>2. w[j] \in G
      BY <1>2, <3>1
    <3>3. w[j].bind = "global"
      BY <1>4, <3>2
    <3> QED BY <3>3
  <2>2. k \in 1 .. Len(u) /\ w[k] = u[k]
    BY <1>8, <2>1
  <2>3. w[k] \in L
    BY <1>1, <2>2
  <2> QED BY <1>4, <2>3
<1> QED BY <1>6, <1>7, <1>9 DEF SortedFrom, Sorted, u, v, w

EntryOf(t, name) == CHOOSE s \in Range(t) : s.name = name

LEMMA EntryIs ==
  ASSUME NEW t, Distinct(t), NEW x \in Range(t)
  PROVE  EntryOf(t, x.name) = x
BY DEF EntryOf, Distinct

(* The assembler as a relocatable file's second pass has it.               *)
Reset(a) ==
  [UpdateSymtabHeaderInfo(ArrangeLocalSymbols(UpdateSymbolsForRelocatable(a)))
     EXCEPT !.location = [s \in DOMAIN @ |-> IF s \in Sections THEN 0 ELSE @[s]]]
Zero == [s \in Sections |-> 0]

ResetFrom(a, b) ==
  /\ b \in Assemblers /\ Indexed(b) /\ Distinct(b.symtab) /\ LocalsFirst(b.symtab)
  /\ b.lines = a.lines /\ b.ok = a.ok /\ DOMAIN b.indices = DOMAIN a.indices
  /\ \A s \in Sections : b.location[s] = Zero[s]

LEMMA ResetEffect ==
  ASSUME NEW a \in Assemblers, TableOK(a)
  PROVE  ResetFrom(a, Reset(a))
<1> DEFINE t == [k \in DOMAIN a.symtab |-> Bound(a, a.symtab[k])]
           c == UpdateSymbolsForRelocatable(a)
           u == Sorted(t)
           d == ArrangeLocalSymbols(c)
           i == [n \in {s.name : s \in Range(u)} |-> CHOOSE k \in DOMAIN u : u[k].name = n]
           e == UpdateSymtabHeaderInfo(d)
           b == Reset(a)
<1>1. c = [a EXCEPT !.symtab = t]
  BY DEF UpdateSymbolsForRelocatable
<1>2. d = [c EXCEPT !.symtab = Sorted(c.symtab)]
  BY DEF ArrangeLocalSymbols, Sorted
<1>3. e = [d EXCEPT !.indices = [n \in {s.name : s \in Range(d.symtab)} |-> CHOOSE k \in DOMAIN d.symtab : d.symtab[k].name = n]]
  BY DEF UpdateSymtabHeaderInfo
<1>4. b = [e EXCEPT !.location = [s \in DOMAIN @ |-> IF s \in Sections THEN Zero[s] ELSE @[s]]]
  BY DEF Reset, Zero
<1>5. \A k \in DOMAIN a.symtab : a.symtab[k] \in Symbols
  BY DEF Assemblers
<1>6. /\ DOMAIN t = DOMAIN a.symtab /\ t = [k \in DOMAIN a.symtab |-> t[k]]
      /\ \A k \in DOMAIN a.symtab : t[k] = Bound(a, a.symtab[k])
  OBVIOUS
<1> HIDE DEF t, c, d, e, b
<1>7. \A k \in DOMAIN a.symtab : t[k] \in Symbols /\ t[k].name = a.symtab[k].name /\ t[k].section = a.symtab[k].section
  BY <1>5, <1>6, BoundSymbol
<1>8. Remade(a, t)
  BY <1>6, <1>7, RemadeEach
<1>9. c \in Assemblers /\ c.symtab = t /\ c.indices = a.indices /\ c.lines = a.lines /\ c.ok = a.ok
  BY <1>1, <1>8 DEF Assemblers, Remade
<1>10. TableOK(c) /\ t \in Seq(Symbols)
  BY <1>8, <1>9, RemadeTable DEF Remade
<1>11. Distinct(t) /\ DOMAIN a.indices = {x.name : x \in Range(t)}
  BY <1>9, <1>10, TableEntries
<1>12. u \in Seq(Symbols) /\ Range(u) = Range(t) /\ LocalsFirst(u)
  BY <1>10, SortedTable DEF SortedFrom
<1> HIDE DEF u
<1>13. d \in Assemblers /\ d.symtab = u /\ d.lines = a.lines /\ d.ok = a.ok
  <2>1. d = [c EXCEPT !.symtab = u]
    BY <1>2, <1>9 DEF u
  <2> QED BY <1>9, <1>12, <2>1 DEF Assemblers
<1>14. DOMAIN i = DOMAIN a.indices /\ \A n \in DOMAIN i : i[n] \in DOMAIN u /\ u[i[n]].name = n
  <2>1. DOMAIN i = DOMAIN a.indices
    BY <1>11, <1>12
  <2>2. \A n \in DOMAIN i : \E k \in DOMAIN u : u[k].name = n
    BY DEF Range
  <2>3. \A n \in DOMAIN i : i[n] = CHOOSE k \in DOMAIN u : u[k].name = n
    OBVIOUS
  <2> HIDE DEF i
  <2> QED BY <2>1, <2>2, <2>3
<1>15. e = [d EXCEPT !.indices = i]
  BY <1>3, <1>13
<1>16. i \in UNION {[D -> Nat] : D \in SUBSET AllNames}
  <2> DEFINE D == DOMAIN a.indices
  <2>1. D \in SUBSET AllNames
    BY DEF Assemblers
  <2>2. \A n \in D : i[n] \in Nat
    <3> HIDE DEF i
    <3> QED BY <1>12, <1>14
  <2>3. i = [n \in D |-> i[n]]
    BY <1>14
  <2> HIDE DEF D, i
  <2>4. i \in [D -> Nat]
    BY <2>2, <2>3
  <2> QED BY <2>1, <2>4
<1> HIDE DEF i
<1>17. e \in Assemblers /\ e.symtab = u /\ e.indices = i /\ e.lines = a.lines /\ e.ok = a.ok
  BY <1>13, <1>15, <1>16 DEF Assemblers
<1>18. Zero \in [Sections -> Int]
  BY DEF Zero
<1>19. Restarted(e, Zero, b)
  <2> HIDE DEF Zero
  <2> QED BY <1>4, <1>17, <1>18, StartLocation
<1>20. /\ b \in Assemblers /\ b.symtab = u /\ b.indices = i /\ b.lines = a.lines /\ b.ok = a.ok
       /\ \A s \in Sections : b.location[s] = Zero[s]
  BY <1>17, <1>19 DEF Restarted, SameTable
<1>21. Indexed(b)
  BY <1>14, <1>20 DEF Indexed, At
<1>22. Distinct(u)
  BY <1>11, <1>12 DEF Distinct
<1>23. ResetFrom(a, b)
  BY <1>12, <1>14, <1>20, <1>21, <1>22 DEF ResetFrom
<1> QED BY <1>23 DEF b

LEMMA LayoutTyped ==
  ASSUME NEW a \in Assemblers, NEW base \in Nat, NEW dataStart \in Nat
  PROVE  /\ Layout(a, base, dataStart) \in [Sections -> Int]
         /\ Layout(a, base, dataStart)[".bss"] >= Layout(a, base, dataStart)[".data"] + a.location[".data"]
<1> DEFINE text == (base \div Page) * Page
           data == IF dataStart # 0 THEN dataStart ELSE RoundUp(text + a.location[".text"], Page)
           bss == RoundUp(data + a.location[".data"], 16)
           l == Layout(a, base, dataStart)
<1>1. a.location[".text"] \in Int /\ a.location[".data"] \in Int
  BY DEF Assemblers, Places, Sections
<1>2. text \in Int
  BY DEF Page
<1> HIDE DEF text
<1>3. data \in Int
  <2>1. RoundUp(text + a.location[".text"], Page) \in Int
    <3> DEFINE x == text + a.location[".text"]
    <3>1. x \in Int
      BY <1>1, <1>2
    <3> HIDE DEF x
    <3>2. RoundUp(x, Page) \in Int
      BY <3>1 DEF RoundUp, Page
    <3> QED BY <3>2 DEF x
  <2> QED BY <2>1
<1> HIDE DEF data
<1>4. bss \in Int /\ bss >= data + a.location[".data"]
  <2> DEFINE x == data + a.location[".data"]
  <2>1. x \in Int
    BY <1>1, <1>3
  <2> HIDE DEF x
  <2>2. RoundUp(x, 16) \in Int /\ RoundUp(x, 16) >= x
    BY <2>1 DEF RoundUp
  <2> QED BY <2>2 DEF x
<1> HIDE DEF bss
<1>5. l = [s \in Sections |-> CASE s = ".text" -> text [] s = ".data" -> data [] s = ".bss" -> bss]
  BY DEF Layout, text, data, bss
<1>6. l[".data"] = data /\ l[".bss"] = bss /\ l[".text"] = text
  BY <1>5 DEF Sections
<1>7. l \in [Sections -> Int]
  <2>1. \A s \in Sections : l[s] \in Int
    BY <1>2, <1>3, <1>4, <1>6 DEF Sections
  <2>2. l = [s \in Sections |-> l[s]]
    BY <1>5
  <2> HIDE DEF l
  <2> QED BY <2>1, <2>2
<1> HIDE DEF l
<1> QED BY <1>4, <1>6, <1>7 DEF l

(* The first pass has read the source to its end.                          *)
Parsed(a, src) ==
  src \in Seq(Lines) /\ WithoutGaps(src) /\ FirstPass(a, src) /\ a.undefined = {}

LEMMA ParsedReady ==
  ASSUME NEW a, NEW src, Parsed(a, src), NEW b \in Assemblers, Indexed(b), b.ok = a.ok, b.lines = a.lines,
         DOMAIN b.indices = DOMAIN a.indices, NEW start \in [Sections -> Int]
  PROVE  \E m : Ready(b, start, src, m)
<1>1. /\ src \in Seq(Lines) /\ WithoutGaps(src) /\ AcceptedOK(src) /\ TargetsOK(a, src) /\ a.undefined = {} /\ a.ok
  BY DEF Parsed, FirstPass
<1>2. PICK m : Kept(a.lines, src, m)
  BY DEF Parsed, FirstPass
<1>3. \A k \in DOMAIN src : TargetsIn(b, src[k].stmt)
  BY <1>1 DEF TargetsOK, TargetsIn
<1> QED BY <1>1, <1>2, <1>3 DEF Ready

(* The properties, for given tables, images and sources.                   *)
FitsIn(t, src) ==
  \A k \in {j \in DOMAIN src : src[j].stmt.kind = "op"} :
    \A n \in Targets(src[k].stmt) : EntryOf(t, n).value <= src[k].stmt.reach

LEMMA EntriesAgree ==
  ASSUME NEW a, Indexed(a), NEW t, Distinct(t), Range(t) = Range(a.symtab), NEW n \in DOMAIN a.indices
  PROVE  EntryOf(t, n) = At(a, n)
<1>1. At(a, n) \in Range(a.symtab) /\ At(a, n).name = n
  BY DEF Indexed, At, Range
<1> QED BY <1>1, EntryIs

LEMMA FitsAll ==
  ASSUME NEW a, Indexed(a), NEW t, Distinct(t), Range(t) = Range(a.symtab), NEW src \in Seq(Lines),
         \A k \in DOMAIN src : TargetsIn(a, src[k].stmt), FitsIn(t, src)
  PROVE  LinesFit(a, src)
<1> SUFFICES ASSUME NEW k \in DOMAIN src, src[k].stmt.kind = "op"
             PROVE  Value(a, src[k].stmt) <= src[k].stmt.reach
  BY DEF LinesFit, Fits
<1> DEFINE s == src[k].stmt
<1>1. s \in Stmts /\ s.reach \in Nat
  <2>1. s \in Stmts
    BY DEF Stmts
  <2> QED BY <2>1, StmtOK DEF StatementOK
<1>2. CASE s.target = NoName
  BY <1>1, <1>2 DEF Value
<1>3. CASE s.target # NoName
  <2>1. s.target \in Targets(s)
    BY <1>3 DEF Targets
  <2>2. s.target \in DOMAIN a.indices
    BY <2>1 DEF TargetsIn
  <2>3. EntryOf(t, s.target).value <= s.reach
    BY <2>1 DEF FitsIn
  <2>4. EntryOf(t, s.target) = At(a, s.target)
    BY <2>2, EntriesAgree
  <2> QED BY <1>3, <2>3, <2>4 DEF Value
<1> QED BY <1>2, <1>3

LEMMA NoImageBlank == NoImage = Blank(Zero)
<1> DEFINE c == [s \in Sections |-> << >>]
<1>1. NoImage = [content |-> c, relocations |-> << >>, rela |-> {}, start |-> Zero, entry |-> 0, ok |-> TRUE, crashed |-> FALSE]
  BY DEF NoImage, Zero
<1>2. c \in [Sections -> Seq(AllBytes)] /\ << >> \in Seq(Relocations) /\ Zero \in [Sections -> Int]
  BY DEF Zero
<1> HIDE DEF c
<1>3. NoImage \in Images /\ NoImage.start = Zero
  BY <1>1, <1>2 DEF Images
<1> QED BY <1>3 DEF Images, Blank

(* The relocations that the source asks for.                               *)
Wanted(src) ==
  UNION {{[offset |-> OffsetAt(src, k), section |-> SectionAt(src, k), symbol |-> n] : n \in Targets(src[k].stmt)} :
           k \in {j \in DOMAIN src : src[j].stmt.kind = "op"}}
Entered(t, rela) ==
  {[offset |-> r.offset, section |-> r.section, symbol |-> t[r.index].name] : r \in rela}

LEMMA LineWanted ==
  ASSUME NEW src \in Seq(Lines), WithoutGaps(src), NEW k \in DOMAIN src
  PROVE  /\ src[k].stmt.kind = "op" =>
              LineRelocations(Zero, src, k)
                = {[symbol |-> n, section |-> SectionAt(src, k), offset |-> OffsetAt(src, k)] : n \in Targets(src[k].stmt)}
         /\ src[k].stmt.kind # "op" => LineRelocations(Zero, src, k) = {}
<1> DEFINE s == src[k].stmt
<1>1. CASE s.kind = "op"
  <2>1. Range(NamesOf(s)) = Targets(s)
    <3>1. CASE s.target = NoName
      BY <1>1, <3>1 DEF NamesOf, Targets, Range
    <3>2. CASE s.target # NoName
      <4>1. NamesOf(s) = <<s.target>>
        BY <1>1, <3>2 DEF NamesOf
      <4>2. Range(NamesOf(s)) = {s.target}
        BY <4>1 DEF Range
      <4> QED BY <3>2, <4>2 DEF Targets
    <3> QED BY <3>1, <3>2
  <2>2. SectionAt(src, k) \in Sections
    <3>1. k \in 1 .. Len(src) + 1
      OBVIOUS
    <3>2. SectionAt(src, k) \in Places /\ SectionAt(src, k) # NoSection
      BY <1>1, <3>1, SectionTyped DEF WithoutGaps
    <3> QED BY <3>2 DEF Places
  <2>3. OffsetAt(src, k) \in Nat /\ Zero[SectionAt(src, k)] = 0
    <3>1. k \in 1 .. Len(src) + 1
      OBVIOUS
    <3> QED BY <2>2, <3>1, SizeBeforeTyped DEF OffsetAt, Zero
  <2>4. AddressAt(Zero, src, k) = OffsetAt(src, k)
    BY <2>3 DEF AddressAt
  <2> QED BY <1>1, <2>1, <2>4 DEF LineRelocations
<1>2. CASE s.kind # "op"
  <2>1. Range(NamesOf(s)) = {}
    BY <1>2 DEF NamesOf, Range
  <2> QED BY <1>2, <2>1 DEF LineRelocations
<1> QED BY <1>1, <1>2

LEMMA EntriesWanted ==
  ASSUME NEW src \in Seq(Lines), WithoutGaps(src), NEW b, Indexed(b),
         \A k \in DOMAIN src : TargetsIn(b, src[k].stmt),
         NEW R, R = UNION {LineRelocations(Zero, src, k) : k \in DOMAIN src}
  PROVE  /\ \A r \in R : r.symbol \in DOMAIN b.indices
         /\ Entered(b.symtab, {[offset |-> r.offset, section |-> r.section, index |-> b.indices[r.symbol]] : r \in R})
              = Wanted(src)
<1> DEFINE Ops == {j \in DOMAIN src : src[j].stmt.kind = "op"}
           W(k) == {[symbol |-> n, section |-> SectionAt(src, k), offset |-> OffsetAt(src, k)] : n \in Targets(src[k].stmt)}
           E(r) == [offset |-> r.offset, section |-> r.section, index |-> b.indices[r.symbol]]
           X(r) == [offset |-> r.offset, section |-> r.section, symbol |-> r.symbol]
<1>1. R = UNION {W(k) : k \in Ops}
  <2>1. \A k \in Ops : k \in DOMAIN src /\ LineRelocations(Zero, src, k) = W(k)
    BY LineWanted
  <2>2. \A k \in DOMAIN src \ Ops : LineRelocations(Zero, src, k) = {}
    BY LineWanted
  <2> HIDE DEF W, Ops
  <2> QED BY <2>1, <2>2
<1>2. \A k \in Ops : \A n \in Targets(src[k].stmt) : n \in DOMAIN b.indices
  BY DEF TargetsIn
<1>3. \A k \in Ops : \A r \in W(k) : r.symbol \in Targets(src[k].stmt)
  OBVIOUS
<1>4. \A r \in R : r.symbol \in DOMAIN b.indices
  <2> HIDE DEF W, Ops
  <2> QED BY <1>1, <1>2, <1>3
<1>5. \A r \in R : b.symtab[b.indices[r.symbol]].name = r.symbol
  BY <1>4 DEF Indexed, At
<1>6. Entered(b.symtab, {E(r) : r \in R}) = {X(r) : r \in R}
  <2>1. Entered(b.symtab, {E(r) : r \in R})
          = {[offset |-> E(r).offset, section |-> E(r).section, symbol |-> b.symtab[E(r).index].name] : r \in R}
    BY DEF Entered
  <2>2. \A r \in R : /\ E(r).offset = r.offset /\ E(r).section = r.section
                     /\ b.symtab[E(r).index].name = r.symbol
    BY <1>5
  <2> HIDE DEF E
  <2> QED BY <2>1, <2>2
<1> DEFINE V(k) == {[offset |-> OffsetAt(src, k), section |-> SectionAt(src, k), symbol |-> n] : n \in Targets(src[k].stmt)}
<1>7. ASSUME NEW k \in Ops PROVE {X(r) : r \in W(k)} = V(k)
  <2>1. {X(r) : r \in W(k)}
          = {X([symbol |-> n, section |-> SectionAt(src, k), offset |-> OffsetAt(src, k)]) : n \in Targets(src[k].stmt)}
    <3> HIDE DEF X
    <3> QED OBVIOUS
  <2>2. \A n : X([symbol |-> n, section |-> SectionAt(src, k), offset |-> OffsetAt(src, k)])
                 = [offset |-> OffsetAt(src, k), section |-> SectionAt(src, k), symbol |-> n]
    OBVIOUS
  <2> HIDE DEF X
  <2> QED BY <2>1, <2>2
<1>8. {X(r) : r \in R} = UNION {V(k) : k \in Ops}
  <2> HIDE DEF X, V, W, Ops
  <2> DEFINE Y(k) == {X(r) : r \in W(k)}
  <2>1. {X(r) : r \in R} = UNION {Y(k) : k \in Ops}
    <3>1. \A r : r \in R <=> \E k \in Ops : r \in W(k)
      BY <1>1
    <3>2. ASSUME NEW r \in R PROVE X(r) \in UNION {Y(k) : k \in Ops}
      <4>1. PICK k \in Ops : r \in W(k)
        BY <3>1
      <4>2. X(r) \in Y(k)
        BY <4>1
      <4> HIDE DEF Y
      <4> QED BY <4>1, <4>2
    <3>3. ASSUME NEW k \in Ops, NEW r \in W(k) PROVE X(r) \in {X(x) : x \in R}
      <4>1. r \in R
        BY <3>1
      <4> QED BY <4>1
    <3> QED BY <3>2, <3>3
  <2>2. \A k \in Ops : Y(k) = V(k)
    BY <1>7
  <2> HIDE DEF Y
  <2> QED BY <2>1, <2>2
<1>9. Wanted(src) = UNION {V(k) : k \in Ops}
  BY DEF Wanted
<1> HIDE DEF X, V, W, Ops
<1> QED BY <1>4, <1>6, <1>8, <1>9

LEMMA RelocatablePass ==
  ASSUME NEW a, NEW src, Parsed(a, src)
  PROVE  /\ ResetFrom(a, Reset(a)) /\ \E m : Ready(Reset(a), Zero, src, m)
         /\ PassDone(Reset(a), Zero, src, ParsePassTwo(Reset(a), NoImage))
<1> DEFINE b == Reset(a)
           p == ParsePassTwo(b, NoImage)
<1>1. a \in Assemblers /\ TableOK(a)
  BY DEF Parsed, FirstPass
<1>2. ResetFrom(a, b)
  BY <1>1, ResetEffect
<1>3. Zero \in [Sections -> Int]
  BY DEF Zero
<1> HIDE DEF b
<1>4. /\ b \in Assemblers /\ Indexed(b) /\ b.lines = a.lines /\ b.ok = a.ok /\ DOMAIN b.indices = DOMAIN a.indices
      /\ \A s \in Sections : b.location[s] = Zero[s]
  BY <1>2 DEF ResetFrom
<1>5. PICK m : Ready(b, Zero, src, m)
  BY <1>3, <1>4, ParsedReady
<1>6. PassDone(b, Zero, src, p)
  BY <1>4, <1>5, PassTwo, NoImageBlank
<1> QED BY <1>2, <1>5, <1>6 DEF b

LEMMA RelocatableAssembled ==
  ASSUME NEW a, NEW src, Parsed(a, src),
         NEW q, q = AddRelocationEntries(ParsePassTwo(Reset(a), NoImage))
  PROVE  q.image.ok /\ ~q.image.crashed
<1> DEFINE b == Reset(a)
           p == ParsePassTwo(b, NoImage)
           R == Range(p.image.relocations)
           e == {[offset |-> r.offset, section |-> r.section, index |-> p.asm.indices[r.symbol]] : r \in R}
<1>1. PassDone(b, Zero, src, p)
  BY RelocatablePass
<1> HIDE DEF b, p
<1>2. p \in Passes /\ SameTable(b, p.asm) /\ p.image.ok /\ ~p.image.crashed /\ Found(b, p)
  BY <1>1 DEF PassDone
<1>3. \A r \in R : r.symbol \in DOMAIN p.asm.indices
  BY <1>2 DEF Found, SameTable
<1> HIDE DEF e, R
<1>4. q = [p EXCEPT !.image.rela = e]
  BY <1>2, <1>3 DEF AddRelocationEntries, b, p, R, e
<1> QED BY <1>2, <1>4 DEF Passes, Images

LEMMA RelocatableMatches ==
  ASSUME NEW a, NEW src, Parsed(a, src),
         NEW q, q = AddRelocationEntries(ParsePassTwo(Reset(a), NoImage)), FitsIn(q.asm.symtab, src)
  PROVE  LocalsFirst(q.asm.symtab) /\ Entered(q.asm.symtab, q.image.rela) = Wanted(src)
<1> DEFINE b == Reset(a)
           p == ParsePassTwo(b, NoImage)
           R == Range(p.image.relocations)
           e == {[offset |-> r.offset, section |-> r.section, index |-> p.asm.indices[r.symbol]] : r \in R}
<1>1. a \in Assemblers /\ TableOK(a) /\ src \in Seq(Lines) /\ WithoutGaps(src)
  BY DEF Parsed, FirstPass
<1>2. ResetFrom(a, b)
  BY RelocatablePass
<1>3. PassDone(b, Zero, src, p)
  BY RelocatablePass
<1>4. /\ b \in Assemblers /\ Indexed(b) /\ Distinct(b.symtab) /\ LocalsFirst(b.symtab)
  BY <1>2 DEF ResetFrom
<1>5. PICK m : Ready(b, Zero, src, m)
  BY RelocatablePass
<1> HIDE DEF b, p
<1>7. /\ p \in Passes /\ SameTable(b, p.asm) /\ p.image.ok /\ ~p.image.crashed
      /\ LinesFit(b, src) => Assembled(b, Zero, src, p)
  BY <1>3 DEF PassDone
<1>8. p.asm.symtab = b.symtab /\ p.asm.indices = b.indices
  BY <1>7 DEF SameTable
<1> HIDE DEF e, R
<1>9. q = IF \E r \in R : r.symbol \notin DOMAIN p.asm.indices THEN [p EXCEPT !.image.ok = FALSE]
          ELSE [p EXCEPT !.image.rela = e]
  BY <1>7 DEF AddRelocationEntries, b, p, R, e
<1>10. q.asm = p.asm
  BY <1>7, <1>9 DEF Passes
<1>11. \A k \in DOMAIN src : TargetsIn(b, src[k].stmt)
  BY <1>5 DEF Ready
<1>12. LinesFit(b, src)
  <2>1. FitsIn(b.symtab, src)
    BY <1>8, <1>10
  <2> QED BY <1>1, <1>4, <1>11, <2>1, FitsAll
<1>13. R = UNION {LineRelocations(Zero, src, k) : k \in DOMAIN src}
  BY <1>7, <1>12 DEF Assembled, R
<1>14. /\ \A r \in R : r.symbol \in DOMAIN b.indices
       /\ Entered(b.symtab, {[offset |-> r.offset, section |-> r.section, index |-> b.indices[r.symbol]] : r \in R})
            = Wanted(src)
  BY <1>1, <1>4, <1>11, <1>13, EntriesWanted
<1>15. q = [p EXCEPT !.image.rela = e]
  BY <1>8, <1>9, <1>14
<1>16. q.image.rela = e
  BY <1>7, <1>15 DEF Passes, Images
<1>17. Entered(b.symtab, e) = Wanted(src)
  BY <1>8, <1>14 DEF e
<1> QED BY <1>4, <1>8, <1>10, <1>16, <1>17

(* The contents of an executable.                                          *)
BytesWanted(t, start, src, k) ==
  LET s == src[k].stmt
      value == IF s.target = NoName THEN 0 ELSE EntryOf(t, s.target).value
  IN CASE s.kind = "op" -> <<s.code, value - (IF s.relative THEN AddressAt(start, src, k) ELSE 0)>>
       [] s.kind = "values" -> ValueBytes(s)
       [] s.kind = "strings" -> StringBytes(s)

LabelInPlace(t, start, src, k) ==
  src[k].label \notin Sections \cup {NoName} /\ EntryOf(t, src[k].label).section # NoSection
    /\ (\A j \in 1 .. k - 1 : src[j].label # src[k].label)
  => /\ EntryOf(t, src[k].label).section = SectionAt(src, k)
     /\ EntryOf(t, src[k].label).value = AddressAt(start, src, k)

BytesInPlace(t, start, content, src, k) ==
  src[k].stmt.kind \in {"op", "values", "strings"} /\ SectionAt(src, k) # ".bss" =>
    SubSeq(content[SectionAt(src, k)], OffsetAt(src, k) + 1, OffsetAt(src, k) + SizeOf(src[k].stmt))
      = BytesWanted(t, start, src, k)

LEMMA HeldBytes ==
  ASSUME NEW S, NEW content \in Seq(S), NEW bytes \in Seq(S), NEW offset \in Nat, Holds(content, offset, bytes)
  PROVE  SubSeq(content, offset + 1, offset + Len(bytes)) = bytes
<1> DEFINE x == offset + 1
           y == offset + Len(bytes)
           u == SubSeq(content, x, y)
<1>1. Len(bytes) \in Nat /\ Len(content) \in Nat
  OBVIOUS
<1>2. y <= Len(content) /\ \A i \in 1 .. Len(bytes) : content[offset + i] = bytes[i]
  BY DEF Holds
<1>3. x \in 1 .. Len(content) + 1 /\ y \in x - 1 .. Len(content) /\ y - x + 1 = Len(bytes)
  BY <1>1, <1>2
<1> HIDE DEF x, y
<1>4. u \in Seq(S) /\ Len(u) = y - x + 1 /\ \A i \in 1 .. y - x + 1 : u[i] = content[x + i - 1]
  BY <1>3, SubSeqProperties
<1> HIDE DEF u
<1>5. ASSUME NEW i \in 1 .. Len(bytes) PROVE u[i] = bytes[i]
  <2>1. u[i] = content[x + i - 1]
    BY <1>3, <1>4
  <2>2. x + i - 1 = offset + i
    BY DEF x
  <2> QED BY <1>2, <2>1, <2>2
<1>6. u = bytes
  BY <1>3, <1>4, <1>5, SeqEqual
<1> QED BY <1>6 DEF u, x, y

ExecutableOK(t, start, content, src) ==
  /\ \A k \in DOMAIN src : LabelInPlace(t, start, src, k)
  /\ \A k \in DOMAIN src : BytesInPlace(t, start, content, src, k)
  /\ start[".bss"] >= start[".data"] + Len(content[".data"])

LEMMA LabelsPlaced ==
  ASSUME DataAddressUnit = 1, NEW a, NEW src \in Seq(Lines), WithoutGaps(src), a \in Assemblers, TableOK(a), LabelsOK(a, src),
         NEW start \in [Sections -> Int], NEW b, LaidFrom(a, start, b), NEW t, NEW k \in DOMAIN src,
         \A n \in DOMAIN a.indices : EntryOf(t, n) = At(b, n)
  PROVE  LabelInPlace(t, start, src, k)
<1> DEFINE n == src[k].label
<1> SUFFICES ASSUME n \notin Sections \cup {NoName}, EntryOf(t, n).section # NoSection,
                    \A j \in 1 .. k - 1 : src[j].label # n
             PROVE  EntryOf(t, n).section = SectionAt(src, k) /\ EntryOf(t, n).value = AddressAt(start, src, k)
  BY DEF LabelInPlace
<1>1. FirstLabelled(src, k)
  BY DEF FirstLabelled
<1>2. /\ n \in DOMAIN a.indices
      /\ At(a, n).section # NoSection => At(a, n).section = SectionAt(src, k) /\ At(a, n).value = OffsetAt(src, k)
  BY <1>1 DEF LabelsOK
<1> HIDE DEF n
<1>3. EntryOf(t, n) = At(b, n)
  BY <1>2
<1>4. /\ At(b, n).section = At(a, n).section
      /\ At(a, n).section # NoSection => At(b, n).value = At(a, n).value + start[At(a, n).section]
  BY <1>2 DEF LaidFrom
<1>5. At(a, n).section = SectionAt(src, k) /\ At(a, n).value = OffsetAt(src, k) /\ At(a, n).section # NoSection
  BY <1>2, <1>3, <1>4
<1>6. SectionAt(src, k) \in Sections
  <2>1. At(a, n) \in Symbols
    BY <1>2, TableEntries
  <2> QED BY <1>5, <2>1 DEF Symbols, Places
<1>7. start[SectionAt(src, k)] \in Int /\ OffsetAt(src, k) \in Nat
  BY <1>6, AddressTyped
<1>8. At(b, n).value = OffsetAt(src, k) + start[SectionAt(src, k)]
  BY <1>4, <1>5
<1> QED BY <1>3, <1>4, <1>5, <1>7, <1>8 DEF AddressAt

LEMMA BytesPlaced ==
  ASSUME NEW src \in Seq(Lines), WithoutGaps(src), NEW start \in [Sections -> Int],
         NEW b \in Assemblers, Indexed(b), NEW t, NEW k \in DOMAIN src,
         TargetsIn(b, src[k].stmt), \A n \in DOMAIN b.indices : EntryOf(t, n) = At(b, n),
         NEW content \in [Sections -> Seq(AllBytes)], src[k].stmt.kind # "empty" => LineIn(b, start, src, content, k)
  PROVE  BytesInPlace(t, start, content, src, k)
<1> DEFINE s == src[k].stmt
           c == SectionAt(src, k)
           at == AddressAt(start, src, k)
           bytes == BytesAt(b, s, at)
           o == OffsetAt(src, k)
<1> SUFFICES ASSUME s.kind \in {"op", "values", "strings"}, c # ".bss"
             PROVE  SubSeq(content[c], o + 1, o + SizeOf(s)) = BytesWanted(t, start, src, k)
  BY DEF BytesInPlace
<1>1. c \in {".text", ".data"} /\ c \in Sections
  <2>1. k \in 1 .. Len(src) + 1
    OBVIOUS
  <2>2. c \in Places /\ c # NoSection
    BY <2>1, SectionTyped DEF WithoutGaps
  <2> QED BY <2>2 DEF Places, Sections
<1>2. o \in Nat /\ at \in Int
  BY <1>1, AddressTyped
<1>3. s \in Stmts
  BY DEF Stmts
<1>4. Holds(content[c], o, bytes)
  BY <1>1 DEF LineIn
<1>5. BytesWanted(t, start, src, k) = bytes
  <2>1. CASE s.kind = "op"
    <3>1. s.target # NoName => EntryOf(t, s.target) = At(b, s.target)
      BY <2>1 DEF TargetsIn, Targets
    <3> DEFINE v == IF s.target = NoName THEN 0 ELSE EntryOf(t, s.target).value
    <3>2. v = Value(b, s)
      BY <3>1 DEF Value
    <3>3. BytesWanted(t, start, src, k) = <<s.code, v - (IF s.relative THEN at ELSE 0)>>
      BY <2>1 DEF BytesWanted
    <3> HIDE DEF v
    <3>4. bytes = <<s.code, Value(b, s) - (IF s.relative THEN at ELSE 0)>>
      BY <2>1 DEF BytesAt
    <3> HIDE DEF bytes, at
    <3> QED BY <3>2, <3>3, <3>4
  <2>2. CASE s.kind = "values"
    BY <2>2 DEF BytesWanted, BytesAt, DataBytes
  <2>3. CASE s.kind = "strings"
    BY <2>3 DEF BytesWanted, BytesAt, DataBytes
  <2> QED BY <2>1, <2>2, <2>3
<1> HIDE DEF s, c, at, o
<1>6. bytes \in Seq(AllBytes) /\ Len(bytes) = SizeOf(s)
  BY <1>2, <1>3, BytesTyped DEF s
<1> HIDE DEF bytes
<1> DEFINE d == content[c]
<1>7. d \in Seq(AllBytes) /\ Holds(d, o, bytes)
  BY <1>1, <1>4
<1> HIDE DEF d
<1>8. SubSeq(d, o + 1, o + Len(bytes)) = bytes
  BY <1>2, <1>6, <1>7, HeldBytes
<1> QED BY <1>5, <1>6, <1>8 DEF d

ExecutableDone(a, start, src, p) ==
  /\ p \in Passes /\ p.image.ok /\ ~p.image.crashed /\ p.image.start = start /\ p.asm.indices = a.indices
  /\ DataAddressUnit = 1 /\ FitsIn(Sorted(p.asm.symtab), src) =>
       ExecutableOK(Sorted(p.asm.symtab), start, p.image.content, src)

LEMMA ExecutableRight ==
  ASSUME NEW a, NEW src, Parsed(a, src), NEW start \in [Sections -> Int],
         start[".bss"] >= start[".data"] + a.location[".data"],
         NEW p, p = ParsePassTwo(LaidOut(a, start), Blank(start))
  PROVE  ExecutableDone(a, start, src, p)
<1> DEFINE b == LaidOut(a, start)
           t == Sorted(p.asm.symtab)
<1>1. a \in Assemblers /\ TableOK(a) /\ src \in Seq(Lines) /\ WithoutGaps(src) /\ LabelsOK(a, src) /\ PlacesOK(a, src)
  BY DEF Parsed, FirstPass
<1>2. LaidFrom(a, start, b)
  BY <1>1, LaidOutEffect
<1> HIDE DEF b
<1>3. /\ b \in Assemblers /\ TableOK(b) /\ b.lines = a.lines /\ b.ok = a.ok /\ b.indices = a.indices
      /\ \A s \in Sections : b.location[s] = start[s]
  BY <1>2 DEF LaidFrom
<1>4. Indexed(b) /\ Distinct(b.symtab)
  BY <1>3, TableEntries
<1>5. PICK m : Ready(b, start, src, m)
  BY <1>3, <1>4, ParsedReady
<1>6. PassDone(b, start, src, p)
  BY <1>3, <1>5, PassTwo DEF b
<1>7. /\ p \in Passes /\ SameTable(b, p.asm) /\ p.image.ok /\ ~p.image.crashed /\ p.image.start = start
      /\ LinesFit(b, src) => Assembled(b, start, src, p)
  BY <1>6 DEF PassDone
<1>8. p.asm.symtab = b.symtab /\ p.asm.indices = a.indices /\ b.symtab \in Seq(Symbols)
  BY <1>3, <1>7 DEF SameTable, Assemblers
<1>9. Range(t) = Range(b.symtab) /\ Distinct(t)
  <2>1. Range(t) = Range(b.symtab)
    BY <1>8, SortedTable DEF SortedFrom
  <2> QED BY <1>4, <2>1 DEF Distinct
<1> HIDE DEF t
<1>10. \A n \in DOMAIN b.indices : EntryOf(t, n) = At(b, n)
  BY <1>4, <1>9, EntriesAgree
<1>11. \A k \in DOMAIN src : TargetsIn(b, src[k].stmt)
  BY <1>5 DEF Ready
<1>12. ASSUME DataAddressUnit = 1, FitsIn(t, src) PROVE ExecutableOK(t, start, p.image.content, src)
  <2>1. LinesFit(b, src)
    BY <1>1, <1>4, <1>9, <1>11, <1>12, FitsAll
  <2>2. /\ Len(p.image.content[".data"]) = SizeBefore(src, ".data", Len(src) + 1)
        /\ \A k \in DOMAIN src : src[k].stmt.kind # "empty" => LineIn(b, start, src, p.image.content, k)
    BY <1>7, <2>1 DEF Assembled
  <2>3. \A k \in DOMAIN src : LabelInPlace(t, start, src, k)
    BY <1>1, <1>2, <1>3, <1>10, <1>12, LabelsPlaced
  <2>4. \A k \in DOMAIN src : BytesInPlace(t, start, p.image.content, src, k)
    <3>1. p.image.content \in [Sections -> Seq(AllBytes)]
      BY <1>7 DEF Passes, Images
    <3> QED BY <1>1, <1>3, <1>4, <1>10, <1>11, <2>2, <3>1, BytesPlaced
  <2>5. a.location[".data"] = SizeBefore(src, ".data", Len(src) + 1)
    BY <1>1 DEF PlacesOK, Sections
  <2> QED BY <2>2, <2>3, <2>4, <2>5 DEF ExecutableOK
<1> QED BY <1>7, <1>8, <1>12 DEF ExecutableDone, t

-----------------------------------------------------------------------------
(* The assembler's runs.                                                   *)

(* As long as the source leaves no gaps, the assembler is where the first  *)
(* pass should be.                                                         *)
Reading ==
  /\ source \in Seq(Lines)
  /\ phase \in {"parse", "parsed"} /\ WithoutGaps(source) =>
       FirstPass(asm, source) /\ (phase = "parsed" => asm.undefined = {})

LEMMA OutcomePhase ==
  ASSUME NEW p, NEW result, Outcome(p, result), result \in {"executable", "relocatable"}
  PROVE  /\ source' = source /\ phase' \in {"crashed", "failed", result}
         /\ phase' = result => /\ asm' = p.asm /\ image' = p.image
                               /\ ~p.image.crashed /\ p.image.ok
BY DEF Outcome

LEMMA ReadingNext ==
  ASSUME Reading, [Next]_vars
  PROVE  Reading'
<1>1. CASE UNCHANGED vars
  BY <1>1 DEF Reading, vars
<1>2. CASE ReadLine
  <2>1. PICK line \in Lines : /\ source' = Append(source, line) /\ asm' = ParseLine(asm, line)
                              /\ phase' = IF asm'.ok THEN "parse" ELSE "failed"
    BY <1>2 DEF ReadLine
  <2>2. source \in Seq(Lines) /\ source' \in Seq(Lines) /\ phase \in {"parse", "parsed"}
    BY <1>2, <2>1 DEF Reading, ReadLine
  <2>3. ASSUME phase' \in {"parse", "parsed"}, WithoutGaps(source')
        PROVE  FirstPass(asm', source') /\ phase' # "parsed"
    <3>1. asm'.ok /\ phase' # "parsed"
      BY <2>1, <2>3
    <3>2. Longer(source, line, source')
      BY <2>1, <2>2, Appended
    <3>3. WithoutGaps(source)
      BY <2>1, <2>2, <2>3, <3>2, GapsBefore
    <3>4. FirstPass(asm, source)
      BY <2>2, <3>3 DEF Reading
    <3> QED BY <2>1, <2>2, <2>3, <3>1, <3>4, FirstPassNext
  <2> QED BY <2>2, <2>3 DEF Reading
<1>3. CASE EndOfStream
  <2>1. PICK names \in SetToSeqs(asm.undefined) : asm' = AddUndefined(asm, names)
    BY <1>3 DEF EndOfStream
  <2>2. source' = source /\ phase = "parse" /\ phase' = IF asm'.ok THEN "parsed" ELSE "failed"
    BY <1>3 DEF EndOfStream
  <2>3. ASSUME phase' \in {"parse", "parsed"}, WithoutGaps(source')
        PROVE  FirstPass(asm', source') /\ asm'.undefined = {}
    <3>1. asm'.ok /\ WithoutGaps(source)
      BY <2>2, <2>3
    <3>2. FirstPass(asm, source) /\ source \in Seq(Lines)
      BY <2>2, <3>1 DEF Reading
    <3>3. FirstPass(asm', source) /\ asm'.undefined = {}
      BY <2>1, <3>1, <3>2, FirstPassEnd
    <3> QED BY <2>2, <3>3
  <2> QED BY <2>2, <2>3 DEF Reading
<1>4. ASSUME source' = source, phase' \in {"crashed", "failed", "executable", "relocatable"} PROVE Reading'
  BY <1>4 DEF Reading
<1>5. ASSUME NEW base \in Bases, NEW entry \in EntryPoints, NEW dataStart \in DataStarts,
             CreateExecutable(base, entry, dataStart)
      PROVE  Reading'
  <2>1. PICK p : Outcome(p, "executable")
    BY <1>5 DEF CreateExecutable
  <2> QED BY <1>4, <2>1, OutcomePhase
<1>6. CASE CreateRelocatable
  <2>1. PICK p : Outcome(p, "relocatable")
    BY <1>6 DEF CreateRelocatable
  <2> QED BY <1>4, <2>1, OutcomePhase
<1> QED BY <1>1, <1>2, <1>3, <1>5, <1>6 DEF Next

LEMMA AlwaysReading == Spec => []Reading
<1>1. Init => Reading
  <2> SUFFICES ASSUME Init PROVE Reading
    OBVIOUS
  <2>1. source = << >> /\ asm = NewAssembler /\ phase = "parse"
    BY DEF Init
  <2>2. source \in Seq(Lines)
    BY <2>1
  <2> QED BY <2>1, <2>2, FirstPassInit DEF Reading
<1>2. Reading /\ [Next]_vars => Reading'
  BY ReadingNext
<1> QED BY <1>1, <1>2, PTL DEF Spec

(* Either file of a source without gaps comes about.                       *)
LEMMA ExecutableAssembled ==
  ASSUME Reading, WithoutGaps(source), NEW base \in Bases, NEW entry \in EntryPoints, NEW dataStart \in DataStarts,
         CreateExecutable(base, entry, dataStart), entry \in DOMAIN asm.indices
  PROVE  phase' = "executable"
<1> DEFINE start == Layout(asm, base, dataStart)
           p == ParsePassTwo(LaidOut(asm, start), Blank(start))
           i == [p.image EXCEPT !.entry = Resolve(p.asm, entry).value]
           r == IF asm.undefined # {} THEN [asm |-> asm, image |-> [NoImage EXCEPT !.ok = FALSE]]
                ELSE IF ~p.image.ok THEN p
                ELSE IF entry \notin DOMAIN p.asm.indices THEN [p EXCEPT !.image.ok = FALSE]
                ELSE [asm |-> ArrangeLocalSymbols(p.asm), image |-> i]
<1>1. phase = "parsed" /\ Outcome(r, "executable")
  BY DEF CreateExecutable, LaidOut, Blank
<1>2. Parsed(asm, source)
  BY <1>1 DEF Reading, Parsed
<1>3. asm \in Assemblers /\ asm.undefined = {} /\ base \in Nat /\ dataStart \in Nat
  BY <1>2, AssemblerAssumption DEF Parsed, FirstPass
<1>4. start \in [Sections -> Int] /\ start[".bss"] >= start[".data"] + asm.location[".data"]
  BY <1>3, LayoutTyped
<1> HIDE DEF start
<1>5. ExecutableDone(asm, start, source, p)
  BY <1>2, <1>4, ExecutableRight
<1> HIDE DEF p
<1>6. p \in Passes /\ p.image.ok /\ ~p.image.crashed /\ p.asm.indices = asm.indices
  BY <1>5 DEF ExecutableDone
<1> HIDE DEF i
<1>7. r.image = i
  BY <1>3, <1>6
<1>8. i.ok /\ ~i.crashed
  BY <1>6 DEF Passes, Images, i
<1> HIDE DEF r
<1> QED BY <1>1, <1>7, <1>8 DEF Outcome

LEMMA RelocatableFinished ==
  ASSUME Reading, WithoutGaps(source), CreateRelocatable
  PROVE  phase' = "relocatable"
<1> DEFINE q == AddRelocationEntries(ParsePassTwo(Reset(asm), NoImage))
<1>1. phase = "parsed" /\ Outcome(q, "relocatable")
  BY DEF CreateRelocatable, Reset
<1>2. Parsed(asm, source)
  BY <1>1 DEF Reading, Parsed
<1>3. q.image.ok /\ ~q.image.crashed
  BY <1>2, RelocatableAssembled
<1> HIDE DEF q
<1> QED BY <1>1, <1>3 DEF Outcome

LEMMA ExecutableStep ==
  ASSUME DataAddressUnit = 1, Reading, NEW base \in Bases, NEW entry \in EntryPoints, NEW dataStart \in DataStarts,
         CreateExecutable(base, entry, dataStart)
  PROVE  ExecutableInPlace'
<1> DEFINE start == Layout(asm, base, dataStart)
           p == ParsePassTwo(LaidOut(asm, start), Blank(start))
           finished ==
             IF ~p.image.ok THEN p
             ELSE IF entry \notin DOMAIN p.asm.indices THEN [p EXCEPT !.image.ok = FALSE]
             ELSE [asm |-> ArrangeLocalSymbols(p.asm),
                   image |-> [p.image EXCEPT !.entry = Resolve(p.asm, entry).value]]
           failed == [asm |-> asm, image |-> [NoImage EXCEPT !.ok = FALSE]]
           r == IF asm.undefined # {} THEN failed ELSE finished
<1>1. phase = "parsed" /\ Outcome(r, "executable")
  BY DEF CreateExecutable, LaidOut, Blank
<1>2. source' = source /\ phase' \in {"crashed", "failed", "executable"}
  <2> HIDE DEF r
  <2> QED BY <1>1, OutcomePhase
<1> SUFFICES ASSUME phase' = "executable", Regular' PROVE ExecutableInPlace'
  BY DEF ExecutableInPlace
<1>3. asm' = r.asm /\ image' = r.image /\ ~r.image.crashed /\ r.image.ok
  <2> HIDE DEF r
  <2> QED BY <1>1, OutcomePhase
<1>4. WithoutGaps(source)
  BY <1>2 DEF Regular
<1>5. Parsed(asm, source)
  BY <1>1, <1>4 DEF Reading, Parsed
<1>6. asm \in Assemblers /\ asm.undefined = {}
  BY <1>5 DEF Parsed, FirstPass
<1>7. base \in Nat /\ dataStart \in Nat
  BY AssemblerAssumption
<1>8. start \in [Sections -> Int] /\ start[".bss"] >= start[".data"] + asm.location[".data"]
  BY <1>6, <1>7, LayoutTyped
<1> HIDE DEF start
<1>9. ExecutableDone(asm, start, source, p)
  BY <1>5, <1>8, ExecutableRight
<1> HIDE DEF p
<1>10. /\ p \in Passes /\ p.image.ok /\ p.image.start = start
       /\ FitsIn(Sorted(p.asm.symtab), source) => ExecutableOK(Sorted(p.asm.symtab), start, p.image.content, source)
  BY <1>9 DEF ExecutableDone
<1>11. /\ r.asm.symtab = Sorted(p.asm.symtab) /\ r.image.content = p.image.content /\ r.image.start = start
  <2>1. r = finished
    BY <1>6
  <2>2. p.asm \in Assemblers /\ p.image \in Images
    BY <1>10 DEF Passes
  <2>3. entry \in DOMAIN p.asm.indices
    <3> SUFFICES ASSUME entry \notin DOMAIN p.asm.indices PROVE FALSE
      OBVIOUS
    <3>1. r = [p EXCEPT !.image.ok = FALSE]
      BY <1>10, <2>1
    <3>2. r.image = [p.image EXCEPT !.ok = FALSE]
      <4> HIDE DEF r
      <4> QED BY <1>10, <3>1 DEF Passes
    <3>3. ~r.image.ok
      <4> HIDE DEF r
      <4> QED BY <2>2, <3>2 DEF Images
    <3> QED BY <1>3, <3>3
  <2> DEFINE v == Resolve(p.asm, entry).value
  <2>4. r.asm = ArrangeLocalSymbols(p.asm) /\ r.image = [p.image EXCEPT !.entry = v]
    BY <1>10, <2>1, <2>3
  <2> HIDE DEF r, v
  <2>5. r.asm = [p.asm EXCEPT !.symtab = Sorted(p.asm.symtab)]
    BY <2>4 DEF ArrangeLocalSymbols, Sorted
  <2> QED BY <1>10, <2>2, <2>4, <2>5 DEF Assemblers, Images
<1> HIDE DEF r
<1> DEFINE t == Sorted(p.asm.symtab)
           c == p.image.content
<1>12. asm'.symtab = t /\ image'.content = c /\ image'.start = start
  BY <1>3, <1>11
<1> HIDE DEF t, c
<1>13. \A n : Entry(n)' = EntryOf(t, n)
  BY <1>12 DEF Entry, EntryOf
<1>14. OpLines' = {j \in DOMAIN source : source[j].stmt.kind = "op"}
  BY <1>2 DEF OpLines
<1>15. FitsIn(t, source)
  BY <1>2, <1>13, <1>14 DEF Regular, FitsIn
<1>16. ExecutableOK(t, start, c, source)
  BY <1>10, <1>15 DEF t, c
<1>17. \A k \in DOMAIN source : image'.start[SectionAt(source, k)] + OffsetAt(source, k) = AddressAt(start, source, k)
  BY <1>12 DEF AddressAt
<1>18. ASSUME NEW k \in DOMAIN source', source'[k].label \notin Sections \cup {NoName},
              Entry(source[k].label)'.section # NoSection, \A j \in 1 .. k - 1 : source'[j].label # source'[k].label
       PROVE  /\ Entry(source[k].label)'.section = SectionAt(source', k)
              /\ Entry(source[k].label)'.value = image'.start[SectionAt(source', k)] + OffsetAt(source', k)
  <2>1. LabelInPlace(t, start, source, k)
    BY <1>2, <1>16, <1>18 DEF ExecutableOK
  <2>2. Entry(source[k].label)' = EntryOf(t, source[k].label)
    BY <1>2, <1>12 DEF Entry, EntryOf
  <2> QED BY <1>2, <1>17, <1>18, <2>1, <2>2 DEF LabelInPlace
<1>19. ASSUME NEW k \in DOMAIN source', source'[k].stmt.kind \in {"op", "values", "strings"}
       PROVE  LineBytes(k)' = BytesWanted(t, start, source, k)
  <2> DEFINE s == source[k].stmt
  <2>1. CASE s.kind = "op"
    <3>1. k \in OpLines'
      BY <1>2, <1>14, <1>19, <2>1
    <3>2. LineBytes(k)' = OpBytes(k)'
      BY <1>2, <1>14, <2>1, <3>1 DEF LineBytes
    <3> DEFINE v == IF s.target = NoName THEN 0 ELSE EntryOf(t, s.target).value
    <3>3. OpBytes(k)' = <<s.code, v - (IF s.relative THEN AddressAt(start, source, k) ELSE 0)>>
      BY <1>2, <1>12, <1>17, <1>19 DEF OpBytes, Entry, EntryOf
    <3>4. BytesWanted(t, start, source, k) = <<s.code, v - (IF s.relative THEN AddressAt(start, source, k) ELSE 0)>>
      BY <2>1 DEF BytesWanted
    <3> QED BY <3>2, <3>3, <3>4
  <2>2. CASE s.kind = "values"
    <3>1. k \notin OpLines'
      BY <1>14, <2>2
    <3> QED BY <1>2, <2>2, <3>1 DEF LineBytes, BytesWanted
  <2>3. CASE s.kind = "strings"
    <3>1. k \notin OpLines'
      BY <1>14, <2>3
    <3> QED BY <1>2, <2>3, <3>1 DEF LineBytes, BytesWanted
  <2> QED BY <1>2, <1>19, <2>1, <2>2, <2>3
<1>20. ASSUME NEW k \in DOMAIN source', source'[k].stmt.kind \in {"op", "values", "strings"}, SectionAt(source', k) # ".bss"
       PROVE  SubSeq(image'.content[SectionAt(source', k)],
                     OffsetAt(source', k) + 1, OffsetAt(source', k) + SizeOf(source'[k].stmt)) = LineBytes(k)'
  <2>1. BytesInPlace(t, start, c, source, k)
    BY <1>2, <1>16, <1>20 DEF ExecutableOK
  <2> QED BY <1>2, <1>12, <1>19, <1>20, <2>1 DEF BytesInPlace
<1>21. image'.start[".bss"] >= image'.start[".data"] + Len(image'.content[".data"])
  BY <1>12, <1>16 DEF ExecutableOK
<1> QED BY <1>18, <1>20, <1>21, SMTT(30) DEF ExecutableInPlace

LEMMA RelocatableStep ==
  ASSUME Reading, CreateRelocatable
  PROVE  RelocationsMatch'
<1> DEFINE q == AddRelocationEntries(ParsePassTwo(Reset(asm), NoImage))
<1>1. phase = "parsed" /\ Outcome(q, "relocatable")
  BY DEF CreateRelocatable, Reset
<1> HIDE DEF q
<1>2. source' = source /\ phase' \in {"crashed", "failed", "relocatable"}
  BY <1>1, OutcomePhase
<1> SUFFICES ASSUME phase' = "relocatable", Regular' PROVE RelocationsMatch'
  BY DEF RelocationsMatch
<1>3. asm' = q.asm /\ image' = q.image
  BY <1>1, OutcomePhase
<1>4. WithoutGaps(source)
  BY <1>2 DEF Regular
<1>5. Parsed(asm, source)
  BY <1>1, <1>4 DEF Reading, Parsed
<1>6. \A n : Entry(n)' = EntryOf(q.asm.symtab, n)
  BY <1>3 DEF Entry, EntryOf
<1>7. OpLines' = {j \in DOMAIN source : source[j].stmt.kind = "op"}
  BY <1>2 DEF OpLines
<1>8. FitsIn(q.asm.symtab, source)
  BY <1>2, <1>6, <1>7 DEF Regular, FitsIn
<1>9. LocalsFirst(q.asm.symtab) /\ Entered(q.asm.symtab, q.image.rela) = Wanted(source)
  BY <1>5, <1>8, RelocatableMatches DEF q
<1>10. \A k, j \in DOMAIN asm'.symtab : k < j /\ asm'.symtab[j].bind = "local" => asm'.symtab[k].bind = "local"
  BY <1>3, <1>9 DEF LocalsFirst
<1>11. {[offset |-> r.offset, section |-> r.section, symbol |-> asm'.symtab[r.index].name] : r \in image'.rela}
         = Wanted(source)
  BY <1>3, <1>9 DEF Entered
<1>12. Wanted(source)
         = UNION {{[offset |-> OffsetAt(source', k), section |-> SectionAt(source', k), symbol |-> n] :
                     n \in Targets(source'[k].stmt)} : k \in OpLines'}
  BY <1>2, <1>7 DEF Wanted
<1> QED BY <1>10, <1>11, <1>12 DEF RelocationsMatch

(* For every source that chooses a section before it uses one and leaves   *)
(* gaps in bss only, and whatever its length: an executable (DataAddressUnit *)
(* as the constructor sets it) has every label at the address of its line,  *)
(* that line's bytes there, encoded for that address and for the addresses  *)
(* that its labels finally have, and bss behind data.                      *)
THEOREM TwoPassesAgree ==
  ASSUME DataAddressUnit = 1
  PROVE  Spec => []ExecutableInPlace
<1>1. Init => ExecutableInPlace
  BY DEF Init, ExecutableInPlace
<1>2. Reading /\ ExecutableInPlace /\ [Next]_vars => ExecutableInPlace'
  <2> SUFFICES ASSUME Reading, ExecutableInPlace, [Next]_vars PROVE ExecutableInPlace'
    OBVIOUS
  <2>1. CASE UNCHANGED vars
    BY <2>1, ZenonT(60) DEF vars, ExecutableInPlace, Regular, OpLines, Entry, LineBytes, OpBytes
  <2>2. ASSUME phase' # "executable" PROVE ExecutableInPlace'
    BY <2>2 DEF ExecutableInPlace
  <2>3. CASE ReadLine
    BY <2>2, <2>3 DEF ReadLine
  <2>4. CASE EndOfStream
    BY <2>2, <2>4 DEF EndOfStream
  <2>5. ASSUME NEW base \in Bases, NEW entry \in EntryPoints, NEW dataStart \in DataStarts,
               CreateExecutable(base, entry, dataStart)
        PROVE  ExecutableInPlace'
    BY <2>5, ExecutableStep
  <2>6. CASE CreateRelocatable
    <3>1. PICK p : Outcome(p, "relocatable")
      BY <2>6 DEF CreateRelocatable
    <3> QED BY <2>2, <3>1, OutcomePhase
  <2> QED BY <2>1, <2>3, <2>4, <2>5, <2>6 DEF Next
<1> QED BY <1>1, <1>2, AlwaysReading, PTL DEF Spec

(* For every such source: the relocations of a relocatable file are those   *)
(* of the instructions that name a symbol, at their offsets, with the index *)
(* that the symbol has after the table was sorted, local symbols first.     *)
THEOREM RelocationsRight == Spec => []RelocationsMatch
<1>1. Init => RelocationsMatch
  BY DEF Init, RelocationsMatch
<1>2. Reading /\ RelocationsMatch /\ [Next]_vars => RelocationsMatch'
  <2> SUFFICES ASSUME Reading, RelocationsMatch, [Next]_vars PROVE RelocationsMatch'
    OBVIOUS
  <2>1. CASE UNCHANGED vars
    BY <2>1 DEF vars, RelocationsMatch, Regular, OpLines, Entry
  <2>2. ASSUME phase' # "relocatable" PROVE RelocationsMatch'
    BY <2>2 DEF RelocationsMatch
  <2>3. CASE ReadLine
    BY <2>2, <2>3 DEF ReadLine
  <2>4. CASE EndOfStream
    BY <2>2, <2>4 DEF EndOfStream
  <2>5. ASSUME NEW base \in Bases, NEW entry \in EntryPoints, NEW dataStart \in DataStarts,
               CreateExecutable(base, entry, dataStart)
        PROVE  RelocationsMatch'
    <3>1. PICK p : Outcome(p, "executable")
      BY <2>5 DEF CreateExecutable
    <3> QED BY <2>2, <3>1, OutcomePhase
  <2>6. CASE CreateRelocatable
    BY <2>6, RelocatableStep
  <2> QED BY <2>1, <2>3, <2>4, <2>5, <2>6 DEF Next
<1> QED BY <1>1, <1>2, AlwaysReading, PTL DEF Spec

(* What Parse() accepts of such sources is assembled, if the operands fit:  *)
(* ParsePassTwo() never uses the null section, whichever section the first  *)
(* pass ended in, and AddRelocationEntries() finds every symbol.  (A line   *)
(* whose operand does not fit is no failure to ParsePassTwo(), but is lost; *)
(* such sources are excluded by the hypothesis Regular'.)                   *)
THEOREM AcceptedAssembles == Spec => AcceptedIsAssembled
<1> DEFINE A == phase = "parsed" =>
                  /\ CreateRelocatable /\ Regular' => phase' = "relocatable"
                  /\ \A base \in Bases, entry \in EntryPoints \cap DOMAIN asm.indices, dataStart \in DataStarts :
                       CreateExecutable(base, entry, dataStart) /\ Regular' => phase' = "executable"
<1>1. Reading => A
  <2> SUFFICES ASSUME Reading
               PROVE  /\ CreateRelocatable /\ Regular' => phase' = "relocatable"
                      /\ \A base \in Bases, entry \in EntryPoints \cap DOMAIN asm.indices, dataStart \in DataStarts :
                           CreateExecutable(base, entry, dataStart) /\ Regular' => phase' = "executable"
    OBVIOUS
  <2>1. ASSUME Regular', source' = source PROVE WithoutGaps(source)
    BY <2>1 DEF Regular
  <2>2. ASSUME CreateRelocatable, Regular' PROVE phase' = "relocatable"
    <3>1. source' = source
      BY <2>2 DEF CreateRelocatable, Outcome
    <3> QED BY <2>1, <2>2, <3>1, RelocatableFinished
  <2>3. ASSUME NEW base \in Bases, NEW entry \in EntryPoints \cap DOMAIN asm.indices, NEW dataStart \in DataStarts,
               CreateExecutable(base, entry, dataStart), Regular'
        PROVE  phase' = "executable"
    <3>1. source' = source
      BY <2>3 DEF CreateExecutable, Outcome
    <3> QED BY <2>1, <2>3, <3>1, ExecutableAssembled
  <2> QED BY <2>2, <2>3
<1>2. Reading /\ [Next]_vars => [A]_vars
  BY <1>1
<1> QED BY <1>2, AlwaysReading, PTL DEF Spec, AcceptedIsAssembled
=============================================================================
