--------------------------- MODULE AlgorithmProofs ---------------------------
(***************************************************************************)
(* Proofs about the algorithms without state, for inputs of every size.    *)
(*                                                                         *)
(* A selection: the position of an id among the ids of its request is the  *)
(* number of its line, because positions ascend with the ids and there are *)
(* as many of them as there are lines.                                     *)
(*                                                                         *)
(* The loops over characters and arguments: each is a function over the    *)
(* steps of the loop.  That it exists, what it ends with and what it does  *)
(* with one more element are shown by induction over the steps, which      *)
(* SetInduction states about a set of numbers in place of a predicate and  *)
(* derives from the well-foundedness of < on Nat.                          *)
(***************************************************************************)
EXTENDS MCAlgorithms, FiniteSetTheorems, SequenceTheorems, WellFoundedInduction, TLAPS

\* Induction over the natural numbers, for a set in place of a predicate.
LEMMA SetInduction ==
  ASSUME NEW T \in SUBSET Nat, 0 \in T, \A n \in T : n + 1 \in T
  PROVE  T = Nat
  <1> DEFINE rest == Nat \ T
             less == {ss \in Nat \X Nat : ss[1] < ss[2]}
  <1>1. IsWellFoundedOn(less, Nat)
    BY NatLessThanWellFounded DEF OpToRel
  <1>2. CASE rest # {}
    <2>1. PICK x \in rest : \A y \in rest : ~(<<y, x>> \in less)
      <3> HIDE DEF less
      <3>1. rest \subseteq Nat
        OBVIOUS
      <3> QED
        BY <1>1, <1>2, <3>1, WFMin
    <2>2. x \in Nat /\ x # 0 /\ x - 1 \in Nat /\ x - 1 < x
      OBVIOUS
    <2>3. <<x - 1, x>> \in less
      BY <2>2
    <2>4. x - 1 \in T
      BY <2>1, <2>2, <2>3
    <2> QED
      BY <2>2, <2>4
  <1> QED
    BY <1>2

\* The least number of a set that has one.
LEMMA LeastNumber ==
  ASSUME NEW T \in SUBSET Nat, T # {}
  PROVE  \E x \in T : \A y \in T : x <= y
  <1> DEFINE less == {ss \in Nat \X Nat : ss[1] < ss[2]}
  <1>1. IsWellFoundedOn(less, Nat)
    BY NatLessThanWellFounded DEF OpToRel
  <1>2. PICK x \in T : \A y \in T : ~(<<y, x>> \in less)
    <2> HIDE DEF less
    <2> QED
      BY <1>1, WFMin
  <1>3. ASSUME NEW y \in T PROVE x <= y
    <2>1. x \in Nat /\ y \in Nat /\ ~(y < x)
      BY <1>2
    <2> QED
      BY <2>1
  <1> QED
    BY <1>3

\* A loop over n elements: what it has made of start after each of them.
Loops(f, start, step, n) ==
  f = [i \in 0..n |-> IF i = 0 THEN start ELSE step[i][f[i - 1]]]

\* Every loop runs.
LEMMA LoopExists ==
  ASSUME NEW S, NEW start \in S, NEW n \in Nat, NEW step \in [1..n -> [S -> S]]
  PROVE  \E f \in [0..n -> S] : Loops(f, start, step, n)
  <1> DEFINE Runs(k) == \E f \in [0..k -> S] : Loops(f, start, step, k)
             T       == {k \in Nat : k <= n => Runs(k)}
  <1>1. 0 \in T
    <2> DEFINE f == [i \in 0..0 |-> start]
    <2>1. f \in [0..0 -> S]
      OBVIOUS
    <2>2. Loops(f, start, step, 0)
      BY DEF Loops
    <2> QED
      BY <2>1, <2>2
  <1>2. ASSUME NEW k \in T PROVE k + 1 \in T
    <2> SUFFICES ASSUME k + 1 <= n PROVE Runs(k + 1)
      OBVIOUS
    <2>1. PICK f \in [0..k -> S] : Loops(f, start, step, k)
      OBVIOUS
    <2> DEFINE g == [i \in 0..(k + 1) |-> IF i = k + 1 THEN step[k + 1][f[k]] ELSE f[i]]
    <2>2. g \in [0..(k + 1) -> S]
      OBVIOUS
    <2>3. ASSUME NEW i \in 0..(k + 1)
          PROVE  g[i] = IF i = 0 THEN start ELSE step[i][g[i - 1]]
      <3>1. CASE i = 0
        BY <2>1, <3>1 DEF Loops
      <3>2. CASE i \in 1..k
        <4>1. /\ k \in Nat /\ i \in 0..k /\ i # 0 /\ i # k + 1
              /\ i - 1 \in 0..(k + 1) /\ i - 1 # k + 1
          BY <3>2
        <4>2. g[i] = f[i] /\ g[i - 1] = f[i - 1]
          BY <4>1
        <4>3. f[i] = step[i][f[i - 1]]
          BY <2>1, <4>1 DEF Loops
        <4> QED
          BY <4>1, <4>2, <4>3
      <3>3. CASE i = k + 1
        <4>1. k \in Nat /\ i # 0 /\ i - 1 = k /\ k # k + 1 /\ k \in 0..(k + 1)
          BY <3>3
        <4>2. g[i - 1] = f[k] /\ g[i] = step[k + 1][f[k]]
          BY <3>3, <4>1
        <4> QED
          BY <3>3, <4>1, <4>2
      <3> QED
        BY <3>1, <3>2, <3>3
    <2>4. Loops(g, start, step, k + 1)
      <3> HIDE DEF g
      <3> QED
        BY <2>2, <2>3 DEF Loops
    <2> QED
      BY <2>2, <2>4
  <1> HIDE DEF T
  <1>3. T = Nat
    BY <1>1, <1>2, SetInduction DEF T
  <1> QED
    BY <1>3 DEF T

\* And runs in one way: two that agree at the start and step alike agree at the end.
LEMMA LoopUnique ==
  ASSUME NEW n \in Nat, NEW f, NEW g, f[0] = g[0],
         \A i \in 1..n : f[i - 1] = g[i - 1] => f[i] = g[i]
  PROVE  \A i \in 0..n : f[i] = g[i]
  <1> DEFINE T == {i \in Nat : i <= n => f[i] = g[i]}
  <1>1. 0 \in T
    OBVIOUS
  <1>2. ASSUME NEW k \in T PROVE k + 1 \in T
    <2> SUFFICES ASSUME k + 1 <= n PROVE f[k + 1] = g[k + 1]
      OBVIOUS
    <2>1. k \in Nat /\ k <= n /\ k + 1 \in 1..n /\ (k + 1) - 1 = k
      OBVIOUS
    <2> QED
      BY <2>1
  <1> HIDE DEF T
  <1>3. T = Nat
    BY <1>1, <1>2, SetInduction DEF T
  <1> QED
    BY <1>3 DEF T

\* A function on 1..n is a sequence of length n.
LEMMA FunctionIsSeq ==
  ASSUME NEW S, NEW n \in Nat, NEW f \in [1..n -> S]
  PROVE  f \in Seq(S) /\ Len(f) = n
  <1>1. f \in Seq(S)
    BY SeqDef
  <1>2. DOMAIN f = 1..Len(f) /\ DOMAIN f = 1..n /\ Len(f) \in Nat
    BY <1>1, LenProperties
  <1>3. Len(f) = n
    <2> DEFINE m == Len(f)
    <2>1. m \in Nat /\ 1..m = 1..n
      BY <1>2
    <2> HIDE DEF m
    <2>2. n <= m
      <3>1. CASE n = 0
        BY <2>1, <3>1
      <3>2. CASE n # 0
        BY <2>1, <3>2
      <3> QED
        BY <3>1, <3>2
    <2>3. m <= n
      <3>1. CASE m = 0
        BY <2>1, <3>1
      <3>2. CASE m # 0
        BY <2>1, <3>2
      <3> QED
        BY <3>1, <3>2
    <2>4. m = n
      BY <2>1, <2>2, <2>3
    <2> QED
      BY <2>4 DEF m
  <1> QED
    BY <1>1, <1>3
\* One argument, or two, make a list of arguments.
LEMMA OneOrTwo ==
  ASSUME NEW S, NEW x \in S, NEW y \in S
  PROVE  <<x>> \in Seq(S) /\ <<x, y>> \in Seq(S)
  OBVIOUS
\* What a sequence starts with.
LEMMA HeadIsFirst ==
  ASSUME NEW S, NEW s \in Seq(S), Len(s) # 0
  PROVE  s # <<>> /\ Head(s) = s[1]
  BY EmptySeq, HeadTailProperties

----------------------------------------------------------------------------
(* Reading a word. *)

\* What a shell can have made of characters from C.
Reads(C) == [at : {"bare", "quoted", "escaped", "ended"}, word : Seq(C)]

Start == [at |-> "bare", word |-> <<>>]

\* The steps of ShellReads.
IsReading(f, chars) ==
  f = [i \in 0..Len(chars) |-> IF i = 0 THEN Start ELSE ShellReadsChar(f[i - 1], chars[i])]

\* One character more leaves a state of the reading.
LEMMA ReadsCharType ==
  ASSUME NEW C, NEW read \in Reads(C), NEW ch \in C
  PROVE  ShellReadsChar(read, ch) \in Reads(C)
  <1>1. read.word \in Seq(C) /\ Append(read.word, ch) \in Seq(C)
    BY AppendProperties DEF Reads
  <1>2. CASE read.at = "quoted"
    BY <1>1, <1>2 DEF Reads, ShellReadsChar
  <1>3. CASE read.at = "escaped"
    BY <1>1, <1>3 DEF Reads, ShellReadsChar
  <1>4. CASE read.at = "bare"
    BY <1>1, <1>4 DEF Reads, ShellReadsChar
  <1>5. CASE read.at = "ended"
    BY <1>1, <1>5 DEF Reads, ShellReadsChar
  <1> QED
    BY <1>2, <1>3, <1>4, <1>5 DEF Reads

\* The reading of every text has its steps.
LEMMA ReadingExists ==
  ASSUME NEW C, NEW chars \in Seq(C)
  PROVE  \E f \in [0..Len(chars) -> Reads(C)] : IsReading(f, chars)
  <1> DEFINE step == [i \in 1..Len(chars) |-> [read \in Reads(C) |-> ShellReadsChar(read, chars[i])]]
  <1>1. Len(chars) \in Nat /\ \A i \in 1..Len(chars) : chars[i] \in C
    BY ElementOfSeq, LenProperties
  <1>2. step \in [1..Len(chars) -> [Reads(C) -> Reads(C)]]
    BY <1>1, ReadsCharType
  <1>3. Start \in Reads(C)
    BY EmptySeq DEF Start, Reads
  <1>4. PICK f \in [0..Len(chars) -> Reads(C)] : Loops(f, Start, step, Len(chars))
    <2> HIDE DEF step
    <2> QED
      BY <1>1, <1>2, <1>3, LoopExists
  <1>5. ASSUME NEW i \in 1..Len(chars)
        PROVE  step[i][f[i - 1]] = ShellReadsChar(f[i - 1], chars[i])
    <2>1. i - 1 \in 0..Len(chars)
      BY <1>1
    <2> QED
      BY <2>1
  <1>6. \A i \in 0..Len(chars) :
          f[i] = IF i = 0 THEN Start ELSE ShellReadsChar(f[i - 1], chars[i])
    <2> HIDE DEF step
    <2>1. \A i \in 0..Len(chars) : i # 0 => i \in 1..Len(chars)
      BY <1>1
    <2> QED
      BY <1>4, <1>5, <2>1 DEF Loops
  <1>7. IsReading(f, chars)
    BY <1>6 DEF IsReading
  <1> QED
    BY <1>7

\* And its result is where they end.
LEMMA ReadingEnds ==
  ASSUME NEW C, NEW chars \in Seq(C), NEW f, IsReading(f, chars)
  PROVE  ShellReads(chars) = f[Len(chars)]
  <1>1. PICK g : IsReading(g, chars) /\ ShellReads(chars) = g[Len(chars)]
    <2>1. \E g : IsReading(g, chars)
      BY ReadingExists
    <2> QED
      BY <2>1 DEF ShellReads, IsReading, Start
  <1>2. Len(chars) \in Nat
    BY LenProperties
  <1>3. /\ f[0] = Start /\ g[0] = Start
        /\ \A i \in 1..Len(chars) : /\ f[i] = ShellReadsChar(f[i - 1], chars[i])
                                    /\ g[i] = ShellReadsChar(g[i - 1], chars[i])
    BY <1>1, <1>2 DEF IsReading
  <1>4. \A i \in 0..Len(chars) : f[i] = g[i]
    <2>1. \A i \in 1..Len(chars) : f[i - 1] = g[i - 1] => f[i] = g[i]
      BY <1>3
    <2>2. f[0] = g[0]
      BY <1>3
    <2> QED
      BY <1>2, <2>1, <2>2, LoopUnique
  <1> QED
    BY <1>1, <1>2, <1>4

\* Nothing is read of nothing.
LEMMA ReadsNothing == ShellReads(<<>>) = Start
  <1>1. <<>> \in Seq({}) /\ Len(<<>>) = 0
    BY EmptySeq
  <1>2. PICK f : IsReading(f, <<>>)
    BY <1>1, ReadingExists
  <1>3. f[0] = Start
    BY <1>1, <1>2 DEF IsReading
  <1> QED
    BY <1>1, <1>2, <1>3, ReadingEnds

\* A text with one character more is read by reading that character last.
LEMMA ReadsOneMore ==
  ASSUME NEW C, NEW chars \in Seq(C), NEW ch \in C
  PROVE  ShellReads(Append(chars, ch)) = ShellReadsChar(ShellReads(chars), ch)
  <1> DEFINE n    == Len(chars)
             more == Append(chars, ch)
  <1>1. /\ n \in Nat /\ more \in Seq(C) /\ Len(more) = n + 1
        /\ \A i \in 1..n : more[i] = chars[i]
        /\ more[n + 1] = ch
    BY LenProperties, AppendProperties
  <1> HIDE DEF more
  <1>2. PICK g : IsReading(g, more)
    BY <1>1, ReadingExists
  <1>3. \A i \in 0..(n + 1) : g[i] = IF i = 0 THEN Start ELSE ShellReadsChar(g[i - 1], more[i])
    BY <1>1, <1>2 DEF IsReading
  <1> DEFINE f == [i \in 0..n |-> g[i]]
  <1>4. \A i \in 0..n : f[i] = IF i = 0 THEN Start ELSE ShellReadsChar(f[i - 1], chars[i])
    BY <1>1, <1>3
  <1>5. IsReading(f, chars)
    BY <1>4 DEF IsReading
  <1>6. ShellReads(chars) = g[n]
    <2>1. n \in 0..n
      BY <1>1
    <2>2. f[n] = g[n]
      BY <2>1
    <2> HIDE DEF f
    <2> QED
      BY <1>5, <2>2, ReadingEnds
  <1>7. ShellReads(more) = g[n + 1]
    BY <1>1, <1>2, ReadingEnds
  <1>8. g[n + 1] = ShellReadsChar(g[n], ch)
    <2>1. n + 1 \in 0..(n + 1) /\ n + 1 # 0 /\ (n + 1) - 1 = n
      BY <1>1
    <2> QED
      BY <1>1, <1>3, <2>1
  <1> QED
    BY <1>6, <1>7, <1>8 DEF more

\* What a shell reads of characters from C are characters from C.
LEMMA ReadsType ==
  ASSUME NEW C, NEW chars \in Seq(C)
  PROVE  ShellReads(chars) \in Reads(C)
  <1>1. PICK f \in [0..Len(chars) -> Reads(C)] : IsReading(f, chars)
    BY ReadingExists
  <1>2. Len(chars) \in 0..Len(chars)
    BY LenProperties
  <1> QED
    BY <1>1, <1>2, ReadingEnds

----------------------------------------------------------------------------
(* Quoting one. *)

\* The steps of QuoteChars.
IsQuoting(f, value) ==
  f = [i \in 0..Len(value) |-> IF i = 0 THEN <<>> ELSE f[i - 1] \o QuoteChar(value[i])]

\* A quoted character is made of itself, quotes and backslashes.
LEMMA QuoteCharType ==
  ASSUME NEW C, Quote \in C, Backslash \in C, NEW ch \in C
  PROVE  QuoteChar(ch) \in Seq(C)
  BY DEF QuoteChar

\* The quoting of every value has its steps.
LEMMA QuotingExists ==
  ASSUME NEW C, Quote \in C, Backslash \in C, NEW value \in Seq(C)
  PROVE  \E f \in [0..Len(value) -> Seq(C)] : IsQuoting(f, value)
  <1> DEFINE step == [i \in 1..Len(value) |-> [quoted \in Seq(C) |-> quoted \o QuoteChar(value[i])]]
  <1>1. Len(value) \in Nat /\ \A i \in 1..Len(value) : value[i] \in C
    BY ElementOfSeq, LenProperties
  <1>2. step \in [1..Len(value) -> [Seq(C) -> Seq(C)]]
    <2>1. ASSUME NEW i \in 1..Len(value), NEW quoted \in Seq(C)
          PROVE  quoted \o QuoteChar(value[i]) \in Seq(C)
      BY <1>1, QuoteCharType, ConcatProperties
    <2> QED
      BY <2>1
  <1>3. <<>> \in Seq(C)
    BY EmptySeq
  <1>4. PICK f \in [0..Len(value) -> Seq(C)] : Loops(f, <<>>, step, Len(value))
    <2> HIDE DEF step
    <2> QED
      BY <1>1, <1>2, <1>3, LoopExists
  <1>5. ASSUME NEW i \in 1..Len(value)
        PROVE  step[i][f[i - 1]] = f[i - 1] \o QuoteChar(value[i])
    <2>1. i - 1 \in 0..Len(value)
      BY <1>1
    <2> QED
      BY <2>1
  <1>6. \A i \in 0..Len(value) : f[i] = IF i = 0 THEN <<>> ELSE f[i - 1] \o QuoteChar(value[i])
    <2> HIDE DEF step
    <2>1. \A i \in 0..Len(value) : i # 0 => i \in 1..Len(value)
      BY <1>1
    <2> QED
      BY <1>4, <1>5, <2>1 DEF Loops
  <1>7. IsQuoting(f, value)
    BY <1>6 DEF IsQuoting
  <1> QED
    BY <1>7

\* And its result is where they end.
LEMMA QuotingEnds ==
  ASSUME NEW C, Quote \in C, Backslash \in C, NEW value \in Seq(C), NEW f, IsQuoting(f, value)
  PROVE  QuoteChars(value) = f[Len(value)]
  <1>1. PICK g : IsQuoting(g, value) /\ QuoteChars(value) = g[Len(value)]
    <2>1. \E g : IsQuoting(g, value)
      BY QuotingExists
    <2> QED
      BY <2>1 DEF QuoteChars, IsQuoting
  <1>2. Len(value) \in Nat
    BY LenProperties
  <1>3. /\ f[0] = <<>> /\ g[0] = <<>>
        /\ \A i \in 1..Len(value) : /\ f[i] = f[i - 1] \o QuoteChar(value[i])
                                    /\ g[i] = g[i - 1] \o QuoteChar(value[i])
    BY <1>1, <1>2 DEF IsQuoting
  <1>4. \A i \in 0..Len(value) : f[i] = g[i]
    <2>1. \A i \in 1..Len(value) : f[i - 1] = g[i - 1] => f[i] = g[i]
      BY <1>3
    <2>2. f[0] = g[0]
      BY <1>3
    <2> QED
      BY <1>2, <2>1, <2>2, LoopUnique
  <1> QED
    BY <1>1, <1>2, <1>4

\* Nothing is quoted as nothing.
LEMMA QuotesNothing == QuoteChars(<<>>) = <<>>
  <1>1. <<>> \in Seq({Quote, Backslash}) /\ Len(<<>>) = 0
    BY EmptySeq
  <1>2. PICK f : IsQuoting(f, <<>>)
    BY <1>1, QuotingExists
  <1>3. f[0] = <<>>
    BY <1>1, <1>2 DEF IsQuoting
  <1> QED
    BY <1>1, <1>2, <1>3, QuotingEnds

\* A value with one character more is quoted by quoting that character last.
LEMMA QuotesOneMore ==
  ASSUME NEW C, Quote \in C, Backslash \in C, NEW value \in Seq(C), NEW ch \in C
  PROVE  QuoteChars(Append(value, ch)) = QuoteChars(value) \o QuoteChar(ch)
  <1> DEFINE n    == Len(value)
             more == Append(value, ch)
  <1>1. /\ n \in Nat /\ more \in Seq(C) /\ Len(more) = n + 1
        /\ \A i \in 1..n : more[i] = value[i]
        /\ more[n + 1] = ch
    BY LenProperties, AppendProperties
  <1> HIDE DEF more
  <1>2. PICK g : IsQuoting(g, more)
    BY <1>1, QuotingExists
  <1>3. \A i \in 0..(n + 1) : g[i] = IF i = 0 THEN <<>> ELSE g[i - 1] \o QuoteChar(more[i])
    BY <1>1, <1>2 DEF IsQuoting
  <1> DEFINE f == [i \in 0..n |-> g[i]]
  <1>4. \A i \in 0..n : f[i] = IF i = 0 THEN <<>> ELSE f[i - 1] \o QuoteChar(value[i])
    BY <1>1, <1>3
  <1>5. IsQuoting(f, value)
    BY <1>4 DEF IsQuoting
  <1>6. QuoteChars(value) = g[n]
    <2>1. n \in 0..n
      BY <1>1
    <2>2. f[n] = g[n]
      BY <2>1
    <2> HIDE DEF f
    <2> QED
      BY <1>5, <2>2, QuotingEnds
  <1>7. QuoteChars(more) = g[n + 1]
    BY <1>1, <1>2, QuotingEnds
  <1>8. g[n + 1] = g[n] \o QuoteChar(ch)
    <2>1. n + 1 \in 0..(n + 1) /\ n + 1 # 0 /\ (n + 1) - 1 = n
      BY <1>1
    <2> QED
      BY <1>1, <1>3, <2>1
  <1> QED
    BY <1>6, <1>7, <1>8 DEF more

\* Quoting adds nothing but quotes and backslashes.
LEMMA QuotesType ==
  ASSUME NEW C, Quote \in C, Backslash \in C, NEW value \in Seq(C)
  PROVE  QuoteChars(value) \in Seq(C)
  <1>1. PICK f \in [0..Len(value) -> Seq(C)] : IsQuoting(f, value)
    BY QuotingExists
  <1>2. Len(value) \in 0..Len(value)
    BY LenProperties
  <1> QED
    BY <1>1, <1>2, QuotingEnds

----------------------------------------------------------------------------
(* Reading a quoted value. *)

\* Whatever was read, a quoted character of a value is read as that character.
LEMMA QuotedCharIsRead ==
  ASSUME NEW C, Quote \in C, Backslash \in C, NEW chars \in Seq(C), NEW word \in Seq(C),
         NEW ch \in C, ShellReads(chars) = [at |-> "quoted", word |-> word]
  PROVE  ShellReads(chars \o QuoteChar(ch)) = [at |-> "quoted", word |-> Append(word, ch)]
  <1>1. CASE ch # Quote
    <2>1. chars \o QuoteChar(ch) = Append(chars, ch)
      BY <1>1, AppendIsConcat DEF QuoteChar
    <2>2. ShellReads(chars \o QuoteChar(ch))
            = ShellReadsChar([at |-> "quoted", word |-> word], ch)
      BY <2>1, ReadsOneMore
    <2> QED
      BY <1>1, <2>2 DEF ShellReadsChar
  <1>2. CASE ch = Quote
    <2> DEFINE c1 == Append(chars, Quote)
               c2 == Append(c1, Backslash)
               c3 == Append(c2, Quote)
               c4 == Append(c3, Quote)
    <2>1. c1 \in Seq(C) /\ c2 \in Seq(C) /\ c3 \in Seq(C)
      BY AppendProperties
    <2>2. chars \o QuoteChar(ch) = c4
      <3>1. /\ <<Quote>> \in Seq(C) /\ <<Backslash>> \in Seq(C)
            /\ QuoteChar(ch) \in Seq(C)
            /\ QuoteChar(ch) = <<Quote, Backslash, Quote, Quote>>
        BY <1>2 DEF QuoteChar
      <3>2. /\ c4 \in Seq(C) /\ Len(c4) = Len(chars) + 4
            /\ Len(chars) \in Nat
            /\ \A i \in 1..Len(chars) : c4[i] = chars[i]
            /\ c4[Len(chars) + 1] = Quote /\ c4[Len(chars) + 2] = Backslash
            /\ c4[Len(chars) + 3] = Quote /\ c4[Len(chars) + 4] = Quote
        BY <2>1, AppendProperties, LenProperties
      <3>3. /\ chars \o QuoteChar(ch) \in Seq(C)
            /\ Len(chars \o QuoteChar(ch)) = Len(chars) + 4
            /\ \A i \in 1..Len(chars) : (chars \o QuoteChar(ch))[i] = chars[i]
            /\ \A i \in 1..4 : (chars \o QuoteChar(ch))[Len(chars) + i] = QuoteChar(ch)[i]
        BY <3>1, ConcatProperties, LenProperties
      <3> HIDE DEF c4
      <3>4. \A i \in 1..(Len(chars) + 4) : (chars \o QuoteChar(ch))[i] = c4[i]
        BY <3>1, <3>2, <3>3
      <3> QED
        BY <3>2, <3>3, <3>4, SeqEqual
    <2>3. Quote # Backslash /\ Quote # " " /\ Backslash # " "
      BY DEF Quote, Backslash
    <2>4. ShellReads(c1) = [at |-> "bare", word |-> word]
      <3>1. ShellReads(c1) = ShellReadsChar([at |-> "quoted", word |-> word], Quote)
        BY ReadsOneMore
      <3> QED
        BY <3>1 DEF ShellReadsChar
    <2>5. ShellReads(c2) = [at |-> "escaped", word |-> word]
      <3>1. ShellReads(c2) = ShellReadsChar([at |-> "bare", word |-> word], Backslash)
        BY <2>1, <2>4, ReadsOneMore
      <3> QED
        BY <2>3, <3>1 DEF ShellReadsChar
    <2>6. ShellReads(c3) = [at |-> "bare", word |-> Append(word, Quote)]
      <3>1. ShellReads(c3) = ShellReadsChar([at |-> "escaped", word |-> word], Quote)
        BY <2>1, <2>5, ReadsOneMore
      <3> QED
        BY <3>1 DEF ShellReadsChar
    <2>7. ShellReads(c4) = [at |-> "quoted", word |-> Append(word, Quote)]
      <3>1. ShellReads(c4) = ShellReadsChar([at |-> "bare", word |-> Append(word, Quote)], Quote)
        BY <2>1, <2>6, ReadsOneMore
      <3> QED
        BY <3>1 DEF ShellReadsChar
    <2> QED
      BY <1>2, <2>2, <2>7
  <1> QED
    BY <1>1, <1>2

\* The same after the opening quote.
LEMMA OpenedOneMore ==
  ASSUME NEW C, Quote \in C, Backslash \in C, NEW value \in Seq(C), NEW ch \in C
  PROVE  <<Quote>> \o QuoteChars(Append(value, ch)) = (<<Quote>> \o QuoteChars(value)) \o QuoteChar(ch)
  <1>1. QuoteChars(Append(value, ch)) = QuoteChars(value) \o QuoteChar(ch)
    BY QuotesOneMore
  <1>2. QuoteChars(value) \in Seq(C) /\ QuoteChar(ch) \in Seq(C) /\ <<Quote>> \in Seq(C)
    BY QuotesType, QuoteCharType
  <1>3. <<Quote>> \o (QuoteChars(value) \o QuoteChar(ch)) = (<<Quote>> \o QuoteChars(value)) \o QuoteChar(ch)
    BY <1>2, ConcatAssociative
  <1> QED
    BY <1>1, <1>3

\* A value is quoted so that a shell reads that value, and one word.
LEMMA QuotedIsRead ==
  ASSUME NEW C, Quote \in C, Backslash \in C, NEW value \in Seq(C)
  PROVE  ShellReads(ShellQuote(value)) = [at |-> "bare", word |-> value]
  <1> DEFINE Opened(v) == <<Quote>> \o QuoteChars(v)
             T == {n \in Nat : \A v \in Seq(C) :
                     Len(v) = n => ShellReads(Opened(v)) = [at |-> "quoted", word |-> v]}
  <1>1. \A v \in Seq(C) : Opened(v) \in Seq(C)
    BY QuotesType, ConcatProperties
  <1>2. 0 \in T
    <2>1. ASSUME NEW v \in Seq(C), Len(v) = 0
          PROVE  ShellReads(Opened(v)) = [at |-> "quoted", word |-> v]
      <3>1. v = <<>> /\ <<>> \in Seq(C)
        BY <2>1, EmptySeq
      <3>2. Opened(v) = Append(<<>>, Quote)
        <4>1. Append(<<>>, Quote) = <<>> \o <<Quote>> /\ <<Quote>> \in Seq(C)
          BY <3>1, AppendIsConcat
        <4> QED
          BY <3>1, <4>1, QuotesNothing, ConcatEmptySeq
      <3>3. ShellReads(Opened(v)) = ShellReadsChar(Start, Quote)
        BY <3>1, <3>2, ReadsOneMore, ReadsNothing
      <3> QED
        BY <3>1, <3>3 DEF ShellReadsChar, Start
    <2> QED
      BY <2>1
  <1>3. ASSUME NEW n \in T PROVE n + 1 \in T
    <2> SUFFICES ASSUME NEW v \in Seq(C), Len(v) = n + 1
                 PROVE  ShellReads(Opened(v)) = [at |-> "quoted", word |-> v]
      OBVIOUS
    <2>1. PICK w \in Seq(C), ch \in C : v = Append(w, ch)
      <3>1. v # <<>>
        BY EmptySeq
      <3> QED
        BY <3>1, SequenceEmptyOrAppend
    <2>2. Len(w) = n
      BY <2>1, LenProperties, AppendProperties
    <2>3. ShellReads(Opened(w)) = [at |-> "quoted", word |-> w]
      BY <2>2
    <2>4. Opened(v) = Opened(w) \o QuoteChar(ch)
      BY <2>1, OpenedOneMore
    <2>5. ShellReads(Opened(w) \o QuoteChar(ch)) = [at |-> "quoted", word |-> Append(w, ch)]
      <3>1. Opened(w) \in Seq(C)
        BY <1>1
      <3> HIDE DEF Opened, T
      <3> QED
        BY <2>3, <3>1, QuotedCharIsRead
    <2> QED
      BY <2>1, <2>4, <2>5
  <1>4. T = Nat
    <2> HIDE DEF T
    <2>1. T \in SUBSET Nat
      BY DEF T
    <2> QED
      BY <1>2, <1>3, <2>1, SetInduction
  <1>5. ShellReads(Opened(value)) = [at |-> "quoted", word |-> value]
    <2>1. Len(value) \in T
      BY <1>4, LenProperties
    <2> QED
      BY <2>1
  <1> HIDE DEF T
  <1>6. ShellQuote(value) = Append(Opened(value), Quote)
    <2>1. /\ <<Quote>> \in Seq(C) /\ QuoteChars(value) \in Seq(C)
      BY QuotesType
    <2> QED
      BY <1>1, <2>1, AppendIsConcat, ConcatAssociative DEF ShellQuote
  <1>7. ShellReads(ShellQuote(value)) = ShellReadsChar([at |-> "quoted", word |-> value], Quote)
    BY <1>1, <1>5, <1>6, ReadsOneMore
  <1> QED
    BY <1>7 DEF ShellReadsChar

----------------------------------------------------------------------------
(* The --field arguments: splitting one, and collecting the fields of them all. *)

\* An argument is split at its first equals sign.
LEMMA FirstEquals ==
  ASSUME NEW C, NEW arg \in Seq(C), \E j \in DOMAIN arg : IsEquals(arg[j])
  PROVE  \E p \in 1..Len(arg) :
           /\ arg[p] = "=" /\ \A j \in 1..Len(arg) : j < p => arg[j] # "="
           /\ ParseField(arg) = [key |-> SubSeq(arg, 1, p - 1), value |-> SubSeq(arg, p + 1, Len(arg))]
  <1> DEFINE I == {i \in 1..Len(arg) : IsEquals(arg[i])}
             p == Min(I)
  <1>1. I \in SUBSET Nat /\ I # {}
    BY LenProperties
  <1>2. p \in I /\ \A y \in I : p <= y
    <2> HIDE DEF I
    <2>1. \E x \in I : \A y \in I : x <= y
      BY <1>1, LeastNumber
    <2> QED
      BY <2>1 DEF Min
  <1>3. SelectInSeq(arg, IsEquals) = p
    BY <1>1 DEF SelectInSeq
  <1>4. ParseField(arg) = [key |-> SubSeq(arg, 1, p - 1), value |-> SubSeq(arg, p + 1, Len(arg))]
    BY <1>3 DEF ParseField
  <1>5. p \in 1..Len(arg) /\ arg[p] = "="
    BY <1>2 DEF IsEquals
  <1>6. ASSUME NEW j \in 1..Len(arg), j < p PROVE arg[j] # "="
    <2>1. j \notin I
      <3>1. j \in Nat /\ p \in Nat
        BY <1>1, <1>2, LenProperties
      <3> HIDE DEF p, I
      <3> QED
        BY <1>2, <1>6, <3>1
    <2> QED
      BY <2>1 DEF IsEquals
  <1> HIDE DEF p
  <1> QED
    BY <1>4, <1>5, <1>6

\* What is accepted of characters from C: a pair.
Pairs(C) == {arg \in Seq(C) : \E j \in DOMAIN arg : IsEquals(arg[j])}

\* The two halves make up the argument, and the first has no equals sign.
LEMMA PairIsSplit ==
  ASSUME NEW C, NEW arg \in Pairs(C)
  PROVE  /\ ParseField(arg) \in [key : Seq(C), value : Seq(C)]
         /\ arg = ParseField(arg).key \o <<"=">> \o ParseField(arg).value
         /\ \A j \in 1..Len(ParseField(arg).key) : ParseField(arg).key[j] # "="
  <1>1. arg \in Seq(C) /\ Len(arg) \in Nat /\ \A i \in 1..Len(arg) : arg[i] \in C
    BY LenProperties, ElementOfSeq DEF Pairs
  <1>2. PICK p \in 1..Len(arg) :
          /\ arg[p] = "=" /\ \A j \in 1..Len(arg) : j < p => arg[j] # "="
          /\ ParseField(arg) = [key |-> SubSeq(arg, 1, p - 1), value |-> SubSeq(arg, p + 1, Len(arg))]
    BY FirstEquals DEF Pairs
  <1> DEFINE key   == SubSeq(arg, 1, p - 1)
             value == SubSeq(arg, p + 1, Len(arg))
  <1>3. ParseField(arg).key = key /\ ParseField(arg).value = value
    BY <1>2
  <1>4. /\ key \in Seq(C) /\ Len(key) = p - 1 /\ \A j \in 1..(p - 1) : key[j] = arg[j]
    <2>1. p \in Nat /\ p - 1 \in Int /\ 1 \in Int /\ (p - 1) - 1 + 1 = p - 1 /\ 1 <= p
      BY <1>1
    <2>2. \A i \in 1..(p - 1) : arg[i] \in C
      BY <1>1
    <2>3. /\ key \in Seq(C) /\ Len(key) = IF 1 <= p - 1 THEN p - 1 - 1 + 1 ELSE 0
          /\ \A i \in 1..(p - 1 - 1 + 1) : key[i] = arg[1 + i - 1]
      BY <2>1, <2>2, SubSeqProperties
    <2> HIDE DEF key
    <2>4. Len(key) = p - 1
      BY <2>1, <2>3
    <2>5. ASSUME NEW j \in 1..(p - 1) PROVE key[j] = arg[j]
      <3>1. j \in 1..(p - 1 - 1 + 1) /\ 1 + j - 1 = j
        BY <2>1
      <3> QED
        BY <2>3, <3>1
    <2> QED
      BY <2>3, <2>4, <2>5
  <1>5. value \in Seq(C)
    <2>1. p + 1 \in Int /\ Len(arg) \in Int /\ \A i \in (p + 1)..Len(arg) : arg[i] \in C
      BY <1>1
    <2> QED
      BY <2>1, SubSeqProperties
  <1>6. arg = key \o <<"=">> \o value
    <2>1. SubSeq(arg, 1, p) = key \o <<"=">>
      <3>1. 1 \in 1..Len(arg) /\ p \in 1..Len(arg)
        BY <1>1
      <3> QED
        BY <1>1, <1>2, <3>1, SubSeqRecursiveSecond
    <2>2. SubSeq(arg, 1, p) \o value = SubSeq(arg, 1, Len(arg))
      <3>1. 1 \in 1..(Len(arg) + 1) /\ p \in (1 - 1)..Len(arg) /\ Len(arg) \in p..Len(arg)
        BY <1>1
      <3> QED
        BY <1>1, <3>1, ConcatAdjacentSubSeq
    <2>3. SubSeq(arg, 1, Len(arg)) = arg
      BY <1>1, SubSeqFull
    <2> QED
      BY <2>1, <2>2, <2>3
  <1>7. \A j \in 1..Len(key) : key[j] # "="
    <2> HIDE DEF key
    <2>1. ASSUME NEW j \in 1..(p - 1) PROVE arg[j] # "="
      <3>1. j \in 1..Len(arg) /\ j < p
        BY <1>1
      <3> QED
        BY <1>2, <3>1
    <2> QED
      BY <1>4, <2>1
  <1>8. ParseField(arg) \in [key : Seq(C), value : Seq(C)]
    BY <1>2, <1>4, <1>5
  <1> HIDE DEF key, value
  <1> QED
    BY <1>3, <1>6, <1>7, <1>8

\* A pair that begins with a name without equals sign, and an equals sign, has that name.
LEMMA PairBegins ==
  ASSUME NEW C, NEW arg \in Pairs(C), "=" \in C, NEW name \in Seq(C),
         \A j \in 1..Len(name) : name[j] # "=", IsPrefix(name \o <<"=">>, arg)
  PROVE  ParseField(arg).key = name
  <1> DEFINE n   == Len(name)
             pre == name \o <<"=">>
  <1>1. arg \in Seq(C) /\ Len(arg) \in Nat /\ \A i \in 1..Len(arg) : arg[i] \in C
    BY LenProperties, ElementOfSeq DEF Pairs
  <1>2. n \in Nat
    BY LenProperties
  <1>3. /\ pre \in Seq(C) /\ Len(pre) = n + 1
        /\ \A i \in 1..n : pre[i] = name[i]
        /\ pre[n + 1] = "="
    <2>1. pre = Append(name, "=")
      BY AppendIsConcat
    <2> HIDE DEF pre
    <2> QED
      BY <2>1, AppendProperties
  <1> HIDE DEF pre
  <1>4. n + 1 <= Len(arg) /\ SubSeq(pre, 1, n + 1) = SubSeq(arg, 1, n + 1)
    BY <1>3 DEF IsPrefix, pre
  <1>5. ASSUME NEW i \in 1..(n + 1) PROVE arg[i] = pre[i]
    <2>1. /\ n + 1 \in Int /\ 1 \in Int /\ i \in 1..((n + 1) - 1 + 1) /\ 1 + i - 1 = i
          /\ \A k \in 1..(n + 1) : k \in 1..Len(arg) /\ k \in 1..Len(pre)
      BY <1>1, <1>2, <1>3, <1>4
    <2>2. \A k \in 1..(n + 1) : arg[k] \in C /\ pre[k] \in C
      BY <1>1, <1>3, <2>1, ElementOfSeq
    <2>3. SubSeq(pre, 1, n + 1)[i] = pre[i]
      BY <2>1, <2>2, SubSeqProperties
    <2>4. SubSeq(arg, 1, n + 1)[i] = arg[i]
      BY <2>1, <2>2, SubSeqProperties
    <2> QED
      BY <1>4, <2>3, <2>4
  <1>6. arg[n + 1] = "=" /\ \A i \in 1..n : arg[i] = name[i] /\ arg[i] # "="
    BY <1>2, <1>3, <1>5
  <1>7. PICK p \in 1..Len(arg) :
          /\ arg[p] = "=" /\ \A j \in 1..Len(arg) : j < p => arg[j] # "="
          /\ ParseField(arg) = [key |-> SubSeq(arg, 1, p - 1), value |-> SubSeq(arg, p + 1, Len(arg))]
    BY FirstEquals DEF Pairs
  <1>8. p = n + 1
    <2>1. p \in Nat /\ p # 0 /\ n + 1 \in 1..Len(arg)
      BY <1>1, <1>2, <1>4
    <2>2. ~(n + 1 < p)
      BY <1>6, <1>7, <2>1
    <2>3. ~(p \in 1..n)
      BY <1>6, <1>7
    <2> QED
      BY <1>2, <2>1, <2>2, <2>3
  <1>9. SubSeq(arg, 1, n) = name
    <2>1. \A i \in 1..n : arg[i] \in C
      BY <1>1, <1>2, <1>4
    <2>2. n \in Int /\ 1 \in Int /\ n - 1 + 1 = n /\ \A i \in 1..n : 1 + i - 1 = i
      BY <1>2
    <2> DEFINE sub == SubSeq(arg, 1, n)
    <2>3. /\ sub \in Seq(C) /\ Len(sub) = IF 1 <= n THEN n - 1 + 1 ELSE 0
          /\ \A i \in 1..(n - 1 + 1) : sub[i] = arg[1 + i - 1]
      BY <2>1, <2>2, SubSeqProperties
    <2> HIDE DEF sub
    <2>4. Len(sub) = n
      BY <1>2, <2>2, <2>3
    <2>5. \A i \in 1..n : sub[i] = name[i]
      BY <1>6, <2>2, <2>3
    <2>6. sub = name
      BY <2>3, <2>4, <2>5, SeqEqual
    <2> QED
      BY <2>6 DEF sub
  <1>10. p - 1 = n
    BY <1>2, <1>8
  <1> QED
    BY <1>7, <1>9, <1>10

\* What secret put makes of its arguments.
Maps(C) == UNION {[D -> Seq(C)] : D \in SUBSET Seq(C)}

NoFields == [key \in {} |-> <<>>]

\* The steps of ParseKeyValueFields.
IsParsing(f, pairs) ==
  f = [i \in 0..Len(pairs) |-> IF i = 0 THEN NoFields ELSE InsertField(f[i - 1], ParseField(pairs[i]))]

\* Inserting a field makes a map of fields again.
LEMMA InsertFieldType ==
  ASSUME NEW C, NEW fields \in Maps(C), NEW field \in [key : Seq(C), value : Seq(C)]
  PROVE  InsertField(fields, field) \in Maps(C)
  <1>1. PICK D \in SUBSET Seq(C) : fields \in [D -> Seq(C)]
    BY DEF Maps
  <1>2. InsertField(fields, field) \in [D \cup {field.key} -> Seq(C)]
    BY <1>1 DEF InsertField
  <1>3. D \cup {field.key} \in SUBSET Seq(C)
    OBVIOUS
  <1> QED
    BY <1>2, <1>3 DEF Maps

\* The parsing of every list of pairs has its steps.
LEMMA ParsingExists ==
  ASSUME NEW C, NEW pairs \in Seq(Pairs(C))
  PROVE  \E f \in [0..Len(pairs) -> Maps(C)] : IsParsing(f, pairs)
  <1> DEFINE step == [i \in 1..Len(pairs) |->
                        [fields \in Maps(C) |-> InsertField(fields, ParseField(pairs[i]))]]
  <1>1. Len(pairs) \in Nat /\ \A i \in 1..Len(pairs) : pairs[i] \in Pairs(C)
    BY ElementOfSeq, LenProperties
  <1>2. step \in [1..Len(pairs) -> [Maps(C) -> Maps(C)]]
    <2>1. ASSUME NEW i \in 1..Len(pairs), NEW fields \in Maps(C)
          PROVE  InsertField(fields, ParseField(pairs[i])) \in Maps(C)
      BY <1>1, PairIsSplit, InsertFieldType
    <2> QED
      BY <2>1
  <1>3. NoFields \in Maps(C)
    <2>1. NoFields \in [{} -> Seq(C)] /\ {} \in SUBSET Seq(C)
      BY DEF NoFields
    <2> QED
      BY <2>1 DEF Maps
  <1>4. PICK f \in [0..Len(pairs) -> Maps(C)] : Loops(f, NoFields, step, Len(pairs))
    <2> HIDE DEF step
    <2> QED
      BY <1>1, <1>2, <1>3, LoopExists
  <1>5. ASSUME NEW i \in 1..Len(pairs)
        PROVE  step[i][f[i - 1]] = InsertField(f[i - 1], ParseField(pairs[i]))
    <2>1. i - 1 \in 0..Len(pairs)
      BY <1>1
    <2> QED
      BY <2>1
  <1>6. \A i \in 0..Len(pairs) :
          f[i] = IF i = 0 THEN NoFields ELSE InsertField(f[i - 1], ParseField(pairs[i]))
    <2> HIDE DEF step
    <2>1. \A i \in 0..Len(pairs) : i # 0 => i \in 1..Len(pairs)
      BY <1>1
    <2> QED
      BY <1>4, <1>5, <2>1 DEF Loops
  <1>7. IsParsing(f, pairs)
    BY <1>6 DEF IsParsing
  <1> QED
    BY <1>7

\* After i arguments, each field is one of them and none of those that follow it, and
\* each of them has its field.
HoldsLast(fields, pairs, i) ==
  /\ \A key \in DOMAIN fields : \E j \in 1..i :
       /\ ParseField(pairs[j]).key = key
       /\ ParseField(pairs[j]).value = fields[key]
       /\ \A k \in 1..i : k > j => ParseField(pairs[k]).key # key
  /\ \A j \in 1..i : ParseField(pairs[j]).key \in DOMAIN fields

\* One more argument replaces the field of its name, and no other.
LEMMA InsertHoldsLast ==
  ASSUME NEW C, NEW pairs \in Seq(Pairs(C)), NEW i \in 0..(Len(pairs) - 1), NEW fields \in Maps(C),
         HoldsLast(fields, pairs, i)
  PROVE  HoldsLast(InsertField(fields, ParseField(pairs[i + 1])), pairs, i + 1)
  <1> DEFINE field == ParseField(pairs[i + 1])
             more  == InsertField(fields, field)
  <1>1. Len(pairs) \in Nat /\ i \in Nat /\ i + 1 \in 1..(i + 1)
    BY LenProperties
  <1>2. DOMAIN more = DOMAIN fields \cup {field.key}
    BY DEF InsertField
  <1>3. ASSUME NEW key \in DOMAIN more
        PROVE  \E j \in 1..(i + 1) :
                 /\ ParseField(pairs[j]).key = key
                 /\ ParseField(pairs[j]).value = more[key]
                 /\ \A k \in 1..(i + 1) : k > j => ParseField(pairs[k]).key # key
    <2>1. CASE key = field.key
      <3>1. more[key] = field.value
        BY <2>1 DEF InsertField
      <3>2. \A k \in 1..(i + 1) : ~(k > i + 1)
        BY <1>1
      <3> QED
        BY <1>1, <2>1, <3>1, <3>2
    <2>2. CASE key # field.key
      <3>1. key \in DOMAIN fields /\ more[key] = fields[key]
        BY <1>2, <2>2 DEF InsertField
      <3>2. PICK j \in 1..i :
              /\ ParseField(pairs[j]).key = key
              /\ ParseField(pairs[j]).value = fields[key]
              /\ \A k \in 1..i : k > j => ParseField(pairs[k]).key # key
        BY <3>1 DEF HoldsLast
      <3>3. j \in 1..(i + 1) /\ \A k \in 1..(i + 1) : k = i + 1 \/ k \in 1..i
        BY <1>1
      <3> HIDE DEF more
      <3>4. ASSUME NEW k \in 1..(i + 1), k > j PROVE ParseField(pairs[k]).key # key
        BY <2>2, <3>2, <3>3, <3>4
      <3> QED
        BY <3>1, <3>2, <3>3, <3>4
    <2> QED
      BY <2>1, <2>2
  <1>4. ASSUME NEW j \in 1..(i + 1) PROVE ParseField(pairs[j]).key \in DOMAIN more
    <2>1. j = i + 1 \/ j \in 1..i
      BY <1>1
    <2> QED
      BY <1>2, <2>1 DEF HoldsLast
  <1> HIDE DEF more
  <1>5. HoldsLast(more, pairs, i + 1)
    BY <1>3, <1>4 DEF HoldsLast
  <1> QED
    BY <1>5 DEF more

\* So does the whole loop.
LEMMA ParsedHoldsLast ==
  ASSUME NEW C, NEW pairs \in Seq(Pairs(C))
  PROVE  /\ ParseKeyValueFields(pairs) \in Maps(C)
         /\ HoldsLast(ParseKeyValueFields(pairs), pairs, Len(pairs))
  <1> DEFINE n == Len(pairs)
  <1>1. n \in Nat
    BY LenProperties
  <1>2. PICK g : IsParsing(g, pairs) /\ ParseKeyValueFields(pairs) = g[n]
    <2>1. \E g : IsParsing(g, pairs)
      BY ParsingExists
    <2> QED
      BY <2>1 DEF ParseKeyValueFields, IsParsing, NoFields
  <1>3. PICK f \in [0..n -> Maps(C)] : IsParsing(f, pairs)
    BY ParsingExists
  <1>4. /\ f[0] = NoFields /\ g[0] = NoFields
        /\ \A i \in 1..n : /\ f[i] = InsertField(f[i - 1], ParseField(pairs[i]))
                           /\ g[i] = InsertField(g[i - 1], ParseField(pairs[i]))
    BY <1>1, <1>2, <1>3 DEF IsParsing
  <1>5. \A i \in 0..n : f[i] = g[i]
    <2>1. \A i \in 1..n : f[i - 1] = g[i - 1] => f[i] = g[i]
      BY <1>4
    <2>2. f[0] = g[0]
      BY <1>4
    <2> QED
      BY <1>1, <2>1, <2>2, LoopUnique
  <1> DEFINE T == {i \in Nat : i <= n => HoldsLast(f[i], pairs, i)}
  <1>6. 0 \in T
    BY <1>4 DEF HoldsLast, NoFields
  <1>7. ASSUME NEW i \in T PROVE i + 1 \in T
    <2> SUFFICES ASSUME i + 1 <= n PROVE HoldsLast(f[i + 1], pairs, i + 1)
      OBVIOUS
    <2>1. i \in 0..(n - 1) /\ f[i] \in Maps(C) /\ HoldsLast(f[i], pairs, i)
      BY <1>1
    <2>2. f[i + 1] = InsertField(f[i], ParseField(pairs[i + 1]))
      <3>1. i + 1 \in 1..n /\ (i + 1) - 1 = i
        BY <1>1
      <3> QED
        BY <1>4, <3>1
    <2> HIDE DEF T
    <2> QED
      BY <2>1, <2>2, InsertHoldsLast
  <1>8. HoldsLast(f[n], pairs, n) /\ f[n] \in Maps(C)
    <2>1. T \in SUBSET Nat
      OBVIOUS
    <2> HIDE DEF T
    <2>2. T = Nat
      BY <1>6, <1>7, <2>1, SetInduction
    <2>3. n \in T
      BY <1>1, <2>2
    <2> QED
      BY <1>1, <2>3 DEF T
  <1>9. ParseKeyValueFields(pairs) = f[n]
    BY <1>1, <1>2, <1>5
  <1> QED
    BY <1>8, <1>9

----------------------------------------------------------------------------
(* Selections. *)

\* Positions count from 1 to the number of ids.
LEMMA PositionIsIndex ==
  ASSUME NEW S \in SUBSET Nat, IsFiniteSet(S), NEW x \in S
  PROVE  Position(S, x) \in 1..Cardinality(S)
  <1> DEFINE upto == {y \in S : y <= x}
  <1>1. upto \in SUBSET S /\ x \in upto
    OBVIOUS
  <1>2. IsFiniteSet(upto) /\ Cardinality(upto) <= Cardinality(S)
    BY <1>1, FS_Subset
  <1>3. Cardinality(upto) # 0 /\ Cardinality(upto) \in Nat /\ Cardinality(S) \in Nat
    BY <1>1, <1>2, FS_EmptySet, FS_CardinalityType
  <1> QED
    BY <1>2, <1>3 DEF Position

\* And ascend with them.
LEMMA PositionAscends ==
  ASSUME NEW S \in SUBSET Nat, IsFiniteSet(S), NEW x \in S, NEW y \in S, x < y
  PROVE  Position(S, x) < Position(S, y)
  <1> DEFINE below == {z \in S : z <= x}
             upto  == {z \in S : z <= y}
  <1>1. upto \in SUBSET S /\ below \in SUBSET upto /\ y \in upto /\ y \notin below
    <2>1. x \in Nat /\ y \in Nat /\ S \subseteq Nat
      OBVIOUS
    <2>2. ASSUME NEW z \in S, z <= x PROVE z <= y
      BY <2>1, <2>2
    <2>3. below \subseteq upto
      BY <2>2
    <2>4. y <= y /\ ~(y <= x)
      BY <2>1
    <2> QED
      BY <2>3, <2>4
  <1>2. IsFiniteSet(upto)
    BY <1>1, FS_Subset
  <1>3. /\ IsFiniteSet(below) /\ Cardinality(below) <= Cardinality(upto)
        /\ Cardinality(below) # Cardinality(upto)
    BY <1>1, <1>2, FS_Subset
  <1>4. Cardinality(below) \in Nat /\ Cardinality(upto) \in Nat
    BY <1>2, <1>3, FS_CardinalityType
  <1> QED
    BY <1>3, <1>4 DEF Position

\* The i-th line shows the id at position i: as many ids are not above it as there are
\* lines down to it.
LEMMA LineHasPosition ==
  ASSUME NEW S \in SUBSET Nat, IsFiniteSet(S), NEW lines \in Views(S),
         NEW i \in 1..Cardinality(S)
  PROVE  Position(S, lines[i]) = i
  <1> DEFINE n    == Cardinality(S)
             upto == {y \in S : y <= lines[i]}
             down == [k \in 1..i |-> lines[k]]
  <1>1. n \in Nat
    BY FS_CardinalityType
  <1>2. IsFiniteSet(1..n) /\ Cardinality(1..n) = n
    BY <1>1, FS_Interval
  <1>3. lines \in Injection(1..n, S)
    <2>1. ASSUME NEW j \in 1..n, NEW k \in 1..n, lines[j] = lines[k] PROVE j = k
      <3> HIDE DEF n
      <3>1. j \in Nat /\ k \in Nat
        BY <1>1
      <3>2. lines[j] \in Nat /\ lines[k] \in Nat
        BY DEF Views, n
      <3>3. ~(j < k) /\ ~(k < j)
        BY <2>1, <3>1, <3>2 DEF Views, n
      <3> QED
        BY <3>1, <3>3
    <2> QED
      BY <2>1 DEF Views, Injection, IsInjective
  <1>4. lines \in Surjection(1..n, S)
    BY <1>2, <1>3, FS_Injection
  <1>5. \A x \in S : \E k \in 1..n : lines[k] = x
    BY <1>4 DEF Surjection
  <1>6. ASSUME NEW k \in 1..n PROVE lines[k] <= lines[i] <=> k <= i
    <2>1. lines[k] \in Nat /\ lines[i] \in Nat
      BY DEF Views
    <2>2. /\ k < i => lines[k] < lines[i]
          /\ i < k => lines[i] < lines[k]
      BY DEF Views
    <2>3. k \in Nat /\ i \in Nat
      BY <1>1
    <2> QED
      BY <2>1, <2>2, <2>3
  <1>7. down \in Bijection(1..i, upto)
    <2>1. down \in [1..i -> upto]
      BY <1>1, <1>6 DEF Views
    <2>2. \A j, k \in 1..i : down[j] = down[k] => j = k
      BY <1>1, <1>3 DEF Injection, IsInjective
    <2>3. \A x \in upto : \E k \in 1..i : down[k] = x
      BY <1>1, <1>5, <1>6
    <2> QED
      BY <2>1, <2>2, <2>3 DEF Bijection, Injection, IsInjective, Surjection
  <1>8. IsFiniteSet(1..i) /\ Cardinality(1..i) = i
    BY FS_Interval
  <1>9. Cardinality(upto) = i
    BY <1>7, <1>8, FS_Bijection DEF ExistsBijection
  <1> QED
    BY <1>9 DEF Position

\* Such a sequence exists.
LEMMA ViewExists ==
  ASSUME NEW S \in SUBSET Nat, IsFiniteSet(S)
  PROVE  Views(S) # {}
  <1> DEFINE n        == Cardinality(S)
             position == [x \in S |-> Position(S, x)]
             lines    == [i \in 1..n |-> CHOOSE x \in S : Position(S, x) = i]
  <1>1. n \in Nat
    BY FS_CardinalityType
  <1>2. IsFiniteSet(1..n) /\ Cardinality(1..n) = n
    BY <1>1, FS_Interval
  <1>3. position \in Injection(S, 1..n)
    <2>1. position \in [S -> 1..n]
      BY PositionIsIndex
    <2>2. ASSUME NEW x \in S, NEW y \in S, Position(S, x) = Position(S, y) PROVE x = y
      <3>1. x \in Nat /\ y \in Nat /\ Position(S, x) \in Nat /\ Position(S, y) \in Nat
        BY <1>1, PositionIsIndex
      <3>2. ~(x < y) /\ ~(y < x)
        BY <2>2, <3>1, PositionAscends
      <3> QED
        BY <3>1, <3>2
    <2> QED
      BY <2>1, <2>2 DEF Injection, IsInjective
  <1>4. position \in Surjection(S, 1..n)
    BY <1>2, <1>3, FS_Injection
  <1>5. \A i \in 1..n : lines[i] \in S /\ Position(S, lines[i]) = i
    BY <1>4 DEF Surjection
  <1>6. ASSUME NEW i \in 1..n, NEW j \in 1..n, i < j PROVE lines[i] < lines[j]
    <2>1. lines[i] \in Nat /\ lines[j] \in Nat
      BY <1>5
    <2> HIDE DEF lines
    <2>2. ASSUME lines[j] < lines[i] PROVE FALSE
      <3>1. lines[i] \in S /\ lines[j] \in S
        BY <1>5
      <3>2. Position(S, lines[j]) < Position(S, lines[i])
        BY <2>2, <3>1, PositionAscends
      <3> QED
        BY <1>1, <1>5, <1>6, <3>2
    <2>3. lines[j] # lines[i]
      BY <1>1, <1>5, <1>6
    <2> QED
      BY <2>1, <2>2, <2>3
  <1>7. lines \in Views(S)
    <2> HIDE DEF lines
    <2>1. lines \in [1..n -> S]
      BY <1>5 DEF lines
    <2> QED
      BY <2>1, <1>6 DEF Views
  <1> QED
    BY <1>7

\* A selection that is accepted picks the ids on exactly the lines that one of its parts
\* covers, and picks some.
LEMMA SelectionPicksLines ==
  ASSUME NEW S \in SUBSET Nat, IsFiniteSet(S), NEW lines \in Views(S),
         NEW parts \in SUBSET (Nat \X Nat), ParseAccepts(parts, Cardinality(S))
  PROVE  LET picked == SelectRequestedIds(S, Ranges(parts))
         IN  /\ \A i \in 1..Cardinality(S) :
                  lines[i] \in picked <=> \E part \in parts : part[1] <= i /\ i <= part[2]
             /\ picked # {}
  <1> DEFINE n      == Cardinality(S)
             picked == SelectRequestedIds(S, Ranges(parts))
  <1>1. n \in Nat
    BY FS_CardinalityType
  <1>2. ASSUME NEW i \in 1..n
        PROVE  lines[i] \in picked <=> \E part \in parts : part[1] <= i /\ i <= part[2]
    <2>1. lines[i] \in S /\ Position(S, lines[i]) = i
      BY LineHasPosition DEF Views
    <2>2. lines[i] \in picked <=> i \in ParseSelection(parts)
      BY <2>1 DEF SelectRequestedIds, Ranges
    <2>3. \A part \in parts : i \in part[1]..part[2] <=> part[1] <= i /\ i <= part[2]
      BY <1>1
    <2> QED
      BY <2>2, <2>3 DEF ParseSelection
  <1>3. picked # {}
    <2>1. PICK part \in parts : TRUE
      BY DEF ParseAccepts
    <2>2. part[1] \in 1..n /\ part[1] <= part[2]
      BY DEF ParseAccepts, ParseIndex
    <2>3. part[1] <= part[1]
      BY <1>1, <2>2
    <2> QED
      BY <1>2, <2>2, <2>3
  <1> QED
    BY <1>2, <1>3

----------------------------------------------------------------------------
(* The properties. *)

\* What the inputs are.
AlgorithmsTypeOK ==
  /\ requested \in SUBSET (1..MaxId)
  /\ selection = AllSelection \/ \E parts \in SUBSET (Nat \X Nat) : selection = Ranges(parts)
  /\ args \in Seq(Seq(Chars))

\* And stay, for nothing moves.
LEMMA AlgorithmsTypeCorrect == AlgorithmsSpec => []AlgorithmsTypeOK
  <1>1. AlgorithmsInit => AlgorithmsTypeOK
    <2>1. ASSUME NEW part \in (0..MaxId + 1) \X (0..MaxId + 1),
                 NEW other \in (0..MaxId + 1) \X (0..MaxId + 1)
          PROVE  {part, other} \in SUBSET (Nat \X Nat)
      BY AlgorithmsAssumption
    <2>2. {} \in SUBSET (Nat \X Nat) /\ <<>> \in Seq(Seq(Chars))
      BY EmptySeq
    <2>3. CASE SelectionInit /\ args = <<>>
      BY <2>1, <2>2, <2>3 DEF SelectionInit, AlgorithmsTypeOK
    <2>4. CASE FieldsInit /\ requested = {} /\ selection = AllSelection
      <3>1. ASSUME NEW chars, chars \subseteq Chars, NEW length \in Nat, NEW arg \in Texts(chars, length)
            PROVE  arg \in Seq(Chars)
        <4>1. PICK n \in 0..length : arg \in [1..n -> chars]
          BY <3>1 DEF Texts
        <4>2. n \in Nat /\ arg \in [1..n -> Chars]
          BY <3>1, <4>1
        <4> QED
          BY <4>2, FunctionIsSeq
      <3>2. {"a", "-", "="} \subseteq Chars /\ MaxLength \in Nat /\ MaxLength - 1 \in Nat
        BY AlgorithmsAssumption DEF Chars
      <3>3. \/ \E arg \in Seq(Chars) : args = <<arg>>
            \/ \E arg, again \in Seq(Chars) : args = <<arg, again>>
        BY <2>4, <3>1, <3>2 DEF FieldsInit
      <3>4. args \in Seq(Seq(Chars))
        <4> DEFINE text == Seq(Chars)
        <4>1. \/ \E arg \in text : args = <<arg>>
              \/ \E arg, again \in text : args = <<arg, again>>
          BY <3>3
        <4> HIDE DEF text
        <4>2. args \in Seq(text)
          BY <4>1, OneOrTwo
        <4> QED
          BY <4>2 DEF text
      <3> QED
        BY <2>4, <3>4 DEF AlgorithmsTypeOK
    <2> QED
      BY <2>3, <2>4 DEF AlgorithmsInit
  <1>2. AlgorithmsTypeOK /\ UNCHANGED <<requested, selection, args, asked>> => AlgorithmsTypeOK'
    BY DEF AlgorithmsTypeOK
  <1> QED
    BY <1>1, <1>2, PTL DEF AlgorithmsSpec

\* Accepted arguments are pairs, and what is got are fields of theirs.
LEMMA GotIsParsed ==
  ASSUME NEW C, args \in Seq(Seq(C)), Gets
  PROVE  /\ args \in Seq(Pairs(C))
         /\ DOMAIN Got = IF asked = {} THEN DOMAIN ParseKeyValueFields(args) ELSE asked
         /\ DOMAIN Got \subseteq DOMAIN ParseKeyValueFields(args)
         /\ \A field \in DOMAIN Got : /\ field \in Seq(C) /\ Got[field] \in Seq(C)
                                      /\ Got[field] = ParseKeyValueFields(args)[field]
  <1> DEFINE fields == ParseKeyValueFields(args)
  <1>1. args \in Seq(Pairs(C))
    <2>1. Len(args) \in Nat /\ DOMAIN args = 1..Len(args) /\ args \in [1..Len(args) -> Seq(C)]
      BY LenProperties
    <2>2. \A i \in 1..Len(args) : args[i] \in Pairs(C)
      BY <2>1 DEF Gets, FieldsAccepted, Pairs
    <2>3. args \in [1..Len(args) -> Pairs(C)]
      BY <2>1, <2>2
    <2> QED
      BY <2>1, <2>3, FunctionIsSeq
  <1>2. fields \in Maps(C)
    BY <1>1, ParsedHoldsLast
  <1>3. PICK D \in SUBSET Seq(C) : fields \in [D -> Seq(C)]
    BY <1>2 DEF Maps
  <1> HIDE DEF fields
  <1>4. /\ DOMAIN Got = IF asked = {} THEN DOMAIN fields ELSE asked
        /\ \A field \in DOMAIN Got : Got[field] = fields[field]
    BY DEF Got, SelectFields, fields
  <1>5. asked \subseteq DOMAIN fields
    BY DEF Gets, FieldsSelectable, fields
  <1> QED
    BY <1>1, <1>3, <1>4, <1>5 DEF fields

\* What is got was put, and was not put again; what was put and is asked for is got.
LEMMA PutIsGot ==
  ASSUME NEW C, "=" \in C, args \in Seq(Seq(C)), Gets
  PROVE  /\ \A field \in DOMAIN Got : \E i \in DOMAIN args :
              /\ args[i] = field \o <<"=">> \o Got[field]
              /\ \A j \in DOMAIN args : j > i => ~IsPrefix(field \o <<"=">>, args[j])
         /\ \A i \in DOMAIN args : \E field \in DOMAIN ParseKeyValueFields(args) :
              /\ IsPrefix(field \o <<"=">>, args[i])
              /\ asked = {} \/ field \in asked => field \in DOMAIN Got
  <1> DEFINE fields == ParseKeyValueFields(args)
  <1>1. /\ args \in Seq(Pairs(C)) /\ DOMAIN args = 1..Len(args) /\ Len(args) \in Nat
        /\ \A i \in DOMAIN args : args[i] \in Pairs(C)
    BY GotIsParsed, LenProperties, ElementOfSeq
  <1>2. HoldsLast(fields, args, Len(args))
    BY <1>1, ParsedHoldsLast
  <1> HIDE DEF fields
  <1>3. ASSUME NEW field \in DOMAIN Got
        PROVE  \E i \in DOMAIN args :
                 /\ args[i] = field \o <<"=">> \o Got[field]
                 /\ \A j \in DOMAIN args : j > i => ~IsPrefix(field \o <<"=">>, args[j])
    <2>1. field \in DOMAIN fields /\ Got[field] = fields[field] /\ field \in Seq(C)
      BY GotIsParsed DEF fields
    <2>2. PICK i \in DOMAIN args :
            /\ ParseField(args[i]).key = field
            /\ ParseField(args[i]).value = fields[field]
            /\ \A k \in DOMAIN args : k > i => ParseField(args[k]).key # field
      BY <1>1, <1>2, <2>1 DEF HoldsLast
    <2>3. /\ args[i] = field \o <<"=">> \o Got[field]
          /\ \A j \in 1..Len(field) : field[j] # "="
      BY <1>1, <2>1, <2>2, PairIsSplit
    <2>4. ASSUME NEW j \in DOMAIN args, j > i, IsPrefix(field \o <<"=">>, args[j]) PROVE FALSE
      <3>1. ParseField(args[j]).key = field
        BY <1>1, <2>1, <2>3, <2>4, PairBegins
      <3> QED
        BY <2>2, <2>4, <3>1
    <2> QED
      BY <2>3, <2>4
  <1>4. ASSUME NEW i \in DOMAIN args
        PROVE  \E field \in DOMAIN fields :
                 /\ IsPrefix(field \o <<"=">>, args[i])
                 /\ asked = {} \/ field \in asked => field \in DOMAIN Got
    <2> DEFINE field == ParseField(args[i]).key
               value == ParseField(args[i]).value
               begin == field \o <<"=">>
    <2>1. field \in DOMAIN fields
      BY <1>1, <1>2 DEF HoldsLast
    <2>2. /\ field \in Seq(C) /\ value \in Seq(C) /\ args[i] = begin \o value
      BY <1>1, PairIsSplit
    <2>3. begin = Append(field, "=")
      BY <2>2, AppendIsConcat
    <2>4. begin \in Seq(C) /\ Len(begin) \in Nat /\ 1 <= Len(begin)
      BY <2>2, <2>3, AppendProperties, LenProperties
    <2> HIDE DEF begin, field, value
    <2>5. Len(begin \o value) = Len(begin) + Len(value) /\ Len(value) \in Nat
      BY <2>2, <2>4, ConcatProperties, LenProperties
    <2>6. SubSeq(begin \o value, 1, Len(begin)) = SubSeq(begin, 1, Len(begin))
      <3>1. 1 \in 1..Len(begin) /\ Len(begin) \in 1..Len(begin)
        BY <2>4
      <3> QED
        BY <2>2, <2>4, <3>1, SubSeqOfConcat1
    <2>7. IsPrefix(begin, args[i])
      BY <2>2, <2>4, <2>5, <2>6 DEF IsPrefix
    <2>8. asked = {} \/ field \in asked => field \in DOMAIN Got
      BY <2>1, GotIsParsed DEF fields
    <2> QED
      BY <2>1, <2>7, <2>8 DEF begin
  <1> QED
    BY <1>3, <1>4 DEF fields

\* A name that is not empty and does not begin with a digit becomes a shell name.
LEMMA NameIsShellName ==
  ASSUME NEW C, NEW field \in Seq(C), field # <<>>, Head(field) \notin Digits
  PROVE  ShellName(SanitizeEnvName(field))
  <1> DEFINE name == SanitizeEnvName(field)
  <1>1. /\ Len(field) \in Nat \ {0} /\ DOMAIN field = 1..Len(field)
        /\ \A i \in 1..Len(field) : field[i] \in C
    BY EmptySeq, LenProperties, ElementOfSeq
  <1>2. Head(field) = field[1]
    BY <1>1, HeadIsFirst
  <1>3. \A ch : SanitizeChar(ch) \in {"A", "_"} \cup Digits
    BY DEF SanitizeChar, Upper
  <1>4. \A ch : ch \notin Digits => SanitizeChar(ch) \notin Digits
    BY DEF SanitizeChar, Upper, Digits
  <1>5. name = [i \in 1..Len(field) |-> SanitizeChar(field[i])]
    BY <1>1 DEF SanitizeEnvName
  <1>6. name \in Seq({"A", "_"} \cup Digits) /\ Len(name) = Len(field) /\ DOMAIN name = 1..Len(field)
    <2>1. name \in [1..Len(field) -> {"A", "_"} \cup Digits]
      BY <1>3, <1>5
    <2> HIDE DEF name
    <2> QED
      BY <1>1, <2>1, FunctionIsSeq, LenProperties
  <1>7. name # <<>> /\ Head(name) = name[1]
    <2> HIDE DEF name
    <2> QED
      BY <1>1, <1>6, HeadIsFirst
  <1>8. name[1] = SanitizeChar(field[1])
    BY <1>1, <1>5
  <1>9. \A i \in DOMAIN name : name[i] \in {"a", "A", "_"} \cup Digits
    BY <1>3, <1>5, <1>6
  <1> HIDE DEF name
  <1>10. ShellName(name)
    BY <1>2, <1>4, <1>7, <1>8, <1>9 DEF ShellName
  <1> QED
    BY <1>10 DEF name

\* What is got was put last under its name, for texts and numbers of arguments of every
\* size (parse_key_value_fields, select_fields).
THEOREM PutsAreGot == AlgorithmsSpec => []GetsWhatWasPut
  <1>1. AlgorithmsTypeOK => GetsWhatWasPut
    <2> SUFFICES ASSUME AlgorithmsTypeOK, Gets PROVE GetsWhatWasPut
      BY DEF GetsWhatWasPut
    <2>1. args \in Seq(Seq(Chars)) /\ "=" \in Chars
      BY DEF AlgorithmsTypeOK, Chars
    <2> QED
      BY <2>1, PutIsGot DEF GetsWhatWasPut
  <1> QED
    BY <1>1, AlgorithmsTypeCorrect, PTL

\* Every value that is written is read back by a shell as that value and as one word,
\* whatever it contains (shell_quote).
THEOREM QuotedValuesReadBack == AlgorithmsSpec => []ValuesReadBack
  <1>1. AlgorithmsTypeOK => ValuesReadBack
    <2> SUFFICES ASSUME AlgorithmsTypeOK, Gets, NEW field \in DOMAIN Got
                 PROVE  ShellReads(ShellQuote(Got[field])) = [at |-> "bare", word |-> Got[field]]
      BY DEF ValuesReadBack
    <2>1. args \in Seq(Seq(Chars)) /\ Quote \in Chars /\ Backslash \in Chars
      BY DEF AlgorithmsTypeOK, Chars
    <2>2. Got[field] \in Seq(Chars)
      BY <2>1, GotIsParsed
    <2> QED
      BY <2>1, <2>2, QuotedIsRead
  <1> QED
    BY <1>1, AlgorithmsTypeCorrect, PTL

\* Every name that is not empty and does not start with a digit is written as a name that
\* a shell accepts (sanitize_env_name).
THEOREM NamesBecomeShellNames == AlgorithmsSpec => []NamesAreShellNames
  <1>1. AlgorithmsTypeOK => NamesAreShellNames
    <2> SUFFICES ASSUME AlgorithmsTypeOK, Gets, NEW field \in DOMAIN Got,
                        field # <<>>, Head(field) \notin Digits
                 PROVE  ShellName(SanitizeEnvName(field))
      BY DEF NamesAreShellNames
    <2>1. args \in Seq(Seq(Chars))
      BY DEF AlgorithmsTypeOK
    <2>2. field \in Seq(Chars)
      BY <2>1, GotIsParsed
    <2> QED
      BY <2>2, NameIsShellName
  <1> QED
    BY <1>1, AlgorithmsTypeCorrect, PTL

\* A selection is accepted when it numbers lines of the view, and then picks the ids on
\* those, whatever the number of ids and of its parts (select_requested_ids).
THEOREM SelectionsPickLines == AlgorithmsSpec => []PicksTheNumberedLines
  <1> DEFINE picked == SelectRequestedIds(requested, selection)
             NumbersLines == \A part \in selection.parts :
                               {part[1], part[2]} \subseteq DOMAIN Lines /\ part[1] <= part[2]
             Covered(i) == \E part \in selection.parts : part[1] <= i /\ i <= part[2]
  <1>1. ASSUME AlgorithmsTypeOK
        PROVE  /\ SelectionOk(requested, selection)
                    <=> selection.all \/ (selection.parts # {} /\ NumbersLines)
               /\ SelectionOk(requested, selection) =>
                    /\ \A i \in DOMAIN Lines : Lines[i] \in picked <=> selection.all \/ Covered(i)
                    /\ selection.all \/ picked # {}
    <2>1. requested \in SUBSET Nat /\ IsFiniteSet(requested)
      <3>1. 1..MaxId \subseteq Nat /\ IsFiniteSet(1..MaxId)
        BY <1>1, AlgorithmsAssumption, FS_Interval
      <3> QED
        BY <1>1, <3>1, FS_Subset DEF AlgorithmsTypeOK
    <2>2. Lines \in Views(requested)
      BY <2>1, ViewExists DEF Lines
    <2>3. DOMAIN Lines = 1..Cardinality(requested) /\ \A i \in DOMAIN Lines : Lines[i] \in requested
      BY <2>2 DEF Views
    <2>4. CASE selection = AllSelection
      BY <2>3, <2>4 DEF AllSelection, SelectionOk, SelectRequestedIds
    <2>5. ASSUME NEW parts \in SUBSET (Nat \X Nat), selection = Ranges(parts)
          PROVE  /\ SelectionOk(requested, selection) <=> selection.parts # {} /\ NumbersLines
                 /\ SelectionOk(requested, selection) =>
                      (\A i \in DOMAIN Lines : Lines[i] \in picked <=> Covered(i)) /\ picked # {}
                 /\ selection.all = FALSE
      <3>1. selection.all = FALSE /\ selection.parts = parts
        BY <2>5 DEF Ranges
      <3>2. SelectionOk(requested, selection) <=> ParseAccepts(parts, Cardinality(requested))
        BY <3>1 DEF SelectionOk
      <3>3. ParseAccepts(parts, Cardinality(requested)) <=> parts # {} /\ NumbersLines
        BY <2>3, <3>1 DEF ParseAccepts, ParseIndex
      <3>4. ASSUME ParseAccepts(parts, Cardinality(requested))
            PROVE  (\A i \in DOMAIN Lines : Lines[i] \in picked <=> Covered(i)) /\ picked # {}
        <4> DEFINE chosen == SelectRequestedIds(requested, Ranges(parts))
        <4>1. /\ \A i \in 1..Cardinality(requested) :
                   Lines[i] \in chosen <=> \E part \in parts : part[1] <= i /\ i <= part[2]
              /\ chosen # {}
          BY <2>1, <2>2, <3>4, SelectionPicksLines
        <4>2. picked = chosen
          BY <2>5
        <4> HIDE DEF chosen, picked
        <4> QED
          BY <2>3, <3>1, <4>1, <4>2
      <3> HIDE DEF picked, NumbersLines, Covered
      <3> QED
        BY <3>1, <3>2, <3>3, <3>4
    <2> HIDE DEF picked, NumbersLines, Covered
    <2> QED
      BY <1>1, <2>4, <2>5 DEF AlgorithmsTypeOK
  <1>2. AlgorithmsTypeOK => PicksTheNumberedLines
    BY <1>1 DEF PicksTheNumberedLines
  <1> QED
    BY <1>2, AlgorithmsTypeCorrect, PTL
=============================================================================
