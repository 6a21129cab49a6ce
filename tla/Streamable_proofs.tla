------------------------- MODULE Streamable_proofs -------------------------
(***************************************************************************)
(* Proofs about a streamed POST, for any number of posts and events, any   *)
(* capacity of the channel and any way to cut the stream into chunks: that *)
(* what the client's callbacks get is what the producer sent, that a       *)
(* stream it takes for complete is complete, that the two readers of the   *)
(* format agree, and that seen from outside a post's stream is a pipe.     *)
(*                                                                         *)
(* What the readers make of a text is the result of a fold over it.  The   *)
(* induction this takes is one over sets: a set of sequences that has the  *)
(* empty one and every extension of each of its members is the set of all, *)
(* since a set of numbers has a least one.                                 *)
(***************************************************************************)
EXTENDS Streamable, SequenceTheorems, FiniteSetTheorems, TLAPS

(* Induction. *)

\* A set of numbers has a least one: of the finite sets 0..n, for its members
\* n, one has no other as a proper subset.
LEMMA LeastNatural ==
  ASSUME NEW T \in SUBSET Nat, T # {}
  PROVE  \E m \in T : \A k \in T : m <= k
<1> DEFINE I == {0 .. n : n \in T}
<1>1. I \subseteq FiniteSubsetsOf(Nat)
  <2>1. \A n \in Nat : IsFiniteSet(0 .. n)
    BY FS_Interval
  <2> QED
    BY <2>1 DEF FiniteSubsetsOf
<1>2. I # {}
  OBVIOUS
<1>3. PICK X \in I : \A Y \in I : ~ (<<Y, X>> \in StrictSubsetOrdering(Nat))
  <2> HIDE DEF I
  <2> QED BY <1>1, <1>2, FS_StrictSubsetOrderingWellFounded, WFMin
<1>4. PICK m \in T : X = 0 .. m
  BY <1>3
<1>5. ASSUME NEW k \in T, k < m PROVE FALSE
  <2>1. 0 .. k \in I /\ 0 .. k \subseteq 0 .. m
    BY <1>5
  <2>2. m \in 0 .. m /\ m \notin 0 .. k
    BY <1>5
  <2>3. <<0 .. k, 0 .. m>> \in StrictSubsetOrdering(Nat)
    BY <2>1, <2>2 DEF StrictSubsetOrdering
  <2> QED
    BY <1>3, <1>4, <2>1, <2>3
<1> QED
  BY <1>5

\* A set with 0 and the successor of each number in it has every number.
LEMMA NatSetInduction ==
  ASSUME NEW S, 0 \in S, \A n \in Nat : n \in S => n + 1 \in S
  PROVE  Nat \subseteq S
<1> SUFFICES ASSUME Nat \ S # {} PROVE FALSE
  OBVIOUS
<1>1. PICK m \in Nat \ S : \A k \in Nat \ S : m <= k
  BY LeastNatural
<1>2. m - 1 \in S
  BY <1>1
<1> QED
  BY <1>1, <1>2

\* ... and one with the empty sequence and every extension every sequence.
LEMMA SeqSetInduction ==
  ASSUME NEW X, NEW S, <<>> \in S, \A s \in Seq(X), x \in X : s \in S => Append(s, x) \in S
  PROVE  Seq(X) \subseteq S
<1> DEFINE Lengths == {n \in Nat : \A s \in Seq(X) : Len(s) = n => s \in S}
<1>1. 0 \in Lengths
  BY EmptySeq
<1>2. ASSUME NEW n \in Nat, n \in Lengths PROVE n + 1 \in Lengths
  <2> SUFFICES ASSUME NEW s \in Seq(X), Len(s) = n + 1 PROVE s \in S
    OBVIOUS
  <2> DEFINE f == SubSeq(s, 1, n)
  <2>1. f \in Seq(X) /\ Len(f) = n /\ s[n + 1] \in X /\ s = Append(f, s[n + 1])
    OBVIOUS
  <2>2. f \in S
    BY <1>2, <2>1
  <2> QED
    BY <2>1, <2>2
<1> HIDE DEF Lengths
<1>3. Nat \subseteq Lengths
  BY <1>1, <1>2, NatSetInduction
<1> QED
  BY <1>3 DEF Lengths

-----------------------------------------------------------------------------
(* Folds. *)

\* The five folds of SSEWire, by name: an operator cannot be passed to a lemma.
StepOf(op, acc, x) ==
  CASE op = "write" -> WriteLine(acc, x)
    [] op = "cut" -> CutLine(acc, x)
    [] op = "parse" -> ParseLine(acc, x)
    [] op = "read" -> ReadLine(acc, x)
    [] op = "take" -> TakeEvent(acc, x)

\* FoldLeft's iteration, for the first n elements of a sequence.
Iterates(g, op, base, seq, n) ==
  g = [s \in SUBSET (1..n) |-> IF s = {} THEN base ELSE StepOf(op, g[s \ {Max(s)}], seq[Max(s)])]

\* The greatest of a set of positions that has n, the last of them.
LEMMA MaxOf ==
  ASSUME NEW n \in Nat, NEW s \in SUBSET (1..n), n \in s
  PROVE  Max(s) = n
<1>1. \A y \in s : n >= y
  OBVIOUS
<1>2. \A x \in s : (\A y \in s : x >= y) => x = n
  OBVIOUS
<1> QED
  BY <1>1, <1>2, Zenon DEF Max

\* The iteration exists ...
LEMMA IterationExists ==
  ASSUME NEW op, NEW base, NEW seq
  PROVE  \A n \in Nat : \E g : Iterates(g, op, base, seq, n)
<1> DEFINE S == {n \in Nat : \E g : Iterates(g, op, base, seq, n)}
<1>1. 0 \in S
  <2> DEFINE g == [s \in SUBSET (1..0) |-> base]
  <2>1. \A s \in SUBSET (1..0) : s = {}
    OBVIOUS
  <2>2. g = [s \in SUBSET (1..0) |-> IF s = {} THEN base ELSE StepOf(op, g[s \ {Max(s)}], seq[Max(s)])]
    BY <2>1
  <2> QED
    BY <2>2 DEF Iterates
<1>2. ASSUME NEW n \in Nat, n \in S PROVE n + 1 \in S
  <2>1. PICK g : Iterates(g, op, base, seq, n)
    BY <1>2
  <2> DEFINE h == [s \in SUBSET (1..n+1) |->
                     IF n + 1 \in s THEN StepOf(op, g[s \ {n + 1}], seq[n + 1]) ELSE g[s]]
  <2>2. ASSUME NEW s \in SUBSET (1..n+1)
        PROVE  h[s] = IF s = {} THEN base ELSE StepOf(op, h[s \ {Max(s)}], seq[Max(s)])
    <3>1. CASE n + 1 \in s
      <4>1. Max(s) = n + 1
        BY <3>1, MaxOf
      <4>2. s \ {n + 1} \in SUBSET (1..n+1) /\ n + 1 \notin s \ {n + 1}
        OBVIOUS
      <4>3. h[s \ {n + 1}] = g[s \ {n + 1}]
        BY <4>2
      <4> QED
        BY <3>1, <4>1, <4>3
    <3>2. CASE n + 1 \notin s
      <4>1. s \in SUBSET (1..n) /\ s \ {Max(s)} \in SUBSET (1..n)
        <5>1. \A i \in 1..n+1 : i = n + 1 \/ i \in 1..n
          OBVIOUS
        <5>2. s \subseteq 1..n
          BY <3>2, <5>1
        <5> QED
          BY <5>2
      <4>2. g[s] = IF s = {} THEN base ELSE StepOf(op, g[s \ {Max(s)}], seq[Max(s)])
        BY <2>1, <4>1 DEF Iterates
      <4>3. h[s] = g[s] /\ h[s \ {Max(s)}] = g[s \ {Max(s)}]
        <5>1. n + 1 \notin s \ {Max(s)} /\ s \ {Max(s)} \in SUBSET (1..n+1)
          BY <3>2
        <5> QED
          BY <3>2, <5>1
      <4> QED
        BY <4>2, <4>3
    <3> QED
      BY <3>1, <3>2
  <2>3. Iterates(h, op, base, seq, n + 1)
    <3>1. h = [s \in SUBSET (1..n+1) |-> h[s]]
      OBVIOUS
    <3> HIDE DEF h
    <3> QED
      BY <2>2, <3>1 DEF Iterates
  <2> QED
    BY <2>3
<1> HIDE DEF S
<1>3. Nat \subseteq S
  BY <1>1, <1>2, NatSetInduction
<1> QED
  BY <1>3 DEF S

\* ... and depends on the elements it covers only.
LEMMA IterationAgrees ==
  ASSUME NEW op, NEW base, NEW s, NEW t, NEW m \in Nat, NEW n \in Nat, m <= n,
         \A i \in 1..m : s[i] = t[i],
         NEW g, NEW h, Iterates(g, op, base, s, m), Iterates(h, op, base, t, n)
  PROVE  /\ g[1..m] = h[1..m]
         /\ g[{}] = base
         /\ m # 0 => g[1..m] = StepOf(op, g[1..(m - 1)], s[m])
<1> DEFINE S == {i \in Nat : i <= m => g[1..i] = h[1..i]}
<1>1. g[{}] = base /\ h[{}] = base
  BY DEF Iterates
<1>2. ASSUME NEW i \in Nat, i < m
      PROVE  /\ g[1..i+1] = StepOf(op, g[1..i], s[i + 1])
             /\ h[1..i+1] = StepOf(op, h[1..i], t[i + 1])
  <2>1. Max(1..i+1) = i + 1
    BY MaxOf
  <2>2. (1..i+1) \ {i + 1} = 1..i /\ 1..i+1 # {}
    OBVIOUS
  <2>3. 1..i+1 \in SUBSET (1..m) /\ 1..i+1 \in SUBSET (1..n)
    BY <1>2
  <2> QED
    BY <2>1, <2>2, <2>3 DEF Iterates
<1>3. 0 \in S
  <2>1. 1..0 = {}
    OBVIOUS
  <2> QED
    BY <1>1, <2>1
<1>4. ASSUME NEW i \in Nat, i \in S PROVE i + 1 \in S
  BY <1>2, <1>4
<1>5. m \in S
  <2> HIDE DEF S
  <2> QED
    BY <1>3, <1>4, NatSetInduction
<1> QED
  <2>1. m # 0 => m - 1 \in Nat /\ (m - 1) + 1 = m /\ m - 1 < m
    OBVIOUS
  <2> QED
    BY <1>1, <1>2, <1>5, <2>1

\* StepOf is the operator it is named for.
LEMMA Steps ==
  \A acc, x : /\ StepOf("write", acc, x) = WriteLine(acc, x)
              /\ StepOf("cut", acc, x) = CutLine(acc, x)
              /\ StepOf("parse", acc, x) = ParseLine(acc, x)
              /\ StepOf("read", acc, x) = ReadLine(acc, x)
              /\ StepOf("take", acc, x) = TakeEvent(acc, x)
BY DEF StepOf

\* A fold by name: the iteration at all the positions of the sequence.
Fold(op, base, seq) == (CHOOSE g : Iterates(g, op, base, seq, Len(seq)))[1..Len(seq)]

\* Any iteration gives the fold.
LEMMA FoldIs ==
  ASSUME NEW op, NEW base, NEW X, NEW seq \in Seq(X), NEW g, Iterates(g, op, base, seq, Len(seq))
  PROVE  Fold(op, base, seq) = g[1..Len(seq)]
<1> DEFINE h == CHOOSE h : Iterates(h, op, base, seq, Len(seq))
<1>1. Iterates(h, op, base, seq, Len(seq))
  OBVIOUS
<1>2. Len(seq) \in Nat
  OBVIOUS
<1> HIDE DEF h
<1>3. h[1..Len(seq)] = g[1..Len(seq)]
  BY <1>1, <1>2, IterationAgrees
<1> QED
  BY <1>3 DEF Fold, h

\* The fold of no element is its base.
LEMMA FoldEmpty == \A op, base : Fold(op, base, <<>>) = base
<1> SUFFICES ASSUME NEW op, NEW base PROVE Fold(op, base, <<>>) = base
  OBVIOUS
<1>1. Len(<<>>) = 0 /\ <<>> \in Seq({}) /\ 1..0 = {}
  OBVIOUS
<1>2. PICK g : Iterates(g, op, base, <<>>, 0)
  BY IterationExists
<1>3. g[{}] = base
  BY <1>2, IterationAgrees
<1>4. Fold(op, base, <<>>) = g[1..0]
  BY <1>1, <1>2, FoldIs
<1> QED
  BY <1>1, <1>3, <1>4

\* The fold of one more element is one more step.
LEMMA FoldAppend ==
  ASSUME NEW op, NEW base, NEW X, NEW seq \in Seq(X), NEW x \in X
  PROVE  Fold(op, base, Append(seq, x)) = StepOf(op, Fold(op, base, seq), x)
<1> DEFINE n == Len(seq)
           t == Append(seq, x)
<1>1. n \in Nat /\ t \in Seq(X) /\ Len(t) = n + 1 /\ t[n + 1] = x /\ \A i \in 1..n : seq[i] = t[i]
  OBVIOUS
<1> HIDE DEF n, t
<1>2. PICK g : Iterates(g, op, base, seq, n)
  BY <1>1, IterationExists
<1>3. PICK h : Iterates(h, op, base, t, n + 1)
  <2>1. n + 1 \in Nat
    BY <1>1
  <2> QED
    BY <2>1, IterationExists
<1>4. g[1..n] = h[1..n]
  BY <1>1, <1>2, <1>3, IterationAgrees
<1>5. h[1..n+1] = StepOf(op, h[1..n], x)
  <2>1. n + 1 # 0 /\ n + 1 \in Nat /\ (n + 1) - 1 = n
    BY <1>1
  <2>2. h[1..n+1] = StepOf(op, h[1..((n + 1) - 1)], t[n + 1])
    BY <1>3, <2>1, IterationAgrees
  <2> QED
    BY <1>1, <2>1, <2>2
<1>6. Fold(op, base, seq) = g[1..n] /\ Fold(op, base, t) = h[1..n+1]
  BY <1>1, <1>2, <1>3, FoldIs DEF n
<1> QED
  BY <1>4, <1>5, <1>6 DEF t

\* The fold of two sequences, one after the other.
LEMMA FoldConcat ==
  ASSUME NEW op, NEW base, NEW X, NEW s \in Seq(X), NEW t \in Seq(X)
  PROVE  Fold(op, base, s \o t) = Fold(op, Fold(op, base, s), t)
<1> DEFINE S == {u \in Seq(X) : Fold(op, base, s \o u) = Fold(op, Fold(op, base, s), u)}
<1>1. <<>> \in S
  BY FoldEmpty
<1>2. ASSUME NEW u \in Seq(X), NEW x \in X, u \in S PROVE Append(u, x) \in S
  <2>1. s \o Append(u, x) = Append(s \o u, x) /\ s \o u \in Seq(X) /\ Append(u, x) \in Seq(X)
    OBVIOUS
  <2>2. \A v \in Seq(X) : Fold(op, base, Append(v, x)) = StepOf(op, Fold(op, base, v), x)
    BY FoldAppend
  <2>3. Fold(op, Fold(op, base, s), Append(u, x)) = StepOf(op, Fold(op, Fold(op, base, s), u), x)
    BY FoldAppend
  <2> QED
    BY <1>2, <2>1, <2>2, <2>3
<1> HIDE DEF S
<1>3. t \in S
  BY <1>1, <1>2, SeqSetInduction
<1> QED
  BY <1>3 DEF S

\* A sequence has an iteration.
LEMMA SomeIteration ==
  ASSUME NEW op, NEW base, NEW X, NEW seq \in Seq(X)
  PROVE  DOMAIN seq = 1..Len(seq) /\ \E g : Iterates(g, op, base, seq, Len(seq))
<1>1. Len(seq) \in Nat /\ DOMAIN seq = 1..Len(seq)
  OBVIOUS
<1> QED
  BY <1>1, IterationExists

\* FoldLeft with each of SSEWire's operators is the fold by its name.
LEMMA FoldOfWriteLine ==
  ASSUME NEW base, NEW X, NEW seq \in Seq(X)
  PROVE  FoldLeft(WriteLine, base, seq) = Fold("write", base, seq)
<1>1. PICK g : Iterates(g, "write", base, seq, Len(seq))
  BY SomeIteration
<1>2. DOMAIN seq = 1..Len(seq)
  BY SomeIteration
<1> DEFINE F(g1) == [s \in SUBSET (DOMAIN seq) |->
              IF s = {} THEN base ELSE WriteLine(g1[s \ {Max(s)}], seq[Max(s)])]
<1>3. \A g1 : Iterates(g1, "write", base, seq, Len(seq)) <=> g1 = F(g1)
  BY <1>2, Steps DEF Iterates
<1>4. FoldLeft(WriteLine, base, seq) = (CHOOSE g1 : g1 = F(g1))[DOMAIN seq]
  BY DEF FoldLeft, MapThenFoldSet
<1> HIDE DEF F
<1>5. Iterates(CHOOSE g1 : g1 = F(g1), "write", base, seq, Len(seq))
  BY <1>1, <1>3
<1> QED
  BY <1>2, <1>4, <1>5, FoldIs

\* The same of CutLine.
LEMMA FoldOfCutLine ==
  ASSUME NEW base, NEW X, NEW seq \in Seq(X)
  PROVE  FoldLeft(CutLine, base, seq) = Fold("cut", base, seq)
<1>1. PICK g : Iterates(g, "cut", base, seq, Len(seq))
  BY SomeIteration
<1>2. DOMAIN seq = 1..Len(seq)
  BY SomeIteration
<1> DEFINE F(g1) == [s \in SUBSET (DOMAIN seq) |->
              IF s = {} THEN base ELSE CutLine(g1[s \ {Max(s)}], seq[Max(s)])]
<1>3. \A g1 : Iterates(g1, "cut", base, seq, Len(seq)) <=> g1 = F(g1)
  BY <1>2, Steps DEF Iterates
<1>4. FoldLeft(CutLine, base, seq) = (CHOOSE g1 : g1 = F(g1))[DOMAIN seq]
  BY DEF FoldLeft, MapThenFoldSet
<1> HIDE DEF F
<1>5. Iterates(CHOOSE g1 : g1 = F(g1), "cut", base, seq, Len(seq))
  BY <1>1, <1>3
<1> QED
  BY <1>2, <1>4, <1>5, FoldIs

\* The same of ParseLine.
LEMMA FoldOfParseLine ==
  ASSUME NEW base, NEW X, NEW seq \in Seq(X)
  PROVE  FoldLeft(ParseLine, base, seq) = Fold("parse", base, seq)
<1>1. PICK g : Iterates(g, "parse", base, seq, Len(seq))
  BY SomeIteration
<1>2. DOMAIN seq = 1..Len(seq)
  BY SomeIteration
<1> DEFINE F(g1) == [s \in SUBSET (DOMAIN seq) |->
              IF s = {} THEN base ELSE ParseLine(g1[s \ {Max(s)}], seq[Max(s)])]
<1>3. \A g1 : Iterates(g1, "parse", base, seq, Len(seq)) <=> g1 = F(g1)
  BY <1>2, Steps DEF Iterates
<1>4. FoldLeft(ParseLine, base, seq) = (CHOOSE g1 : g1 = F(g1))[DOMAIN seq]
  BY DEF FoldLeft, MapThenFoldSet
<1> HIDE DEF F
<1>5. Iterates(CHOOSE g1 : g1 = F(g1), "parse", base, seq, Len(seq))
  BY <1>1, <1>3
<1> QED
  BY <1>2, <1>4, <1>5, FoldIs

\* The same of ReadLine.
LEMMA FoldOfReadLine ==
  ASSUME NEW base, NEW X, NEW seq \in Seq(X)
  PROVE  FoldLeft(ReadLine, base, seq) = Fold("read", base, seq)
<1>1. PICK g : Iterates(g, "read", base, seq, Len(seq))
  BY SomeIteration
<1>2. DOMAIN seq = 1..Len(seq)
  BY SomeIteration
<1> DEFINE F(g1) == [s \in SUBSET (DOMAIN seq) |->
              IF s = {} THEN base ELSE ReadLine(g1[s \ {Max(s)}], seq[Max(s)])]
<1>3. \A g1 : Iterates(g1, "read", base, seq, Len(seq)) <=> g1 = F(g1)
  BY <1>2, Steps DEF Iterates
<1>4. FoldLeft(ReadLine, base, seq) = (CHOOSE g1 : g1 = F(g1))[DOMAIN seq]
  BY DEF FoldLeft, MapThenFoldSet
<1> HIDE DEF F
<1>5. Iterates(CHOOSE g1 : g1 = F(g1), "read", base, seq, Len(seq))
  BY <1>1, <1>3
<1> QED
  BY <1>2, <1>4, <1>5, FoldIs

\* The same of TakeEvent.
LEMMA FoldOfTakeEvent ==
  ASSUME NEW base, NEW X, NEW seq \in Seq(X)
  PROVE  FoldLeft(TakeEvent, base, seq) = Fold("take", base, seq)
<1>1. PICK g : Iterates(g, "take", base, seq, Len(seq))
  BY SomeIteration
<1>2. DOMAIN seq = 1..Len(seq)
  BY SomeIteration
<1> DEFINE F(g1) == [s \in SUBSET (DOMAIN seq) |->
              IF s = {} THEN base ELSE TakeEvent(g1[s \ {Max(s)}], seq[Max(s)])]
<1>3. \A g1 : Iterates(g1, "take", base, seq, Len(seq)) <=> g1 = F(g1)
  BY <1>2, Steps DEF Iterates
<1>4. FoldLeft(TakeEvent, base, seq) = (CHOOSE g1 : g1 = F(g1))[DOMAIN seq]
  BY DEF FoldLeft, MapThenFoldSet
<1> HIDE DEF F
<1>5. Iterates(CHOOSE g1 : g1 = F(g1), "take", base, seq, Len(seq))
  BY <1>1, <1>3
<1> QED
  BY <1>2, <1>4, <1>5, FoldIs

-----------------------------------------------------------------------------
(* Texts and lines. *)

\* What fields hold, what a text is made of, any event, and what a reader
\* has made of a text: the event it is in and the events that are out.
Values == Nat \cup (Nat \X Nat)
Symbols == {Text(f, v) : f \in {"event", "id", "data"}, v \in Values} \cup {EOL}
AllEvents == [event : Values, id : Values, data : Seq(Values)]
Readings == [event : AllEvents, out : Seq(AllEvents)]

\* A text that is whole lines, and one that has no end of line.
Ended(t) == t = <<>> \/ t[Len(t)] = EOL
NoEnd(t) == \A i \in 1..Len(t) : t[i] # EOL

\* A symbol is the text of a line or the end of one.
LEMMA SymbolTypes ==
  /\ EOL \in Symbols /\ NoEvent \in AllEvents /\ None \in Values
  /\ \A f \in {"event", "id", "data"}, v \in Values : Text(f, v) \in Symbols /\ Text(f, v) # EOL
  /\ \A s \in Symbols : s = EOL \/ \E f \in {"event", "id", "data"}, v \in Values : s = Text(f, v)
<1>1. None \in Values
  BY DEF Values, None
<1>2. NoEvent \in AllEvents
  BY <1>1 DEF AllEvents, NoEvent, Event
<1>3. \A f \in {"event", "id", "data"}, v \in Values : Text(f, v) # EOL
  BY DEF Text, EOL
<1> QED
  BY <1>1, <1>2, <1>3 DEF Symbols

\* A line taken up into an event gives an event.
LEMMA ProcessFieldType ==
  ASSUME NEW e \in AllEvents, NEW s \in Symbols, s # EOL
  PROVE  ProcessField(e, s) \in AllEvents
<1>1. PICK f \in {"event", "id", "data"}, v \in Values : s = Text(f, v)
  BY SymbolTypes
<1>2. s.field = f /\ s.value = v
  BY <1>1 DEF Text
<1>3. CASE f = "event"
  BY <1>2, <1>3 DEF ProcessField, AllEvents
<1>4. CASE f = "id"
  BY <1>2, <1>4 DEF ProcessField, AllEvents
<1>5. CASE f = "data"
  <2>1. Append(e.data, v) \in Seq(Values)
    BY DEF AllEvents
  <2> QED
    BY <1>2, <1>5, <2>1 DEF ProcessField, AllEvents
<1> QED
  BY <1>3, <1>4, <1>5

\* Types of the steps.
LEMMA StepTypes ==
  /\ \A acc \in [line : Symbols, lines : Seq(Symbols)], s \in Symbols :
       CutLine(acc, s) \in [line : Symbols, lines : Seq(Symbols)]
  /\ \A acc \in Readings, s \in Symbols : ParseLine(acc, s) \in Readings /\ ReadLine(acc, s) \in Readings
  /\ \A out \in Seq(AllEvents), e \in AllEvents : TakeEvent(out, e) \in Seq(AllEvents)
<1>1. ASSUME NEW acc \in [line : Symbols, lines : Seq(Symbols)], NEW s \in Symbols
      PROVE  CutLine(acc, s) \in [line : Symbols, lines : Seq(Symbols)]
  <2>1. Append(acc.lines, acc.line) \in Seq(Symbols)
    OBVIOUS
  <2> QED
    BY <2>1, SymbolTypes DEF CutLine
<1>2. ASSUME NEW out \in Seq(AllEvents), NEW e \in AllEvents PROVE TakeEvent(out, e) \in Seq(AllEvents) /\ Append(out, e) \in Seq(AllEvents)
  BY DEF TakeEvent
<1>3. ASSUME NEW acc \in Readings, NEW s \in Symbols
      PROVE  ParseLine(acc, s) \in Readings /\ ReadLine(acc, s) \in Readings
  <2>1. s # EOL => ProcessField(acc.event, s) \in AllEvents
    BY ProcessFieldType DEF Readings
  <2>2. acc.out \in Seq(AllEvents) /\ acc.event \in AllEvents
    BY DEF Readings
  <2>3. TakeEvent(acc.out, acc.event) \in Seq(AllEvents) /\ Append(acc.out, acc.event) \in Seq(AllEvents)
    BY <1>2, <2>2
  <2> QED
    BY <2>1, <2>2, <2>3, SymbolTypes DEF ParseLine, ReadLine, Readings
<1> QED
  BY <1>1, <1>2, <1>3

\* What is cut of a text when the line l has begun.
Cut(l, t) == Fold("cut", [line |-> l, lines |-> <<>>], t)

\* Cutting a text: lines are added to those there are.
LEMMA CutAdds ==
  ASSUME NEW l \in Symbols, NEW ls \in Seq(Symbols), NEW t \in Seq(Symbols)
  PROVE  /\ Cut(l, t) \in [line : Symbols, lines : Seq(Symbols)]
         /\ Fold("cut", [line |-> l, lines |-> ls], t) = [line |-> Cut(l, t).line, lines |-> ls \o Cut(l, t).lines]
<1> DEFINE P(u) == /\ Cut(l, u) \in [line : Symbols, lines : Seq(Symbols)]
                   /\ Fold("cut", [line |-> l, lines |-> ls], u) = [line |-> Cut(l, u).line, lines |-> ls \o Cut(l, u).lines]
           S == {u \in Seq(Symbols) : P(u)}
<1>1. <<>> \in S
  <2>1. ls \o <<>> = ls /\ <<>> \in Seq(Symbols)
    OBVIOUS
  <2>2. Cut(l, <<>>) = [line |-> l, lines |-> <<>>]
    BY FoldEmpty DEF Cut
  <2>3. Fold("cut", [line |-> l, lines |-> ls], <<>>) = [line |-> l, lines |-> ls]
    BY FoldEmpty
  <2> DEFINE c == Cut(l, <<>>)
             e == [line |-> l, lines |-> <<>>]
  <2>4. e \in [line : Symbols, lines : Seq(Symbols)] /\ e.line = l /\ e.lines = <<>>
    BY <2>1
  <2>5. c = e
    BY <2>2
  <2> HIDE DEF c, e
  <2>6. c \in [line : Symbols, lines : Seq(Symbols)] /\ c.line = l /\ c.lines = <<>>
    BY <2>4, <2>5
  <2>7. [line |-> l, lines |-> ls] = [line |-> c.line, lines |-> ls \o c.lines]
    BY <2>1, <2>6
  <2>8. P(<<>>)
    BY <2>3, <2>6, <2>7 DEF c
  <2> QED
    BY <2>1, <2>8
<1>2. ASSUME NEW u \in Seq(Symbols), NEW x \in Symbols, u \in S PROVE Append(u, x) \in S
  <2> DEFINE c == Cut(l, u)
             d == Fold("cut", [line |-> l, lines |-> ls], u)
  <2>1. Cut(l, Append(u, x)) = CutLine(c, x)
    BY FoldAppend, Steps DEF Cut
  <2>2. Fold("cut", [line |-> l, lines |-> ls], Append(u, x)) = CutLine(d, x)
    BY FoldAppend, Steps
  <2>3. c \in [line : Symbols, lines : Seq(Symbols)] /\ d = [line |-> c.line, lines |-> ls \o c.lines]
    BY <1>2
  <2> HIDE DEF c, d
  <2>4. CutLine(c, x) \in [line : Symbols, lines : Seq(Symbols)]
    BY <2>3, StepTypes
  <2>5. CutLine(d, x) = [line |-> CutLine(c, x).line, lines |-> ls \o CutLine(c, x).lines]
    <3>1. CASE x # EOL
      BY <2>3, <3>1 DEF CutLine
    <3>2. CASE x = EOL
      <4>1. c.lines \in Seq(Symbols) /\ c.line \in Symbols
        BY <2>3
      <4>2. ls \o Append(c.lines, c.line) = Append(ls \o c.lines, c.line)
        BY <4>1
      <4> QED
        BY <2>3, <3>2, <4>2 DEF CutLine
    <3> QED
      BY <3>1, <3>2
  <2> QED
    BY <2>1, <2>2, <2>4, <2>5
<1> HIDE DEF S
<1>3. t \in S
  BY <1>1, <1>2, SeqSetInduction
<1> QED
  BY <1>3 DEF S

\* Lines starts with no line begun.
LEMMA LinesIsCut ==
  ASSUME NEW t \in Seq(Symbols)
  PROVE  Lines(t) = Cut(EOL, t).lines /\ Lines(t) \in Seq(Symbols)
<1>1. Lines(t) = Cut(EOL, t).lines
  BY FoldOfCutLine DEF Lines, Cut
<1> QED
  BY <1>1, CutAdds, SymbolTypes, EmptySeq

\* A text that has ended leaves no line begun ...
LEMMA EndedLine ==
  ASSUME NEW t \in Seq(Symbols), Ended(t)
  PROVE  Cut(EOL, t).line = EOL
<1>1. CASE t = <<>>
  BY <1>1, FoldEmpty DEF Cut
<1>2. CASE t # <<>>
  <2> DEFINE f == SubSeq(t, 1, Len(t) - 1)
  <2>1. f \in Seq(Symbols) /\ t = Append(f, EOL)
    BY <1>2 DEF Ended
  <2> HIDE DEF f
  <2>2. Cut(EOL, Append(f, EOL)) = CutLine(Cut(EOL, f), EOL)
    BY <2>1, SymbolTypes, FoldAppend, Steps DEF Cut
  <2> QED
    BY <2>1, <2>2 DEF CutLine
<1> QED
  BY <1>1, <1>2

\* ... so that what follows is cut as if it stood alone.
LEMMA LinesConcat ==
  ASSUME NEW c \in Seq(Symbols), Ended(c), NEW v \in Seq(Symbols)
  PROVE  Lines(c \o v) = Lines(c) \o Lines(v)
<1>1. Cut(EOL, c \o v) = Fold("cut", Cut(EOL, c), v)
  BY FoldConcat DEF Cut
<1>2. Cut(EOL, c) = [line |-> EOL, lines |-> Lines(c)]
  BY EndedLine, LinesIsCut, CutAdds, SymbolTypes, EmptySeq
<1>3. Fold("cut", [line |-> EOL, lines |-> Lines(c)], v).lines = Lines(c) \o Cut(EOL, v).lines
  <2> DEFINE ls == Lines(c)
  <2>1. ls \in Seq(Symbols)
    BY LinesIsCut
  <2> HIDE DEF ls
  <2>2. Fold("cut", [line |-> EOL, lines |-> ls], v) = [line |-> Cut(EOL, v).line, lines |-> ls \o Cut(EOL, v).lines]
    BY <2>1, CutAdds, SymbolTypes
  <2> QED
    BY <2>2 DEF ls
<1>4. c \o v \in Seq(Symbols)
  OBVIOUS
<1> QED
  BY <1>1, <1>2, <1>3, <1>4, LinesIsCut

\* One line, and a blank one.
LEMMA OneLine ==
  ASSUME NEW f \in {"event", "id", "data"}, NEW v \in Values
  PROVE  /\ Line(f, v) \in Seq(Symbols) /\ Ended(Line(f, v)) /\ Lines(Line(f, v)) = <<Text(f, v)>>
         /\ <<EOL>> \in Seq(Symbols) /\ Ended(<<EOL>>) /\ Lines(<<EOL>>) = <<EOL>> /\ Lines(<<>>) = <<>>
<1> DEFINE s == Text(f, v)
           b == [line |-> EOL, lines |-> <<>>]
<1>1. s \in Symbols /\ s # EOL /\ EOL \in Symbols
  BY SymbolTypes
<1>2. Line(f, v) = <<s, EOL>> /\ <<s, EOL>> = Append(<<s>>, EOL) /\ <<s>> = Append(<<>>, s) /\ <<EOL>> = Append(<<>>, EOL)
  BY DEF Line
<1> HIDE DEF s
<1>3. <<>> \in Seq(Symbols) /\ <<s>> \in Seq(Symbols) /\ <<s, EOL>> \in Seq(Symbols) /\ <<EOL>> \in Seq(Symbols)
  BY <1>1
<1>4. Fold("cut", b, <<>>) = b
  BY FoldEmpty
<1> HIDE DEF b
<1>5. \A u \in Seq(Symbols), x \in Symbols : Fold("cut", b, Append(u, x)) = CutLine(Fold("cut", b, u), x)
  BY FoldAppend, Steps
<1>6. /\ Fold("cut", b, <<s>>) = CutLine(b, s) /\ Fold("cut", b, <<EOL>>) = CutLine(b, EOL)
      /\ Fold("cut", b, <<s, EOL>>) = CutLine(CutLine(b, s), EOL)
  <2>1. Fold("cut", b, <<s>>) = CutLine(b, s)
    BY <1>1, <1>2, <1>3, <1>4, <1>5
  <2>2. Fold("cut", b, <<EOL>>) = CutLine(b, EOL)
    BY <1>1, <1>2, <1>3, <1>4, <1>5
  <2>3. Fold("cut", b, <<s, EOL>>) = CutLine(Fold("cut", b, <<s>>), EOL)
    BY <1>1, <1>2, <1>3, <1>5
  <2> QED
    BY <2>1, <2>2, <2>3
<1>7. /\ Lines(<<>>) = b.lines /\ Lines(<<EOL>>) = CutLine(b, EOL).lines
      /\ Lines(<<s, EOL>>) = CutLine(CutLine(b, s), EOL).lines
  BY <1>3, <1>4, <1>6, LinesIsCut DEF Cut, b
<1>8. CutLine(b, EOL).lines = <<EOL>> /\ CutLine(CutLine(b, s), EOL).lines = <<s>>
  BY <1>1 DEF CutLine, b
<1>9. Ended(<<EOL>>) /\ Ended(<<s, EOL>>)
  BY DEF Ended
<1> QED
  BY <1>2, <1>3, <1>7, <1>8, <1>9 DEF s, b

\* What splitLines leaves of a text.
Incomplete(t) == SubSeq(t, Len(Complete(t)) + 1, Len(t))

\* splitLines cuts a text after its last end of line, which is the only way
\* to cut it into a text that has ended and a rest without one.
LEMMA SplitIs ==
  ASSUME NEW c \in Seq(Symbols), NEW r \in Seq(Symbols), Ended(c), NoEnd(r)
  PROVE  Complete(c \o r) = c /\ Incomplete(c \o r) = r
<1> DEFINE t == c \o r
           cut == {i \in DOMAIN t : t[i] = EOL}
<1>1. /\ t \in Seq(Symbols) /\ Len(t) = Len(c) + Len(r) /\ DOMAIN t = 1..Len(t) /\ Len(c) \in Nat /\ Len(r) \in Nat
      /\ \A i \in 1..Len(c) : t[i] = c[i]
      /\ \A i \in 1..Len(r) : t[Len(c) + i] = r[i]
  OBVIOUS
<1>2. SubSeq(t, 1, Len(c)) = c /\ SubSeq(t, Len(c) + 1, Len(t)) = r
  OBVIOUS
<1>3. Complete(t) = IF cut = {} THEN <<>> ELSE SubSeq(t, 1, CHOOSE i \in cut : \A j \in cut : j <= i)
  BY DEF Complete
<1> HIDE DEF t
<1>4. \A i \in cut : i \in 1..Len(c)
  <2> SUFFICES ASSUME NEW i \in cut, i \notin 1..Len(c) PROVE FALSE
    OBVIOUS
  <2>1. i \in 1..Len(t) /\ t[i] = EOL
    BY <1>1
  <2>2. i - Len(c) \in 1..Len(r) /\ Len(c) + (i - Len(c)) = i
    BY <1>1, <2>1
  <2> QED
    BY <1>1, <2>1, <2>2 DEF NoEnd
<1>5. CASE c = <<>>
  <2>1. cut = {}
    BY <1>4, <1>5
  <2> QED
    BY <1>2, <1>3, <1>5, <2>1 DEF t, Incomplete
<1>6. CASE c # <<>>
  <2>1. Len(c) \in 1..Len(c) /\ Len(c) \in 1..Len(t)
    BY <1>1, <1>6
  <2>2. Len(c) \in cut
    BY <1>1, <1>6, <2>1 DEF Ended
  <2>3. \A j \in cut : j <= Len(c)
    BY <1>1, <1>4
  <2>4. \A i \in cut : (\A j \in cut : j <= i) => i = Len(c)
    BY <1>1, <1>4, <2>2
  <2> HIDE DEF cut
  <2>5. (CHOOSE i \in cut : \A j \in cut : j <= i) = Len(c)
    BY <2>2, <2>3, <2>4
  <2>6. Complete(t) = c
    BY <1>2, <1>3, <2>2, <2>5
  <2> QED
    BY <1>2, <2>6 DEF t, Incomplete
<1> QED
  BY <1>5, <1>6

\* Every text can be cut so.
LEMMA SplitText ==
  ASSUME NEW t \in Seq(Symbols)
  PROVE  /\ Complete(t) \in Seq(Symbols) /\ Incomplete(t) \in Seq(Symbols)
         /\ Ended(Complete(t)) /\ NoEnd(Incomplete(t)) /\ t = Complete(t) \o Incomplete(t)
<1> DEFINE n == Len(t)
           T == {m \in 0..n : \A i \in m+1..n : t[i] # EOL}
<1>1. n \in Nat /\ n \in T /\ T \in SUBSET Nat
  OBVIOUS
<1>2. PICK m \in T : \A k \in T : m <= k
  BY <1>1, LeastNatural
<1>3. m \in 0..n /\ n \in Nat /\ \A i \in m+1..n : t[i] # EOL
  BY <1>1, <1>2
<1> DEFINE c == SubSeq(t, 1, m)
           r == SubSeq(t, m + 1, n)
<1>4. /\ c \in Seq(Symbols) /\ Len(c) = m /\ \A i \in 1..m : c[i] = t[i]
      /\ r \in Seq(Symbols) /\ Len(r) = n - m /\ \A i \in 1..Len(r) : r[i] = t[m + i] /\ m + i \in m+1..n
  <2> HIDE DEF T
  <2>1. (\A i \in 1..m : t[i] \in Symbols) /\ (\A i \in m+1..n : t[i] \in Symbols)
    BY <1>3
  <2>2. c \in Seq(Symbols) /\ Len(c) = m /\ \A i \in 1..m : c[i] = t[i]
    BY <1>3, <2>1, SubSeqProperties
  <2> DEFINE k == m + 1
  <2>3. k \in Int /\ n \in Int /\ n - k + 1 = n - m /\ (IF k <= n THEN n - k + 1 ELSE 0) = n - m
    BY <1>3
  <2>4. \A i \in 1..(n - m) : k + i - 1 = m + i /\ m + i \in m+1..n
    BY <1>3
  <2>5. \A i \in k..n : t[i] \in Symbols
    BY <2>1
  <2>6. r = SubSeq(t, k, n)
    OBVIOUS
  <2> HIDE DEF k, r
  <2>7. r \in Seq(Symbols) /\ Len(r) = n - m /\ \A i \in 1..(n - m) : r[i] = t[k + i - 1]
    BY <2>3, <2>5, <2>6, SubSeqProperties
  <2> QED
    BY <2>2, <2>4, <2>7
<1>5. t = c \o r
  <2> HIDE DEF T
  <2>1. 1 \in 1..n+1 /\ m \in 1-1..n /\ n \in m..n
    BY <1>3
  <2>2. c \o r = SubSeq(t, 1, n)
    BY <2>1, ConcatAdjacentSubSeq
  <2> QED
    BY <2>2, SubSeqFull
<1>6. NoEnd(r)
  BY <1>3, <1>4 DEF NoEnd
<1>7. Ended(c)
  <2> SUFFICES ASSUME m # 0, t[m] # EOL PROVE FALSE
    <3> HIDE DEF c, T
    <3>1. m # 0 => c[m] = t[m]
      BY <1>3, <1>4
    <3>2. m = 0 => c = <<>>
      BY <1>4
    <3> QED
      BY <1>4, <3>1, <3>2 DEF Ended
  <2>1. m - 1 \in 0..n /\ \A i \in (m - 1) + 1..n : i = m \/ i \in m+1..n
    BY <1>3
  <2>2. m - 1 \in T
    BY <1>3, <2>1
  <2> HIDE DEF T
  <2> QED
    BY <1>2, <1>3, <2>2
<1> HIDE DEF c, r
<1>8. Complete(t) = c /\ Incomplete(t) = r
  BY <1>4, <1>5, <1>6, <1>7, SplitIs
<1> QED
  BY <1>4, <1>5, <1>6, <1>7, <1>8

\* Splitting goes on from what was incomplete.
LEMMA SplitOn ==
  ASSUME NEW t \in Seq(Symbols), NEW u \in Seq(Symbols)
  PROVE  /\ Incomplete(t) \o u \in Seq(Symbols)
         /\ Complete(t \o u) = Complete(t) \o Complete(Incomplete(t) \o u)
         /\ Incomplete(t \o u) = Incomplete(Incomplete(t) \o u)
         /\ Lines(Complete(t \o u)) = Lines(Complete(t)) \o Lines(Complete(Incomplete(t) \o u))
<1> DEFINE c == Complete(t)
           r == Incomplete(t)
           d == Complete(r \o u)
           q == Incomplete(r \o u)
<1>1. c \in Seq(Symbols) /\ r \in Seq(Symbols) /\ Ended(c) /\ t = c \o r
  BY SplitText
<1>2. r \o u \in Seq(Symbols)
  BY <1>1
<1>3. d \in Seq(Symbols) /\ q \in Seq(Symbols) /\ Ended(d) /\ NoEnd(q) /\ r \o u = d \o q
  BY <1>2, SplitText
<1> HIDE DEF c, r, d, q
<1>4. t \o u = (c \o d) \o q
  <2>1. (c \o r) \o u = c \o (r \o u)
    BY <1>1, ConcatAssociative
  <2>2. (c \o d) \o q = c \o (d \o q)
    <3>1. c \in Seq(Symbols) /\ d \in Seq(Symbols) /\ q \in Seq(Symbols)
      BY <1>1, <1>3
    <3> QED
      BY <3>1, ConcatAssociative
  <2> QED
    BY <1>1, <1>3, <2>1, <2>2
<1>5. c \o d \in Seq(Symbols) /\ Ended(c \o d)
  <2>1. c \o d \in Seq(Symbols) /\ Len(c \o d) = Len(c) + Len(d)
    BY <1>1, <1>3
  <2>2. CASE d = <<>>
    BY <1>1, <2>2
  <2>3. CASE d # <<>>
    BY <1>1, <1>3, <2>1, <2>3 DEF Ended
  <2> QED
    BY <2>1, <2>2, <2>3
<1>6. Complete(t \o u) = c \o d /\ Incomplete(t \o u) = q
  BY <1>3, <1>4, <1>5, SplitIs
<1>7. Lines(c \o d) = Lines(c) \o Lines(d)
  BY <1>1, <1>3, LinesConcat
<1> QED
  BY <1>2, <1>6, <1>7 DEF c, r, d, q

-----------------------------------------------------------------------------
(* Readers. *)

\* The TypeScript parser in the event e reads lines.
Parse(e, lines) == Fold("parse", NewAcc(e), lines)

\* It begins with nothing out.
LEMMA NewAccType == \A e \in AllEvents : NewAcc(e) \in Readings /\ NewAcc(e).event = e /\ NewAcc(e).out = <<>>
BY EmptySeq DEF NewAcc, Readings

\* Parsing adds to the events that are out.
LEMMA ParseAdds ==
  ASSUME NEW e \in AllEvents, NEW o \in Seq(AllEvents), NEW t \in Seq(Symbols)
  PROVE  /\ Parse(e, t) \in Readings
         /\ Fold("parse", [event |-> e, out |-> o], t) = [event |-> Parse(e, t).event, out |-> o \o Parse(e, t).out]
<1> DEFINE b == [event |-> e, out |-> o]
           P(u) == /\ Parse(e, u) \in Readings
                   /\ Fold("parse", b, u) = [event |-> Parse(e, u).event, out |-> o \o Parse(e, u).out]
           S == {u \in Seq(Symbols) : P(u)}
<1>1. <<>> \in S
  <2>1. o \o <<>> = o /\ <<>> \in Seq(Symbols)
    OBVIOUS
  <2>2. Parse(e, <<>>) = NewAcc(e)
    BY FoldEmpty DEF Parse
  <2>3. Fold("parse", b, <<>>) = b
    BY FoldEmpty
  <2>4. NewAcc(e) \in Readings /\ NewAcc(e).event = e /\ NewAcc(e).out = <<>>
    BY NewAccType
  <2>5. P(<<>>)
    BY <2>1, <2>2, <2>3, <2>4
  <2> QED
    BY <2>1, <2>5
<1>2. ASSUME NEW u \in Seq(Symbols), NEW x \in Symbols, u \in S PROVE Append(u, x) \in S
  <2> DEFINE c == Parse(e, u)
             d == Fold("parse", b, u)
  <2>1. Parse(e, Append(u, x)) = ParseLine(c, x)
    BY FoldAppend, Steps DEF Parse
  <2>2. Fold("parse", b, Append(u, x)) = ParseLine(d, x)
    BY FoldAppend, Steps
  <2>3. c \in Readings /\ d = [event |-> c.event, out |-> o \o c.out]
    BY <1>2
  <2> HIDE DEF c, d
  <2>4. ParseLine(c, x) \in Readings
    BY <2>3, StepTypes
  <2>5. ParseLine(d, x) = [event |-> ParseLine(c, x).event, out |-> o \o ParseLine(c, x).out]
    <3>1. CASE x # EOL
      BY <2>3, <3>1 DEF ParseLine, Readings
    <3>2. CASE x = EOL
      <4>1. c.out \in Seq(AllEvents) /\ c.event \in AllEvents
        BY <2>3 DEF Readings
      <4>2. o \o Append(c.out, c.event) = Append(o \o c.out, c.event)
        BY <4>1
      <4>3. TakeEvent(o \o c.out, c.event) = o \o TakeEvent(c.out, c.event)
        BY <4>2 DEF TakeEvent
      <4> QED
        BY <2>3, <3>2, <4>3 DEF ParseLine
    <3> QED
      BY <3>1, <3>2
  <2> QED
    BY <2>1, <2>2, <2>4, <2>5
<1> HIDE DEF S
<1>3. t \in S
  BY <1>1, <1>2, SeqSetInduction
<1> QED
  BY <1>3 DEF S

\* Lines that are read in two parts.
LEMMA ParseConcat ==
  ASSUME NEW e \in AllEvents, NEW s \in Seq(Symbols), NEW t \in Seq(Symbols)
  PROVE  /\ Parse(e, s).event \in AllEvents
         /\ Parse(e, s \o t).event = Parse(Parse(e, s).event, t).event
         /\ Parse(e, s \o t).out = Parse(e, s).out \o Parse(Parse(e, s).event, t).out
<1> DEFINE p == Parse(e, s)
<1>1. p \in Readings
  BY ParseAdds, EmptySeq
<1>2. p.event \in AllEvents /\ p.out \in Seq(AllEvents) /\ p = [event |-> p.event, out |-> p.out]
  BY <1>1 DEF Readings
<1>3. Parse(e, s \o t) = Fold("parse", p, t)
  BY FoldConcat DEF Parse
<1> HIDE DEF p
<1>4. Fold("parse", [event |-> p.event, out |-> p.out], t) =
        [event |-> Parse(p.event, t).event, out |-> p.out \o Parse(p.event, t).out]
  BY <1>2, ParseAdds
<1> QED
  BY <1>2, <1>3, <1>4 DEF p

\* Selecting one event after others.
LEMMA TakeAfter ==
  ASSUME NEW a \in Seq(AllEvents), NEW b \in Seq(AllEvents), NEW x \in AllEvents
  PROVE  TakeEvent(a \o b, x) = a \o TakeEvent(b, x)
<1>1. Append(a \o b, x) = a \o Append(b, x)
  OBVIOUS
<1> QED
  BY <1>1 DEF TakeEvent

\* Selecting from a sequence and from one that goes on.
LEMMA TakeAdds ==
  ASSUME NEW s \in Seq(AllEvents), NEW t \in Seq(AllEvents)
  PROVE  /\ Dispatched(t) \in Seq(AllEvents)
         /\ Dispatched(s \o t) = Dispatched(s) \o Dispatched(t)
<1> DEFINE D(u) == Fold("take", <<>>, u)
           S == {u \in Seq(AllEvents) : D(u) \in Seq(AllEvents) /\ D(s \o u) = D(s) \o D(u)}
<1>1. \A u \in Seq(AllEvents) : Dispatched(u) = D(u)
  BY FoldOfTakeEvent DEF Dispatched
<1>2. D(<<>>) = <<>>
  BY FoldEmpty
<1>3. \A u \in Seq(AllEvents), x \in AllEvents : D(Append(u, x)) = TakeEvent(D(u), x)
  BY FoldAppend, Steps
<1> HIDE DEF D
<1>4. \A u \in Seq(AllEvents) : D(u) \in Seq(AllEvents)
  <2> DEFINE T == {u \in Seq(AllEvents) : D(u) \in Seq(AllEvents)}
  <2>1. <<>> \in T
    BY <1>2, EmptySeq
  <2>2. \A u \in Seq(AllEvents), x \in AllEvents : u \in T => Append(u, x) \in T
    BY <1>3, StepTypes, AppendProperties
  <2> HIDE DEF T
  <2>3. Seq(AllEvents) \subseteq T
    BY <2>1, <2>2, SeqSetInduction
  <2> QED
    BY <2>3 DEF T
<1>5. <<>> \in S
  <2>1. s \o <<>> = s /\ D(s) \o <<>> = D(s) /\ <<>> \in Seq(AllEvents)
    BY <1>4, ConcatEmptySeq, EmptySeq
  <2> QED
    BY <1>2, <1>4, <2>1
<1>6. ASSUME NEW u \in Seq(AllEvents), NEW x \in AllEvents, u \in S PROVE Append(u, x) \in S
  <2> DEFINE a == D(s)
             b == D(u)
  <2>1. s \o Append(u, x) = Append(s \o u, x) /\ s \o u \in Seq(AllEvents) /\ Append(u, x) \in Seq(AllEvents)
    OBVIOUS
  <2>2. D(Append(u, x)) = TakeEvent(b, x) /\ D(Append(s \o u, x)) = TakeEvent(a \o b, x)
    BY <1>3, <1>6, <2>1
  <2>3. a \in Seq(AllEvents) /\ b \in Seq(AllEvents)
    BY <1>4
  <2> HIDE DEF a, b
  <2>5. TakeEvent(a \o b, x) = a \o TakeEvent(b, x)
    BY <2>3, TakeAfter
  <2>6. D(s \o Append(u, x)) = a \o D(Append(u, x))
    BY <2>1, <2>2, <2>5
  <2> QED
    BY <1>4, <2>1, <2>6 DEF a
<1> HIDE DEF S
<1>7. t \in S
  BY <1>5, <1>6, SeqSetInduction
<1>8. D(t) \in Seq(AllEvents) /\ D(s \o t) = D(s) \o D(t)
  BY <1>7 DEF S
<1>9. s \o t \in Seq(AllEvents)
  OBVIOUS
<1> QED
  BY <1>1, <1>8, <1>9

\* Selecting from a sequence with one more event.
LEMMA TakeOne ==
  ASSUME NEW s \in Seq(AllEvents), NEW e \in AllEvents
  PROVE  Dispatched(Append(s, e)) = TakeEvent(Dispatched(s), e) /\ Dispatched(<<>>) = <<>>
<1>1. Fold("take", <<>>, Append(s, e)) = TakeEvent(Fold("take", <<>>, s), e)
  BY FoldAppend, Steps
<1>2. Append(s, e) \in Seq(AllEvents) /\ <<>> \in Seq(AllEvents)
  OBVIOUS
<1> QED
  BY <1>1, <1>2, FoldEmpty, FoldOfTakeEvent DEF Dispatched

\* The two readers take up fields in the same way; the Go reader returns
\* events without data too.
LEMMA ReadLikeParse ==
  ASSUME NEW t \in Seq(Symbols)
  PROVE  LET r == Fold("read", NewAcc(NoEvent), t) IN
         /\ r \in Readings
         /\ r.event = Parse(NoEvent, t).event
         /\ Dispatched(r.out) = Parse(NoEvent, t).out
<1> DEFINE R(u) == Fold("read", NewAcc(NoEvent), u)
           P(u) == Parse(NoEvent, u)
           S == {u \in Seq(Symbols) : /\ R(u) \in Readings /\ R(u).event = P(u).event
                                      /\ Dispatched(R(u).out) = P(u).out}
<1>1. <<>> \in S
  <2>1. R(<<>>) = NewAcc(NoEvent) /\ P(<<>>) = NewAcc(NoEvent)
    BY FoldEmpty DEF Parse
  <2>2. Dispatched(<<>>) = <<>>
    BY TakeOne, SymbolTypes, EmptySeq
  <2>3. NewAcc(NoEvent) \in Readings /\ NewAcc(NoEvent).out = <<>>
    BY NewAccType, SymbolTypes
  <2> HIDE DEF R, P
  <2> QED
    BY <2>1, <2>2, <2>3, EmptySeq
<1>2. ASSUME NEW u \in Seq(Symbols), NEW x \in Symbols, u \in S PROVE Append(u, x) \in S
  <2>1. R(Append(u, x)) = ReadLine(R(u), x) /\ P(Append(u, x)) = ParseLine(P(u), x)
    <3>1. R(Append(u, x)) = ReadLine(R(u), x)
      BY FoldAppend, Steps
    <3>2. P(Append(u, x)) = ParseLine(P(u), x)
      BY FoldAppend, Steps DEF Parse
    <3> QED
      BY <3>1, <3>2
  <2> DEFINE r == R(u)
             p == P(u)
  <2>2. r \in Readings /\ r.event = p.event /\ Dispatched(r.out) = p.out
    BY <1>2
  <2>3. p \in Readings
    BY ParseAdds, SymbolTypes, EmptySeq
  <2> HIDE DEF r, p, R, P
  <2>4. r.out \in Seq(AllEvents) /\ r.event \in AllEvents
    BY <2>2 DEF Readings
  <2>5. ReadLine(r, x) \in Readings
    BY <2>2, StepTypes
  <2>6. /\ ReadLine(r, x).event = ParseLine(p, x).event
        /\ Dispatched(ReadLine(r, x).out) = ParseLine(p, x).out
    <3>1. CASE x # EOL
      BY <2>2, <2>3, <3>1 DEF ReadLine, ParseLine, Readings
    <3>2. CASE x = EOL /\ r.event = NoEvent
      <4>1. ~Dispatches(NoEvent)
        BY DEF Dispatches, NoEvent, Event
      <4>2. ReadLine(r, x) = r
        BY <3>2 DEF ReadLine, HasFields
      <4>3. ParseLine(p, x) = [event |-> NoEvent, out |-> p.out]
        BY <2>2, <3>2, <4>1 DEF ParseLine, TakeEvent
      <4> QED
        BY <2>2, <3>2, <4>2, <4>3
    <3>3. CASE x = EOL /\ r.event # NoEvent
      <4>1. ReadLine(r, x) = [event |-> NoEvent, out |-> Append(r.out, r.event)]
        BY <3>3 DEF ReadLine, HasFields
      <4>2. ParseLine(p, x) = [event |-> NoEvent, out |-> TakeEvent(p.out, p.event)]
        BY <3>3 DEF ParseLine
      <4>3. Dispatched(Append(r.out, r.event)) = TakeEvent(Dispatched(r.out), r.event)
        BY <2>4, TakeOne
      <4> QED
        BY <2>2, <4>1, <4>2, <4>3
    <3> QED
      BY <3>1, <3>2, <3>3
  <2>7. Append(u, x) \in Seq(Symbols)
    OBVIOUS
  <2> QED
    BY <2>1, <2>5, <2>6, <2>7 DEF r, p
<1> HIDE DEF S
<1>3. t \in S
  BY <1>1, <1>2, SeqSetInduction
<1> QED
  BY <1>3 DEF S

-----------------------------------------------------------------------------
(* Writers. *)

\* Whole lines after whole lines.
LEMMA EndedConcat ==
  ASSUME NEW c \in Seq(Symbols), NEW d \in Seq(Symbols), Ended(c), Ended(d)
  PROVE  c \o d \in Seq(Symbols) /\ Ended(c \o d)
<1>1. c \o d \in Seq(Symbols) /\ Len(c \o d) = Len(c) + Len(d)
  OBVIOUS
<1>2. CASE d = <<>>
  BY <1>2
<1>3. CASE d # <<>>
  BY <1>1, <1>3 DEF Ended
<1> QED
  BY <1>1, <1>2, <1>3

\* A text of whole lines that takes the parser from one event to another.
Moves(u, e1, e2) ==
  /\ u \in Seq(Symbols) /\ Ended(u)
  /\ Parse(e1, Lines(u)) = [event |-> e2, out |-> <<>>]

\* Two such texts, one after the other.
LEMMA MovesThen ==
  ASSUME NEW u, NEW v, NEW e1 \in AllEvents, NEW e2 \in AllEvents, NEW e3 \in AllEvents,
         Moves(u, e1, e2), Moves(v, e2, e3)
  PROVE  Moves(u \o v, e1, e3)
<1>1. u \in Seq(Symbols) /\ v \in Seq(Symbols) /\ Ended(u) /\ Ended(v)
  BY DEF Moves
<1>2. u \o v \in Seq(Symbols) /\ Ended(u \o v)
  BY <1>1, EndedConcat
<1> DEFINE ls == Lines(u)
           lt == Lines(v)
           r  == Parse(e1, ls \o lt)
<1>3. ls \in Seq(Symbols) /\ lt \in Seq(Symbols) /\ Lines(u \o v) = ls \o lt
  BY <1>1, LinesConcat, LinesIsCut
<1>4. Parse(e1, ls) = [event |-> e2, out |-> <<>>] /\ Parse(e2, lt) = [event |-> e3, out |-> <<>>]
  BY DEF Moves
<1> HIDE DEF ls, lt
<1>5. r.event = Parse(Parse(e1, ls).event, lt).event /\ r.out = Parse(e1, ls).out \o Parse(Parse(e1, ls).event, lt).out
  BY <1>3, ParseConcat
<1>6. Parse(e1, ls).event = e2 /\ Parse(e1, ls).out = <<>> /\ Parse(e2, lt).event = e3 /\ Parse(e2, lt).out = <<>>
  BY <1>4
<1>7. <<>> \o <<>> = <<>>
  BY ConcatEmptySeq, EmptySeq
<1>8. r.event = e3 /\ r.out = <<>>
  BY <1>5, <1>6, <1>7
<1>9. r \in Readings
  <2>1. ls \o lt \in Seq(Symbols)
    BY <1>3
  <2> QED
    BY <2>1, ParseAdds, EmptySeq
<1>10. r = [event |-> r.event, out |-> r.out]
  <2> HIDE DEF r
  <2> QED BY <1>9 DEF Readings
<1> QED
  BY <1>2, <1>3, <1>8, <1>10 DEF Moves

\* One line takes up its field; no text takes up nothing.
LEMMA LineMoves ==
  ASSUME NEW e \in AllEvents
  PROVE  /\ Moves(<<>>, e, e)
         /\ \A f \in {"event", "id", "data"}, v \in Values : Moves(Line(f, v), e, ProcessField(e, Text(f, v)))
<1>1. Fold("parse", NewAcc(e), <<>>) = NewAcc(e) /\ NewAcc(e) = [event |-> e, out |-> <<>>]
  BY FoldEmpty DEF NewAcc
<1>2. Moves(<<>>, e, e)
  <2>1. Lines(<<>>) = <<>>
    BY OneLine, SymbolTypes
  <2>2. <<>> \in Seq(Symbols) /\ Ended(<<>>)
    BY DEF Ended
  <2> QED
    BY <1>1, <2>1, <2>2 DEF Moves, Parse
<1>3. ASSUME NEW f \in {"event", "id", "data"}, NEW v \in Values
      PROVE  Moves(Line(f, v), e, ProcessField(e, Text(f, v)))
  <2> DEFINE s == Text(f, v)
  <2>1. s \in Symbols /\ s # EOL
    BY SymbolTypes
  <2>2. Line(f, v) \in Seq(Symbols) /\ Ended(Line(f, v)) /\ Lines(Line(f, v)) = <<s>>
    BY OneLine
  <2> HIDE DEF s
  <2>3. <<s>> = Append(<<>>, s) /\ <<>> \in Seq(Symbols)
    OBVIOUS
  <2>4. Fold("parse", NewAcc(e), Append(<<>>, s)) = ParseLine(NewAcc(e), s)
    <3> DEFINE b == NewAcc(e)
    <3>1. Fold("parse", b, <<>>) = b
      BY <1>1
    <3> HIDE DEF b
    <3>2. \A u \in Seq(Symbols), x \in Symbols : Fold("parse", b, Append(u, x)) = ParseLine(Fold("parse", b, u), x)
      BY FoldAppend, Steps
    <3> QED
      BY <2>1, <2>3, <3>1, <3>2 DEF b
  <2>5. ParseLine(NewAcc(e), s) = [event |-> ProcessField(e, s), out |-> <<>>]
    BY <1>1, <2>1 DEF ParseLine
  <2> QED
    BY <2>2, <2>3, <2>4, <2>5 DEF Moves, Parse, s
<1> QED
  BY <1>2, <1>3

\* Appending to two sequences of data, one after the other.
LEMMA DataAppend ==
  \A s, t \in Seq(Values), v \in Values : Append(s \o t, v) = s \o Append(t, v)
OBVIOUS

\* writeSSEEvent's data lines: each is taken up after the ones before.
LEMMA DataMoves ==
  ASSUME NEW e \in AllEvents, NEW data \in Seq(Values)
  PROVE  Moves(WriteData(data), e, [e EXCEPT !.data = @ \o data])
<1> DEFINE W(d) == Fold("write", <<>>, d)
           E(d) == [event |-> e.event, id |-> e.id, data |-> e.data \o d]
           S == {d \in Seq(Values) : Moves(W(d), e, E(d))}
<1>1. e.data \in Seq(Values) /\ \A d \in Seq(Values) : E(d) \in AllEvents
  <2>1. e.data \in Seq(Values) /\ e.event \in Values /\ e.id \in Values
    BY DEF AllEvents
  <2>2. ASSUME NEW d \in Seq(Values) PROVE e.data \o d \in Seq(Values)
    BY <2>1
  <2> QED
    BY <2>1, <2>2 DEF AllEvents
<1>2. <<>> \in S
  <2>1. e.data \o <<>> = e.data /\ <<>> \in Seq(Values)
    BY <1>1, ConcatEmptySeq, EmptySeq
  <2>2. E(<<>>) = e
    BY <2>1 DEF AllEvents
  <2>3. W(<<>>) = <<>>
    BY FoldEmpty
  <2> QED
    BY <2>1, <2>2, <2>3, LineMoves
<1>3. ASSUME NEW d \in Seq(Values), NEW v \in Values, d \in S PROVE Append(d, v) \in S
  <2>1. W(Append(d, v)) = W(d) \o Line("data", v)
    BY FoldAppend, Steps DEF WriteLine
  <2>2. Append(e.data \o d, v) = e.data \o Append(d, v)
    BY <1>1, DataAppend
  <2>3. ProcessField(E(d), Text("data", v)) = [E(d) EXCEPT !.data = Append(@, v)]
    BY DEF ProcessField, Text
  <2>4. ProcessField(E(d), Text("data", v)) = E(Append(d, v))
    BY <2>2, <2>3
  <2>5. Append(d, v) \in Seq(Values)
    OBVIOUS
  <2>6. E(d) \in AllEvents /\ E(Append(d, v)) \in AllEvents
    BY <1>1, <2>5
  <2>7. Moves(W(d), e, E(d))
    BY <1>3
  <2> HIDE DEF W, E
  <2>8. Moves(Line("data", v), E(d), E(Append(d, v)))
    BY <2>4, <2>6, LineMoves
  <2>9. Moves(W(d) \o Line("data", v), e, E(Append(d, v)))
    BY <2>6, <2>7, <2>8, MovesThen
  <2> QED
    BY <2>1, <2>5, <2>9
<1> HIDE DEF S
<1>4. data \in S
  BY <1>2, <1>3, SeqSetInduction
<1>6. E(data) = [e EXCEPT !.data = @ \o data]
  <2> DEFINE x == e.data \o data
  <2> HIDE DEF x
  <2>1. [event |-> e.event, id |-> e.id, data |-> x] = [e EXCEPT !.data = x]
    BY DEF AllEvents
  <2> QED
    BY <2>1 DEF x
<1>5. WriteData(data) = W(data)
  BY FoldOfWriteLine DEF WriteData
<1> QED
  BY <1>4, <1>5, <1>6 DEF S

\* What writeSSEEvent writes is read back as that event, if it has data.
LEMMA EventRead ==
  ASSUME NEW e \in AllEvents
  PROVE  /\ WriteEvent(e) \in Seq(Symbols) /\ Ended(WriteEvent(e))
         /\ Parse(NoEvent, Lines(WriteEvent(e))) = [event |-> NoEvent, out |-> TakeEvent(<<>>, e)]
<1> DEFINE u1 == IF e.event # None THEN Line("event", e.event) ELSE <<>>
           u2 == IF e.id # None THEN Line("id", e.id) ELSE <<>>
           u3 == WriteData(e.data)
           e1 == [NoEvent EXCEPT !.event = e.event]
           e2 == [e1 EXCEPT !.id = e.id]
<1>1. e.event \in Values /\ e.id \in Values /\ e.data \in Seq(Values)
  BY DEF AllEvents
<1>2. NoEvent \in AllEvents /\ e1 \in AllEvents /\ e2 \in AllEvents
  BY <1>1, SymbolTypes DEF AllEvents
<1>3. Moves(u1, NoEvent, e1)
  <2>1. CASE e.event # None
    <3>1. ProcessField(NoEvent, Text("event", e.event)) = e1
      BY DEF ProcessField, Text
    <3> QED
      BY <1>1, <1>2, <2>1, <3>1, LineMoves
  <2>2. CASE e.event = None
    <3>1. e1 = NoEvent
      BY <2>2 DEF NoEvent, Event
    <3> QED
      BY <1>2, <2>2, <3>1, LineMoves
  <2> QED
    BY <2>1, <2>2
<1>4. Moves(u2, e1, e2)
  <2>1. CASE e.id # None
    <3>1. ProcessField(e1, Text("id", e.id)) = e2
      BY DEF ProcessField, Text
    <3> QED
      BY <1>1, <1>2, <2>1, <3>1, LineMoves
  <2>2. CASE e.id = None
    <3>1. e1 \in AllEvents /\ e1.id = e.id
      BY <1>2, <2>2 DEF NoEvent, Event
    <3>2. [e1 EXCEPT !.id = e1.id] = e1
      BY <3>1 DEF AllEvents
    <3>3. e2 = e1
      BY <3>1, <3>2
    <3> QED
      BY <1>2, <2>2, <3>3, LineMoves
  <2> QED
    BY <2>1, <2>2
<1>5. Moves(u3, e2, e)
  <2>1. <<>> \o e.data = e.data
    BY <1>1, ConcatEmptySeq
  <2>2. [e2 EXCEPT !.data = @ \o e.data] = e
    BY <1>1, <2>1 DEF NoEvent, Event, AllEvents
  <2> QED
    BY <1>1, <1>2, <2>2, DataMoves
<1>6. WriteEvent(e) = u1 \o u2 \o u3 \o <<EOL>>
  BY DEF WriteEvent
<1> DEFINE u == u1 \o u2 \o u3
<1>7. Moves(u, NoEvent, e)
  <2> HIDE DEF u1, u2, u3, e1, e2
  <2>1. Moves(u1 \o u2, NoEvent, e2)
    BY <1>2, <1>3, <1>4, MovesThen
  <2> QED
    BY <1>2, <1>5, <2>1, MovesThen
<1> HIDE DEF u
<1>8. u \in Seq(Symbols) /\ Ended(u) /\ Parse(NoEvent, Lines(u)) = [event |-> e, out |-> <<>>]
  BY <1>7 DEF Moves
<1>9. <<EOL>> \in Seq(Symbols) /\ Ended(<<EOL>>) /\ Lines(<<EOL>>) = <<EOL>>
  BY OneLine, SymbolTypes
<1>10. u \o <<EOL>> \in Seq(Symbols) /\ Ended(u \o <<EOL>>) /\ Lines(u \o <<EOL>>) = Append(Lines(u), EOL)
  <2>1. Lines(u \o <<EOL>>) = Lines(u) \o <<EOL>>
    BY <1>8, <1>9, LinesConcat
  <2> DEFINE ls == Lines(u)
  <2>2. ls \in Seq(Symbols)
    BY <1>8, LinesIsCut
  <2> HIDE DEF ls
  <2>3. ls \o <<EOL>> = Append(ls, EOL)
    BY <2>2, SymbolTypes
  <2> QED
    BY <1>8, <1>9, <2>1, <2>3, EndedConcat DEF ls
<1>11. Parse(NoEvent, Append(Lines(u), EOL)) = ParseLine([event |-> e, out |-> <<>>], EOL)
  BY <1>8, LinesIsCut, SymbolTypes, FoldAppend, Steps DEF Parse
<1>12. ParseLine([event |-> e, out |-> <<>>], EOL) = [event |-> NoEvent, out |-> TakeEvent(<<>>, e)]
  BY DEF ParseLine
<1>13. WriteEvent(e) = u \o <<EOL>>
  BY <1>6 DEF u
<1> QED
  BY <1>10, <1>11, <1>12, <1>13

-----------------------------------------------------------------------------
(* Texts that are read in chunks. *)

\* What one reading of a text, from its start, makes of it: the events handed
\* on, and the fields of the event it is in.
Parsed(text) == Parse(NoEvent, Lines(Complete(text)))

\* The parser that has been fed a text.
ParserOf(text) == [incompleteLine |-> Incomplete(text), event |-> Parsed(text).event]

\* The event a reader begins with is one.
LEMMA NoEventType == NoEvent \in AllEvents
BY SymbolTypes

\* ParseConcat for a parser that begins.
LEMMA ParseOn ==
  ASSUME NEW s \in Seq(Symbols), NEW t \in Seq(Symbols)
  PROVE  /\ Parse(NoEvent, s \o t).event = Parse(Parse(NoEvent, s).event, t).event
         /\ Parse(NoEvent, s \o t).out = Parse(NoEvent, s).out \o Parse(Parse(NoEvent, s).event, t).out
BY NoEventType, ParseConcat

\* Types of a reading.
LEMMA ParsedType ==
  ASSUME NEW text \in Seq(Symbols)
  PROVE  Parsed(text) \in Readings /\ Parsed(text).event \in AllEvents /\ Parsed(text).out \in Seq(AllEvents)
<1>1. Lines(Complete(text)) \in Seq(Symbols)
  BY SplitText, LinesIsCut
<1>2. Parsed(text) \in Readings
  BY <1>1, ParseAdds, SymbolTypes, EmptySeq DEF Parsed
<1> QED
  BY <1>2 DEF Readings

\* Of sse-parser.ts: a parser that has been fed a text and is fed a chunk is as
\* one that was fed both at once, wherever the chunk begins and ends, and what
\* it dispatches in the two calls is what it would in one.  Nothing is said of
\* what the text holds.
THEOREM ChunksDoNotMatter ==
  ASSUME NEW text \in Seq(Symbols), NEW chunk \in Seq(Symbols)
  PROVE  /\ Feed(ParserOf(text), chunk).parser = ParserOf(text \o chunk)
         /\ Parsed(text).out \o Feed(ParserOf(text), chunk).out = Parsed(text \o chunk).out
<1> DEFINE l1 == Lines(Complete(text))
           rest == Incomplete(text) \o chunk
           l2 == Lines(Complete(rest))
           e == Parsed(text).event
           done == Parse(e, l2)
<1>1. rest \in Seq(Symbols) /\ l1 \in Seq(Symbols) /\ l2 \in Seq(Symbols)
  BY SplitOn, SplitText, LinesIsCut
<1>2. Lines(Complete(text \o chunk)) = l1 \o l2 /\ Incomplete(text \o chunk) = Incomplete(rest)
  BY SplitOn
<1>3. FoldLeft(ParseLine, NewAcc(e), l2) = done
  BY <1>1, FoldOfParseLine DEF Parse
<1>4. Parsed(text \o chunk).event = done.event /\ Parsed(text \o chunk).out = Parsed(text).out \o done.out
  <2> HIDE DEF l1, l2
  <2>1. Parsed(text \o chunk) = Parse(NoEvent, l1 \o l2) /\ Parsed(text) = Parse(NoEvent, l1)
    BY <1>2 DEF Parsed, l1
  <2> QED
    <3> HIDE DEF rest, e, done
    <3>1. l1 \in Seq(Symbols) /\ l2 \in Seq(Symbols)
      BY <1>1
    <3>2. /\ Parse(NoEvent, l1 \o l2).event = Parse(Parse(NoEvent, l1).event, l2).event
          /\ Parse(NoEvent, l1 \o l2).out = Parse(NoEvent, l1).out \o Parse(Parse(NoEvent, l1).event, l2).out
      BY <3>1, ParseOn
    <3> QED
      BY <2>1, <3>2 DEF e, done
<1>5. /\ Feed(ParserOf(text), chunk).parser = [incompleteLine |-> Incomplete(rest), event |-> done.event]
      /\ Feed(ParserOf(text), chunk).out = done.out
  <2> DEFINE f == FoldLeft(ParseLine, NewAcc(e), l2)
  <2>1. ParserOf(text).incompleteLine = Incomplete(text) /\ ParserOf(text).event = e
    BY DEF ParserOf
  <2>2. Feed(ParserOf(text), chunk) = [parser |-> [incompleteLine |-> Incomplete(rest), event |-> f.event], out |-> f.out]
    BY <2>1, Zenon DEF Feed, Incomplete
  <2> HIDE DEF f, done
  <2> QED
    BY <1>3, <2>2 DEF f
<1> QED
  BY <1>2, <1>4, <1>5 DEF ParserOf

\* What is handed on of a text is handed on first of one that goes on.
LEMMA ParsedGrows ==
  ASSUME NEW text \in Seq(Symbols), NEW more \in Seq(Symbols)
  PROVE  \E y \in Seq(AllEvents) : Parsed(text \o more).out = Parsed(text).out \o y
<1> DEFINE l2 == Lines(Complete(Incomplete(text) \o more))
           done == Parse(Parsed(text).event, l2)
<1>1. l2 \in Seq(Symbols)
  BY SplitOn, SplitText, LinesIsCut
<1>2. done \in Readings
  BY <1>1, ParseAdds, ParsedType, EmptySeq
<1>3. Parsed(text \o more).out = Parsed(text).out \o done.out
  <2> DEFINE l1 == Lines(Complete(text))
  <2>1. l1 \in Seq(Symbols)
    BY SplitText, LinesIsCut
  <2>2. Lines(Complete(text \o more)) = l1 \o l2
    BY SplitOn
  <2> HIDE DEF l1, l2
  <2>3. Parsed(text \o more) = Parse(NoEvent, l1 \o l2) /\ Parsed(text) = Parse(NoEvent, l1)
    BY <2>2 DEF Parsed, l1
  <2> QED
    BY <1>1, <2>1, <2>3, ParseOn
<1> HIDE DEF done
<1>4. done.out \in Seq(AllEvents)
  BY <1>2 DEF Readings
<1> QED
  BY <1>3, <1>4

\* Nothing read: the parser as createParser makes it.
LEMMA ParsedNothing == ParserOf(<<>>) = NewParser /\ Parsed(<<>>).out = <<>>
<1>1. <<>> \in Seq(Symbols) /\ Ended(<<>>) /\ NoEnd(<<>>) /\ <<>> \o <<>> = <<>>
  BY DEF Ended, NoEnd
<1>2. Complete(<<>>) = <<>> /\ Incomplete(<<>>) = <<>>
  BY <1>1, SplitIs
<1>3. Lines(<<>>) = <<>>
  BY OneLine, SymbolTypes
<1>4. Parsed(<<>>) = NewAcc(NoEvent)
  BY <1>2, <1>3, FoldEmpty DEF Parsed, Parse
<1>5. Parsed(<<>>).event = NoEvent /\ Parsed(<<>>).out = <<>>
  BY <1>4, NewAccType, SymbolTypes
<1> QED
  BY <1>2, <1>5 DEF ParserOf, NewParser

\* Whole lines of which a parser that is in no event makes these events, and
\* then is in no event again: such is what writeSSEEvent writes of them.
Clean(text, es) ==
  /\ text \in Seq(Symbols) /\ Ended(text)
  /\ Parse(NoEvent, Lines(text)) = [event |-> NoEvent, out |-> Dispatched(es)]

\* The empty text is that of no event.
LEMMA CleanNothing == Clean(<<>>, <<>>)
<1>1. <<>> \in Seq(Symbols) /\ Ended(<<>>)
  BY DEF Ended
<1>2. Lines(<<>>) = <<>>
  BY OneLine, SymbolTypes
<1>3. Dispatched(<<>>) = <<>>
  BY TakeOne, SymbolTypes, EmptySeq
<1>4. Parse(NoEvent, <<>>) = [event |-> NoEvent, out |-> <<>>]
  BY FoldEmpty DEF Parse, NewAcc
<1> QED
  BY <1>1, <1>2, <1>3, <1>4 DEF Clean

\* Writing one more event.
LEMMA CleanNext ==
  ASSUME NEW text, NEW es \in Seq(AllEvents), NEW e \in AllEvents, Clean(text, es)
  PROVE  Clean(text \o WriteEvent(e), Append(es, e))
<1> DEFINE u == WriteEvent(e)
           l1 == Lines(text)
           l2 == Lines(u)
           d == Dispatched(es)
           r == Parse(NoEvent, l1 \o l2)
<1>1. text \in Seq(Symbols) /\ Ended(text) /\ Parse(NoEvent, l1) = [event |-> NoEvent, out |-> d]
  BY DEF Clean
<1>2. u \in Seq(Symbols) /\ Ended(u) /\ Parse(NoEvent, l2) = [event |-> NoEvent, out |-> TakeEvent(<<>>, e)]
  BY EventRead
<1> HIDE DEF u
<1>3. l1 \in Seq(Symbols) /\ l2 \in Seq(Symbols) /\ Lines(text \o u) = l1 \o l2
  BY <1>1, <1>2, LinesConcat, LinesIsCut
<1>4. text \o u \in Seq(Symbols) /\ Ended(text \o u)
  BY <1>1, <1>2, EndedConcat
<1> HIDE DEF l1, l2, d
<1>5. r.event = Parse(NoEvent, l2).event /\ r.out = d \o Parse(NoEvent, l2).out
  <2>1. Parse(NoEvent, l1).event = NoEvent /\ Parse(NoEvent, l1).out = d
    BY <1>1
  <2> QED
    BY <1>3, <2>1, ParseOn
<1>6. r.event = NoEvent /\ r.out = d \o TakeEvent(<<>>, e)
  BY <1>2, <1>5
<1>7. r = [event |-> r.event, out |-> r.out]
  <2>1. l1 \o l2 \in Seq(Symbols)
    BY <1>3
  <2>2. r \in Readings
    BY <2>1, ParseAdds, SymbolTypes, EmptySeq
  <2> HIDE DEF r
  <2> QED
    BY <2>2 DEF Readings
<1>8. d \o TakeEvent(<<>>, e) = Dispatched(Append(es, e))
  <2>1. d \in Seq(AllEvents) /\ <<>> \in Seq(AllEvents) /\ d \o <<>> = d
    BY TakeAdds, EmptySeq, ConcatEmptySeq DEF d
  <2>2. TakeEvent(d \o <<>>, e) = d \o TakeEvent(<<>>, e)
    BY <2>1, TakeAfter
  <2> QED
    BY <2>1, <2>2, TakeOne DEF d
<1> QED
  BY <1>3, <1>4, <1>6, <1>7, <1>8 DEF Clean, u

\* ... and it is read back as these events.
LEMMA CleanRead ==
  ASSUME NEW text, NEW es, Clean(text, es)
  PROVE  Parsed(text).out = Dispatched(es)
<1>1. text \in Seq(Symbols) /\ Ended(text) /\ <<>> \in Seq(Symbols) /\ NoEnd(<<>>) /\ text \o <<>> = text
  BY ConcatEmptySeq DEF Clean, NoEnd
<1>2. Complete(text) = text
  BY <1>1, SplitIs
<1> QED
  BY <1>2 DEF Clean, Parsed

\* Of sse_reader.go: SSEEventReader makes the same events of a text as
\* sse-parser.ts does, but for those without data, which that one drops.
THEOREM ReadersMakeTheSame ==
  ASSUME NEW text \in Seq(Symbols)
  PROVE  Dispatched(ReadEvents(text)) = Parsed(text).out
<1> DEFINE ls == Lines(Complete(text))
<1>1. ls \in Seq(Symbols)
  BY SplitText, LinesIsCut
<1>2. ReadEvents(text) = Fold("read", NewAcc(NoEvent), ls).out
  BY <1>1, FoldOfReadLine DEF ReadEvents
<1> HIDE DEF ls
<1>3. Dispatched(Fold("read", NewAcc(NoEvent), ls).out) = Parse(NoEvent, ls).out
  BY <1>1, ReadLikeParse
<1> QED
  BY <1>2, <1>3 DEF Parsed, ls

-----------------------------------------------------------------------------
(* How a stream ends. *)

\* The producer has closed the channel, the handler has taken and written
\* everything from it and has returned, and the client has read it all.
Drained(p) ==
  /\ p \in closed /\ events[p] = <<>>
  /\ spc[p] = "returned" /\ holding[p] = NoEvent
  /\ wire[p] = <<>>

\* "complete" is no error of the connection, no abort, no done context.
CompleteMeansDrained == \A p \in Posts : cpc[p] = "complete" => Drained(p)

-----------------------------------------------------------------------------
(* The inductive invariant. *)

\* Every function is one on the posts.
Shapes ==
  /\ DOMAIN cpc = Posts /\ DOMAIN spc = Posts /\ DOMAIN holding = Posts
  /\ DOMAIN headers = Posts /\ DOMAIN body = Posts /\ DOMAIN wire = Posts
  /\ DOMAIN events = Posts

\* A handler that has begun answers a post that has, and has returned when
\* its body has ended; it leaves its loop because the context is done, or
\* because the channel is closed and empty, and the context is only done
\* when the connection is broken or the client has aborted.
PostInv(p) ==
  /\ spc[p] \in {"idle", "handle"} <=> headers[p] = "none"
  /\ spc[p] \in {"select", "write"} => headers[p] = "stream"
  /\ spc[p] # "write" => holding[p] = NoEvent
  /\ spc[p] = "returned" /\ headers[p] = "stream" => p \in gone \/ (p \in closed /\ events[p] = <<>>)
  /\ body[p] = "eof" => spc[p] = "returned"
  /\ p \in gone => body[p] = "broken" \/ p \in aborted
  /\ cpc[p] = "idle" <=> spc[p] = "idle"
  /\ cpc[p] \in {"read", "complete"} => headers[p] = "stream"
  /\ cpc[p] = "complete" => Drained(p) /\ body[p] = "eof"

StreamInv == Shapes /\ \A p \in Posts : PostInv(p)

\* It holds at first.
LEMMA StreamInit == Init => StreamInv
BY DEF Init, StreamInv, Shapes, PostInv

\* What a step of one post leaves of another.
Same(q) ==
  /\ UNCHANGED <<cpc[q], spc[q], holding[q], headers[q], body[q], wire[q], events[q]>>
  /\ q \in gone' <=> q \in gone
  /\ q \in closed' <=> q \in closed
  /\ q \in aborted' <=> q \in aborted

\* It is kept when it is for the post of the step.
LEMMA OthersKeep ==
  ASSUME StreamInv, NEW p \in Posts, Shapes', \A q \in Posts \ {p} : Same(q), PostInv(p)'
  PROVE  StreamInv'
<1>1. ASSUME NEW q \in Posts, q # p PROVE PostInv(q)'
  <2>1. PostInv(q) /\ Same(q)
    BY <1>1 DEF StreamInv
  <2> QED
    BY <2>1 DEF PostInv, Drained, Same
<1> QED
  BY <1>1 DEF StreamInv

\* The handler and the producer.  A handler that returns has its context done
\* or the channel closed and empty.
LEMMA ServerKeeps ==
  ASSUME StreamInv, NEW p \in Posts,
         Handler(p) \/ CloseChannel(p) \/ \E named \in BOOLEAN, lines \in DataLines : Produce(p, named, lines)
  PROVE  StreamInv'
<1>1. PostInv(p) /\ Shapes
  BY DEF StreamInv
<1> DEFINE Kept == Shapes' /\ (\A q \in Posts \ {p} : Same(q)) /\ PostInv(p)'
<1>2. ASSUME Handle(p) PROVE Kept
  BY <1>1, <1>2 DEF Handle, Shapes, Same, PostInv, Drained, clientVars, channelVars
<1>3. ASSUME SelectDone(p) PROVE Kept
  BY <1>1, <1>3 DEF SelectDone, Return, Shapes, Same, PostInv, Drained, clientVars, channelVars
<1>4. ASSUME SelectEvent(p) PROVE Kept
  BY <1>1, <1>4 DEF SelectEvent, Shapes, Same, PostInv, Drained, clientVars
<1>5. ASSUME SelectClosed(p) PROVE Kept
  BY <1>1, <1>5 DEF SelectClosed, Return, Shapes, Same, PostInv, Drained, clientVars, channelVars
<1>6. ASSUME WriteSSEEvent(p) PROVE Kept
  BY <1>1, <1>6 DEF WriteSSEEvent, Shapes, Same, PostInv, Drained, clientVars, channelVars
<1>7. ASSUME CloseChannel(p) PROVE Kept
  BY <1>1, <1>7 DEF CloseChannel, Shapes, Same, PostInv, Drained, clientVars
<1>8. ASSUME NEW named, NEW lines, Produce(p, named, lines) PROVE Kept
  <2>1. PICK e : events' = [events EXCEPT ![p] = Append(@, e)]
    BY <1>8 DEF Produce
  <2>2. p \notin closed /\ UNCHANGED <<cpc, aborted, spc, holding, headers, body, wire, gone, closed>>
    BY <1>8 DEF Produce, clientVars
  <2> QED
    BY <1>1, <2>1, <2>2 DEF Shapes, Same, PostInv, Drained
<1> HIDE DEF Kept
<1>9. Kept
  BY <1>2, <1>3, <1>4, <1>5, <1>6, <1>7, <1>8 DEF Handler
<1> QED
  BY <1>9, OthersKeep DEF Kept

\* The client.  It takes a stream for complete when the body has ended, not
\* broken, and the text is read; then the context was not done.
LEMMA ClientKeeps ==
  ASSUME StreamInv, NEW p \in Posts, Client(p) \/ Post(p)
  PROVE  StreamInv'
<1>1. PostInv(p) /\ Shapes
  BY DEF StreamInv
<1> DEFINE Kept == Shapes' /\ (\A q \in Posts \ {p} : Same(q)) /\ PostInv(p)'
<1>2. ASSUME Respond(p) PROVE Kept
  BY <1>1, <1>2 DEF Respond, Settle, Shapes, Same, PostInv, Drained, channelVars
<1>3. ASSUME ReadJSON(p) PROVE Kept
  BY <1>1, <1>3 DEF ReadJSON, Settle, Shapes, Same, PostInv, Drained, channelVars
<1>4. ASSUME FetchFails(p) PROVE Kept
  BY <1>1, <1>4 DEF FetchFails, Settle, Shapes, Same, PostInv, Drained, channelVars
<1>5. ASSUME ReadChunk(p) PROVE Kept
  <2>1. PICK t : wire' = [wire EXCEPT ![p] = t]
    BY <1>5 DEF ReadChunk
  <2>2. cpc[p] = "read" /\ UNCHANGED <<cpc, aborted, spc, holding, headers, body, gone, events, closed>>
    BY <1>5 DEF ReadChunk, channelVars
  <2> QED
    BY <1>1, <2>1, <2>2 DEF Shapes, Same, PostInv, Drained
<1>6. ASSUME ReadEnds(p) PROVE Kept
  BY <1>1, <1>6 DEF ReadEnds, Settle, Shapes, Same, PostInv, Drained, channelVars
<1>7. ASSUME Rejected(p) PROVE Kept
  BY <1>1, <1>7 DEF Rejected, Settle, Shapes, Same, PostInv, Drained, channelVars
<1>8. ASSUME Post(p) PROVE Kept
  BY <1>1, <1>8 DEF Post, Settle, Shapes, Same, PostInv, Drained, channelVars
<1> HIDE DEF Kept
<1>9. Kept
  BY <1>2, <1>3, <1>4, <1>5, <1>6, <1>7, <1>8 DEF Client
<1> QED
  BY <1>9, OthersKeep DEF Kept

\* The network.  What breaks is not complete.
LEMMA NetworkKeeps ==
  ASSUME StreamInv, NEW p \in Posts, Disconnect(p) \/ Break(p)
  PROVE  StreamInv'
<1>1. PostInv(p) /\ Shapes
  BY DEF StreamInv
<1> DEFINE Kept == Shapes' /\ (\A q \in Posts \ {p} : Same(q)) /\ PostInv(p)'
<1>2. ASSUME Disconnect(p) PROVE Kept
  BY <1>1, <1>2 DEF Disconnect, Shapes, Same, PostInv, Drained, clientVars, channelVars
<1>3. ASSUME Break(p) PROVE Kept
  <2>1. PICK t : wire' = [wire EXCEPT ![p] = t]
    BY <1>3 DEF Break
  <2>2. /\ spc[p] # "idle" /\ body[p] = "open" /\ body' = [body EXCEPT ![p] = "broken"] /\ gone' = gone \cup {p}
        /\ UNCHANGED <<cpc, aborted, spc, holding, headers, events, closed>>
    BY <1>3 DEF Break, clientVars, channelVars
  <2> QED
    BY <1>1, <2>1, <2>2 DEF Shapes, Same, PostInv, Drained
<1> QED
  BY <1>2, <1>3, OthersKeep

\* It is inductive.
LEMMA StreamStep == StreamInv /\ [Next]_vars => StreamInv'
<1> SUFFICES ASSUME StreamInv, [Next]_vars PROVE StreamInv'
  OBVIOUS
<1>1. CASE UNCHANGED vars
  BY <1>1 DEF vars, clientVars, channelVars, StreamInv, Shapes, PostInv, Drained
<1>2. CASE Close
  BY <1>2 DEF Close, channelVars, StreamInv, Shapes, PostInv, Drained
<1> QED
  BY <1>1, <1>2, ServerKeeps, ClientKeeps, NetworkKeeps DEF Next

\* For any number of posts and events and any capacity: a stream whose body
\* ends by itself for _readStream (streamable-client.ts) is one whose channel
\* the producer has closed and StreamableServe has emptied, with nothing left
\* on the way; an abort or a broken connection is never taken for the end.
THEOREM CompleteIsDrained == Spec => []CompleteMeansDrained
<1>1. StreamInv => CompleteMeansDrained
  BY DEF StreamInv, PostInv, CompleteMeansDrained
<1> QED
  BY StreamInit, StreamStep, <1>1, PTL DEF Spec

-----------------------------------------------------------------------------
(* What goes through the stream. *)

\* What the handler has not written yet.
Outstanding(p) == (IF spc[p] = "write" THEN <<holding[p]>> ELSE <<>>) \o events[p]

\* The text written, read and to be read, is that of the first events sent;
\* with the context not done, nothing of it is lost and it is that of all but
\* the outstanding ones.
Written(p, done, lost, rest) ==
  /\ sent[p] = (done \o lost) \o Outstanding(p)
  /\ Clean((received[p] \o wire[p]) \o rest, done)
  /\ p \notin gone => lost = <<>> /\ rest = <<>>

\* Types of the text and of the events.
WireTypes(p) ==
  /\ sent[p] \in Seq(AllEvents) /\ events[p] \in Seq(AllEvents) /\ holding[p] \in AllEvents
  /\ received[p] \in Seq(Symbols) /\ wire[p] \in Seq(Symbols)

\* The parser is the one that was fed all that was received, and the callbacks
\* have got what one reading of it gives.
WireInv(p) ==
  /\ WireTypes(p)
  /\ parser[p] = ParserOf(received[p])
  /\ got[p] = Parsed(received[p]).out
  /\ \E done, lost \in Seq(AllEvents), rest \in Seq(Symbols) : Written(p, done, lost, rest)
  /\ cpc[p] = "complete" => got[p] = Dispatched(sent[p])

\* Every function is one on the posts.
WireShapes == DOMAIN sent = Posts /\ DOMAIN received = Posts /\ DOMAIN parser = Posts /\ DOMAIN got = Posts

\* The invariant of a stream.
PipeInv == StreamInv /\ WireShapes /\ \A p \in Posts : WireInv(p)

\* It holds at first.
LEMMA PipeInit == Init => PipeInv
<1> SUFFICES ASSUME Init PROVE PipeInv
  OBVIOUS
<1>1. StreamInv
  BY StreamInit
<1>2. ASSUME NEW p \in Posts PROVE WireInv(p)
  <2>1. /\ sent[p] = <<>> /\ events[p] = <<>> /\ holding[p] = NoEvent /\ received[p] = <<>> /\ wire[p] = <<>>
        /\ parser[p] = NewParser /\ got[p] = <<>> /\ cpc[p] = "idle" /\ spc[p] = "idle"
    BY DEF Init
  <2>2. <<>> \in Seq(AllEvents) /\ <<>> \in Seq(Symbols) /\ <<>> \o <<>> = <<>>
    OBVIOUS
  <2>3. Outstanding(p) = <<>>
    BY <2>1, <2>2 DEF Outstanding
  <2>4. Written(p, <<>>, <<>>, <<>>)
    BY <2>1, <2>2, <2>3, CleanNothing DEF Written
  <2> QED
    BY <2>1, <2>2, <2>4, NoEventType, ParsedNothing DEF WireInv, WireTypes
<1>3. WireShapes
  BY DEF Init, WireShapes
<1> QED
  BY <1>1, <1>2, <1>3 DEF PipeInv

\* What leaves the text of a post alone.
Quiet(p) ==
  /\ UNCHANGED <<sent[p], events[p], holding[p], wire[p], received[p], parser[p], got[p]>>
  /\ spc'[p] = "write" <=> spc[p] = "write"
  /\ p \in gone => p \in gone'
  /\ cpc'[p] = "complete" => cpc[p] = "complete"

\* It is kept by what leaves the text alone.
LEMMA QuietKeeps ==
  ASSUME NEW p \in Posts, WireInv(p), Quiet(p)
  PROVE  WireInv(p)'
<1>1. WireTypes(p)'
  BY DEF WireInv, WireTypes, Quiet
<1>2. Outstanding(p)' = Outstanding(p)
  BY DEF Outstanding, Quiet
<1>3. PICK done \in Seq(AllEvents), lost \in Seq(AllEvents), rest \in Seq(Symbols) : Written(p, done, lost, rest)
  BY DEF WireInv
<1>4. Written(p, done, lost, rest)'
  BY <1>2, <1>3 DEF Written, Quiet
<1>5. parser'[p] = ParserOf(received'[p]) /\ got'[p] = Parsed(received'[p]).out
  BY DEF WireInv, Quiet
<1>6. cpc'[p] = "complete" => got'[p] = Dispatched(sent'[p])
  BY DEF WireInv, Quiet
<1> QED
  BY <1>1, <1>3, <1>4, <1>5, <1>6 DEF WireInv

\* The producer's events are events.
LEMMA EventTypes ==
  ASSUME NEW n \in Nat, NEW named \in BOOLEAN, NEW lines \in Nat
  PROVE  NthEvent(n, named, lines) \in AllEvents
<1>1. n \in Values /\ None \in Values /\ \A i \in 1..lines : <<n, i>> \in Values
  BY DEF Values, None
<1>2. [i \in 1..lines |-> <<n, i>>] \in Seq(Values)
  BY <1>1
<1> QED
  BY <1>1, <1>2 DEF NthEvent, Event, AllEvents

\* Appending to two sequences of events, one after the other.
LEMMA EventsAppend ==
  \A s, t \in Seq(AllEvents), e \in AllEvents : s \o Append(t, e) = Append(s \o t, e) /\ s \o t \in Seq(AllEvents)
OBVIOUS

\* The producer: one more is outstanding.
LEMMA ProduceKeeps ==
  ASSUME PipeInv, NEW p \in Posts, NEW named \in BOOLEAN, NEW lines \in DataLines, Produce(p, named, lines)
  PROVE  WireInv(p)'
<1> DEFINE e == NthEvent(Len(sent[p]) + 1, named, lines)
<1>1. WireInv(p) /\ WireTypes(p) /\ PostInv(p) /\ DOMAIN sent = Posts /\ DOMAIN events = Posts
  BY DEF PipeInv, WireInv, WireShapes, StreamInv, Shapes
<1>2. e \in AllEvents
  <2>1. Len(sent[p]) + 1 \in Nat /\ lines \in Nat
    BY <1>1, StreamableAssumption DEF WireTypes
  <2> QED
    BY <2>1, EventTypes
<1> HIDE DEF e
<1>3. /\ sent'[p] = Append(sent[p], e) /\ events'[p] = Append(events[p], e) /\ p \notin closed
      /\ UNCHANGED <<cpc, parser, got, received, spc, holding, wire, gone>>
  BY <1>1 DEF Produce, clientVars, e
<1>4. PICK done \in Seq(AllEvents), lost \in Seq(AllEvents), rest \in Seq(Symbols) : Written(p, done, lost, rest)
  BY <1>1 DEF WireInv
<1>5. WireTypes(p)'
  BY <1>1, <1>2, <1>3 DEF WireTypes
<1>6. Outstanding(p)' = Append(Outstanding(p), e) /\ Outstanding(p) \in Seq(AllEvents)
  <2> DEFINE h == IF spc[p] = "write" THEN <<holding[p]>> ELSE <<>>
  <2>1. h \in Seq(AllEvents) /\ events[p] \in Seq(AllEvents)
    BY <1>1 DEF WireTypes
  <2>2. h' = h
    BY <1>3
  <2> HIDE DEF h
  <2>3. Outstanding(p)' = h \o Append(events[p], e)
    BY <1>3, <2>2 DEF Outstanding, h
  <2> QED
    BY <1>2, <2>1, <2>3, EventsAppend DEF Outstanding, h
<1>7. sent'[p] = (done \o lost) \o Outstanding(p)'
  <2>1. sent[p] = (done \o lost) \o Outstanding(p)
    BY <1>4 DEF Written
  <2>2. done \o lost \in Seq(AllEvents)
    OBVIOUS
  <2>3. (done \o lost) \o Append(Outstanding(p), e) = Append((done \o lost) \o Outstanding(p), e)
    BY <1>2, <1>6, <2>2, EventsAppend
  <2> QED
    BY <1>3, <1>6, <2>1, <2>3
<1>8. Written(p, done, lost, rest)'
  BY <1>3, <1>4, <1>7 DEF Written
<1>9. cpc'[p] # "complete"
  BY <1>1, <1>3 DEF PostInv, Drained
<1>10. parser'[p] = ParserOf(received'[p]) /\ got'[p] = Parsed(received'[p]).out
  BY <1>1, <1>3 DEF WireInv
<1> QED
  BY <1>5, <1>8, <1>9, <1>10 DEF WireInv

\* The handler takes an event; it stays outstanding.
LEMMA SelectKeeps ==
  ASSUME PipeInv, NEW p \in Posts, SelectEvent(p)
  PROVE  WireInv(p)'
<1>1. WireInv(p) /\ WireTypes(p) /\ DOMAIN events = Posts /\ DOMAIN holding = Posts /\ DOMAIN spc = Posts
  BY DEF PipeInv, WireInv, WireShapes, StreamInv, Shapes
<1>2. /\ spc[p] = "select" /\ events[p] # <<>> /\ spc'[p] = "write"
      /\ holding'[p] = Head(events[p]) /\ events'[p] = Tail(events[p])
      /\ UNCHANGED <<cpc, parser, got, received, wire, gone, sent>>
  BY <1>1 DEF SelectEvent, clientVars
<1>3. PICK done \in Seq(AllEvents), lost \in Seq(AllEvents), rest \in Seq(Symbols) : Written(p, done, lost, rest)
  BY <1>1 DEF WireInv
<1>4. /\ Head(events[p]) \in AllEvents /\ Tail(events[p]) \in Seq(AllEvents)
      /\ <<Head(events[p])>> \o Tail(events[p]) = events[p] /\ <<>> \o events[p] = events[p]
  BY <1>1, <1>2 DEF WireTypes
<1>5. WireTypes(p)'
  BY <1>1, <1>2, <1>4 DEF WireTypes
<1>6. Outstanding(p)' = Outstanding(p)
  BY <1>2, <1>4 DEF Outstanding
<1>7. Written(p, done, lost, rest)'
  BY <1>2, <1>3, <1>6 DEF Written
<1>8. /\ parser'[p] = ParserOf(received'[p]) /\ got'[p] = Parsed(received'[p]).out
      /\ cpc'[p] = "complete" => got'[p] = Dispatched(sent'[p])
  BY <1>1, <1>2 DEF WireInv
<1> QED
  BY <1>5, <1>7, <1>8 DEF WireInv

\* Three texts, one after the other.
LEMMA TextsConcat ==
  \A r, s, t \in Seq(Symbols) : (r \o s) \o t = r \o (s \o t)
BY ConcatAssociative

\* Moving one event from the front of a sequence to the end of the one before.
LEMMA Reassociate ==
  ASSUME NEW a \in Seq(AllEvents), NEW b \in Seq(AllEvents), NEW c \in Seq(AllEvents), NEW e \in AllEvents
  PROVE  /\ (a \o b) \o (<<e>> \o c) = (a \o Append(b, e)) \o c
         /\ (a \o <<>>) \o (<<e>> \o c) = (Append(a, e) \o <<>>) \o c
OBVIOUS

\* It writes it, or drops it when the client has gone.
LEMMA WriteKeeps ==
  ASSUME PipeInv, NEW p \in Posts, WriteSSEEvent(p)
  PROVE  WireInv(p)'
<1> PICK e : e = holding[p]
  OBVIOUS
<1> DEFINE u == WriteEvent(e)
<1>1. WireInv(p) /\ WireTypes(p) /\ DOMAIN wire = Posts /\ DOMAIN holding = Posts /\ DOMAIN spc = Posts
  BY DEF PipeInv, WireInv, WireShapes, StreamInv, Shapes
<1>2. /\ spc[p] = "write" /\ spc'[p] = "select" /\ holding'[p] = NoEvent
      /\ wire'[p] = IF p \in gone THEN wire[p] ELSE wire[p] \o u
      /\ UNCHANGED <<cpc, parser, got, received, gone, events, sent>>
  BY <1>1 DEF WriteSSEEvent, clientVars, channelVars
<1>3. PICK done \in Seq(AllEvents), lost \in Seq(AllEvents), rest \in Seq(Symbols) : Written(p, done, lost, rest)
  BY <1>1 DEF WireInv
<1>4. e \in AllEvents /\ u \in Seq(Symbols) /\ events[p] \in Seq(AllEvents) /\ received[p] \in Seq(Symbols) /\ wire[p] \in Seq(Symbols)
  BY <1>1, EventRead DEF WireTypes
<1>5. WireTypes(p)'
  <2>1. wire'[p] \in Seq(Symbols)
    BY <1>2, <1>4
  <2> QED
    BY <1>1, <1>2, <2>1, NoEventType DEF WireTypes
<1>6. Outstanding(p) = <<e>> \o events[p] /\ Outstanding(p)' = events[p]
  <2>1. <<>> \o events[p] = events[p]
    BY <1>4
  <2> QED
    BY <1>2, <2>1 DEF Outstanding
<1>7. sent[p] = (done \o lost) \o (<<e>> \o events[p])
  BY <1>3, <1>6 DEF Written
<1>8. \E d, l \in Seq(AllEvents) : Written(p, d, l, rest)'
  <2>1. CASE p \in gone
    <3> DEFINE l == Append(lost, e)
    <3>1. l \in Seq(AllEvents)
      BY <1>4
    <3>2. sent[p] = (done \o l) \o events[p]
      BY <1>4, <1>7, Reassociate
    <3> HIDE DEF l
    <3>3. Written(p, done, l, rest)'
      BY <1>2, <1>3, <1>6, <2>1, <3>2 DEF Written
    <3> QED
      BY <3>1, <3>3
  <2>2. CASE p \notin gone
    <3> DEFINE d == Append(done, e)
    <3>1. lost = <<>> /\ rest = <<>> /\ Clean((received[p] \o wire[p]) \o rest, done)
      BY <1>3, <2>2 DEF Written
    <3>2. received[p] \o wire[p] \in Seq(Symbols)
      BY <1>4
    <3>3. Clean(received[p] \o wire[p], done)
      BY <3>1, <3>2, ConcatEmptySeq
    <3> HIDE DEF u
    <3>4. (received[p] \o wire[p]) \o u = received[p] \o (wire[p] \o u)
      <4>1. received[p] \in Seq(Symbols) /\ wire[p] \in Seq(Symbols) /\ u \in Seq(Symbols)
        BY <1>4
      <4> QED
        BY <4>1, TextsConcat
    <3>5. Clean(received[p] \o (wire[p] \o u), d)
      BY <1>4, <3>3, <3>4, CleanNext DEF u
    <3>6. received[p] \o (wire[p] \o u) \in Seq(Symbols)
      BY <1>4
    <3>7. (received[p] \o (wire[p] \o u)) \o rest = received[p] \o (wire[p] \o u)
      BY <3>1, <3>6, ConcatEmptySeq
    <3>8. d \in Seq(AllEvents) /\ sent[p] = (d \o lost) \o events[p]
      <4>1. (done \o <<>>) \o (<<e>> \o events[p]) = (d \o <<>>) \o events[p]
        BY <1>4, Reassociate
      <4>2. d \in Seq(AllEvents)
        BY <1>4
      <4> HIDE DEF d
      <4> QED
        BY <1>7, <3>1, <4>1, <4>2
    <3> HIDE DEF d
    <3>9. Written(p, d, lost, rest)'
      BY <1>2, <1>6, <2>2, <3>1, <3>5, <3>7, <3>8 DEF Written
    <3> QED
      BY <3>8, <3>9
  <2> QED
    BY <2>1, <2>2
<1>9. /\ parser'[p] = ParserOf(received'[p]) /\ got'[p] = Parsed(received'[p]).out
      /\ cpc'[p] = "complete" => got'[p] = Dispatched(sent'[p])
  BY <1>1, <1>2 DEF WireInv
<1> QED
  BY <1>5, <1>8, <1>9 DEF WireInv

\* Cutting a text in two.
LEMMA CutText ==
  ASSUME NEW t \in Seq(Symbols), NEW n \in 0..Len(t)
  PROVE  /\ SubSeq(t, 1, n) \in Seq(Symbols) /\ SubSeq(t, n + 1, Len(t)) \in Seq(Symbols)
         /\ t = SubSeq(t, 1, n) \o SubSeq(t, n + 1, Len(t))
<1>1. Len(t) \in Nat /\ 1 \in 1..Len(t)+1 /\ n \in 1-1..Len(t) /\ Len(t) \in n..Len(t)
  OBVIOUS
<1>2. SubSeq(t, 1, n) \o SubSeq(t, n + 1, Len(t)) = SubSeq(t, 1, Len(t))
  BY <1>1, ConcatAdjacentSubSeq
<1>3. SubSeq(t, 1, Len(t)) = t
  BY SubSeqFull
<1>4. SubSeq(t, 1, n) \in Seq(Symbols) /\ SubSeq(t, n + 1, Len(t)) \in Seq(Symbols)
  <2>1. \A i \in 1..Len(t) : t[i] \in Symbols
    OBVIOUS
  <2>2. (\A i \in 1..n : t[i] \in Symbols) /\ (\A i \in n + 1..Len(t) : t[i] \in Symbols)
    BY <1>1, <2>1
  <2> QED
    BY <1>1, <2>2, SubSeqProperties
<1> QED
  BY <1>2, <1>3, <1>4

\* The client reads a chunk: from the wire to what it has received.
LEMMA ReadKeeps ==
  ASSUME PipeInv, NEW p \in Posts, ReadChunk(p)
  PROVE  WireInv(p)'
<1>1. /\ WireInv(p) /\ WireTypes(p) /\ DOMAIN wire = Posts
      /\ DOMAIN parser = Posts /\ DOMAIN got = Posts /\ DOMAIN received = Posts
  BY DEF PipeInv, WireInv, WireShapes, StreamInv, Shapes
<1>2. PICK n \in 1..Len(wire[p]) :
        LET chunk == SubSeq(wire[p], 1, n)
            fed == Feed(parser[p], chunk)
        IN  /\ wire' = [wire EXCEPT ![p] = SubSeq(@, n + 1, Len(@))]
            /\ parser' = [parser EXCEPT ![p] = fed.parser]
            /\ got' = [got EXCEPT ![p] = @ \o fed.out]
            /\ received' = [received EXCEPT ![p] = @ \o chunk]
  BY DEF ReadChunk
<1>3. PICK r, c, v : r = received[p] /\ c = SubSeq(wire[p], 1, n) /\ v = SubSeq(wire[p], n + 1, Len(wire[p]))
  OBVIOUS
<1>4. /\ r = received[p] /\ wire'[p] = v /\ received'[p] = r \o c
      /\ parser'[p] = Feed(parser[p], c).parser /\ got'[p] = got[p] \o Feed(parser[p], c).out
  BY <1>1, <1>2, <1>3
<1>5. c \in Seq(Symbols) /\ v \in Seq(Symbols) /\ wire[p] = c \o v /\ r \in Seq(Symbols)
  <2>1. wire[p] \in Seq(Symbols) /\ received[p] \in Seq(Symbols) /\ n \in 0..Len(wire[p])
    BY <1>1 DEF WireTypes
  <2> QED
    BY <1>3, <2>1, CutText
<1>6. cpc[p] = "read" /\ UNCHANGED <<cpc, spc, holding, gone, events, sent>>
  BY DEF ReadChunk, channelVars
<1>7. WireTypes(p)'
  <2>1. r \o c \in Seq(Symbols)
    BY <1>5
  <2> QED
    BY <1>1, <1>4, <1>5, <1>6, <2>1 DEF WireTypes
<1>8. parser'[p] = ParserOf(received'[p]) /\ got'[p] = Parsed(received'[p]).out
  <2>1. parser[p] = ParserOf(r) /\ got[p] = Parsed(r).out
    BY <1>1, <1>3 DEF WireInv
  <2>2. /\ Feed(ParserOf(r), c).parser = ParserOf(r \o c)
        /\ Parsed(r).out \o Feed(ParserOf(r), c).out = Parsed(r \o c).out
    BY <1>5, ChunksDoNotMatter
  <2> QED
    BY <1>4, <2>1, <2>2
<1>9. PICK done \in Seq(AllEvents), lost \in Seq(AllEvents), rest \in Seq(Symbols) : Written(p, done, lost, rest)
  BY <1>1 DEF WireInv
<1>10. Written(p, done, lost, rest)'
  <2>1. (r \o c) \o v = r \o (c \o v)
    BY <1>5, TextsConcat
  <2>2. Outstanding(p)' = Outstanding(p)
    BY <1>6 DEF Outstanding
  <2>3. received'[p] \o wire'[p] = received[p] \o wire[p]
    BY <1>4, <1>5, <2>1
  <2> QED
    BY <1>6, <1>9, <2>2, <2>3 DEF Written
<1> QED
  BY <1>6, <1>7, <1>8, <1>9, <1>10 DEF WireInv

\* A connection that breaks loses the end of the text on its way.
LEMMA BreakKeeps ==
  ASSUME PipeInv, NEW p \in Posts, Break(p)
  PROVE  WireInv(p)'
<1>1. WireInv(p) /\ WireTypes(p) /\ DOMAIN wire = Posts
  BY DEF PipeInv, WireInv, WireShapes, StreamInv, Shapes
<1>2. PICK n \in 0..Len(wire[p]) : wire' = [wire EXCEPT ![p] = SubSeq(@, 1, n)]
  BY DEF Break
<1>3. PICK r, c, v : r = received[p] /\ c = SubSeq(wire[p], 1, n) /\ v = SubSeq(wire[p], n + 1, Len(wire[p]))
  OBVIOUS
<1>4. c \in Seq(Symbols) /\ v \in Seq(Symbols) /\ wire[p] = c \o v /\ r \in Seq(Symbols)
  <2>1. wire[p] \in Seq(Symbols) /\ received[p] \in Seq(Symbols)
    BY <1>1 DEF WireTypes
  <2> QED
    BY <1>3, <2>1, CutText
<1>5. p \in gone' /\ wire'[p] = c /\ UNCHANGED <<cpc, parser, got, received, spc, holding, events, sent>>
  BY <1>1, <1>2, <1>3 DEF Break, clientVars, channelVars
<1>6. WireTypes(p)'
  BY <1>1, <1>4, <1>5 DEF WireTypes
<1>7. PICK done \in Seq(AllEvents), lost \in Seq(AllEvents), rest \in Seq(Symbols) : Written(p, done, lost, rest)
  BY <1>1 DEF WireInv
<1>8. Written(p, done, lost, v \o rest)' /\ v \o rest \in Seq(Symbols)
  <2>1. v \o rest \in Seq(Symbols) /\ c \o v \in Seq(Symbols) /\ r \o c \in Seq(Symbols)
    BY <1>4
  <2>2. (r \o (c \o v)) \o rest = (r \o c) \o (v \o rest)
    <3>1. r \o (c \o v) = (r \o c) \o v
      BY <1>4, TextsConcat
    <3>2. ((r \o c) \o v) \o rest = (r \o c) \o (v \o rest)
      BY <1>4, <2>1, TextsConcat
    <3> QED
      BY <3>1, <3>2
  <2>3. Outstanding(p)' = Outstanding(p)
    BY <1>5 DEF Outstanding
  <2>4. Clean((r \o (c \o v)) \o rest, done) /\ sent[p] = (done \o lost) \o Outstanding(p)
    BY <1>3, <1>4, <1>7 DEF Written
  <2> QED
    BY <1>3, <1>5, <2>1, <2>2, <2>3, <2>4 DEF Written
<1>9. /\ parser'[p] = ParserOf(received'[p]) /\ got'[p] = Parsed(received'[p]).out
      /\ cpc'[p] = "complete" => got'[p] = Dispatched(sent'[p])
  BY <1>1, <1>5 DEF WireInv
<1> QED
  BY <1>6, <1>8, <1>9 DEF WireInv

\* The body ends: what was drained without the context being done is complete.
LEMMA EndKeeps ==
  ASSUME PipeInv, StreamInv', NEW p \in Posts, ReadEnds(p)
  PROVE  WireInv(p)'
<1>1. WireInv(p) /\ WireTypes(p) /\ PostInv(p) /\ PostInv(p)' /\ DOMAIN cpc = Posts
  BY DEF PipeInv, WireInv, StreamInv, Shapes
<1>2. /\ p \notin aborted /\ wire[p] = <<>>
      /\ cpc'[p] = "complete" => body[p] = "eof"
      /\ UNCHANGED <<aborted, parser, got, received, spc, holding, body, wire, gone, events, closed, sent>>
  BY <1>1 DEF ReadEnds, Settle, channelVars
<1>3. WireTypes(p)'
  BY <1>1, <1>2 DEF WireTypes
<1>4. PICK done \in Seq(AllEvents), lost \in Seq(AllEvents), rest \in Seq(Symbols) : Written(p, done, lost, rest)
  BY <1>1 DEF WireInv
<1>5. Written(p, done, lost, rest)'
  <2>1. Outstanding(p)' = Outstanding(p)
    BY <1>2 DEF Outstanding
  <2> QED
    BY <1>2, <1>4, <2>1 DEF Written
<1>6. parser'[p] = ParserOf(received'[p]) /\ got'[p] = Parsed(received'[p]).out
  BY <1>1, <1>2 DEF WireInv
<1>7. ASSUME cpc'[p] = "complete" PROVE got'[p] = Dispatched(sent'[p])
  <2>1. p \notin gone
    BY <1>1, <1>2, <1>7 DEF PostInv
  <2>2. events[p] = <<>> /\ spc[p] = "returned"
    BY <1>1, <1>2, <1>7 DEF PostInv, Drained
  <2>3. Outstanding(p) = <<>>
    <3>1. <<>> \o <<>> = <<>>
      OBVIOUS
    <3> QED
      BY <2>2, <3>1 DEF Outstanding
  <2>4. lost = <<>> /\ rest = <<>> /\ sent[p] = (done \o lost) \o Outstanding(p)
        /\ Clean((received[p] \o wire[p]) \o rest, done)
    BY <1>4, <2>1 DEF Written
  <2>5. (done \o <<>>) \o <<>> = done
    OBVIOUS
  <2>6. (received[p] \o <<>>) \o <<>> = received[p]
    BY <1>1, ConcatEmptySeq DEF WireTypes
  <2>7. sent[p] = done /\ Clean(received[p], done)
    BY <1>2, <2>3, <2>4, <2>5, <2>6
  <2>8. got[p] = Dispatched(sent[p])
    BY <1>1, <2>7, CleanRead DEF WireInv
  <2> QED
    BY <1>2, <2>8
<1> QED
  BY <1>3, <1>5, <1>6, <1>7 DEF WireInv

-----------------------------------------------------------------------------
\* A step that changes these four for one post.
Reads(p, t, u, v, w) ==
  /\ wire' = [wire EXCEPT ![p] = t] /\ parser' = [parser EXCEPT ![p] = u]
  /\ got' = [got EXCEPT ![p] = v] /\ received' = [received EXCEPT ![p] = w]

\* ReadChunk is one.
LEMMA ReadChunkIs ==
  ASSUME NEW p \in Posts, ReadChunk(p)
  PROVE  \E t, u, v, w : Reads(p, t, u, v, w)
<1>1. PICK n \in 1..Len(wire[p]) :
        LET chunk == SubSeq(wire[p], 1, n)
            fed == Feed(parser[p], chunk)
        IN  /\ wire' = [wire EXCEPT ![p] = SubSeq(@, n + 1, Len(@))]
            /\ parser' = [parser EXCEPT ![p] = fed.parser]
            /\ got' = [got EXCEPT ![p] = @ \o fed.out]
            /\ received' = [received EXCEPT ![p] = @ \o chunk]
  BY DEF ReadChunk
<1>2. PICK t : wire' = [wire EXCEPT ![p] = t]
  BY <1>1
<1>3. PICK u : parser' = [parser EXCEPT ![p] = u]
  BY <1>1
<1>4. PICK v : got' = [got EXCEPT ![p] = v]
  BY <1>1
<1>5. PICK w : received' = [received EXCEPT ![p] = w]
  BY <1>1
<1>6. Reads(p, t, u, v, w)
  BY <1>2, <1>3, <1>4, <1>5 DEF Reads
<1> QED
  BY <1>6

\* A step of a post, for the others.
LEMMA OthersQuiet ==
  ASSUME PipeInv, NEW p \in Posts, NEW q \in Posts, q # p,
         \/ Handler(p) \/ Client(p) \/ Post(p) \/ Disconnect(p) \/ Break(p) \/ CloseChannel(p)
         \/ \E named \in BOOLEAN, lines \in DataLines : Produce(p, named, lines)
  PROVE  Quiet(q)
<1>1. WireShapes /\ Shapes
  BY DEF PipeInv, StreamInv
<1>2. CASE Handler(p)
  BY <1>1, <1>2 DEF Handler, Handle, SelectDone, SelectEvent, SelectClosed, WriteSSEEvent, Return, Quiet, WireShapes, Shapes, clientVars, channelVars
<1>3. CASE Client(p)
  <2>1. CASE ReadChunk(p)
    <3>1. PICK t, u, v, w : Reads(p, t, u, v, w)
      BY <2>1, ReadChunkIs
    <3>2. UNCHANGED <<cpc, spc, holding, gone, events, sent>>
      BY <2>1 DEF ReadChunk, channelVars
    <3> QED
      BY <1>1, <3>1, <3>2 DEF Reads, Quiet, WireShapes, Shapes
  <2>2. CASE Respond(p) \/ ReadJSON(p) \/ FetchFails(p) \/ ReadEnds(p) \/ Rejected(p)
    BY <1>1, <2>2 DEF Respond, ReadJSON, FetchFails, ReadEnds, Rejected, Settle, Quiet, WireShapes, Shapes, channelVars
  <2> QED
    BY <1>3, <2>1, <2>2 DEF Client
<1>4. CASE Post(p) \/ Disconnect(p) \/ CloseChannel(p)
  BY <1>1, <1>4 DEF Post, Disconnect, CloseChannel, Settle, Quiet, WireShapes, Shapes, clientVars, channelVars
<1>5. CASE Break(p)
  <2>1. PICK t : wire' = [wire EXCEPT ![p] = t]
    BY <1>5 DEF Break
  <2>2. gone' = gone \cup {p} /\ UNCHANGED <<cpc, parser, got, received, spc, holding, events, sent>>
    BY <1>5 DEF Break, clientVars, channelVars
  <2> QED
    BY <1>1, <2>1, <2>2 DEF Quiet, WireShapes, Shapes
<1>6. ASSUME NEW named, NEW lines, Produce(p, named, lines) PROVE Quiet(q)
  <2>1. PICK e : events' = [events EXCEPT ![p] = Append(@, e)] /\ sent' = [sent EXCEPT ![p] = Append(@, e)]
    BY <1>6 DEF Produce
  <2>2. UNCHANGED <<cpc, parser, got, received, spc, holding, wire, gone>>
    BY <1>6 DEF Produce, clientVars
  <2> QED
    BY <1>1, <2>1, <2>2 DEF Quiet, WireShapes, Shapes
<1> QED
  BY <1>2, <1>3, <1>4, <1>5, <1>6

\* A step of a post, for the post itself.
LEMMA OwnKeeps ==
  ASSUME PipeInv, StreamInv', NEW p \in Posts,
         \/ Handler(p) \/ Client(p) \/ Post(p) \/ Disconnect(p) \/ Break(p) \/ CloseChannel(p)
         \/ \E named \in BOOLEAN, lines \in DataLines : Produce(p, named, lines)
  PROVE  WireInv(p)'
<1>1. WireInv(p) /\ WireShapes /\ Shapes
  BY DEF PipeInv, StreamInv
<1>2. ASSUME Handle(p) \/ SelectDone(p) \/ SelectClosed(p) PROVE Quiet(p)
  BY <1>1, <1>2 DEF Handle, SelectDone, SelectClosed, Return, Quiet, Shapes, clientVars, channelVars
<1>3. ASSUME Respond(p) \/ ReadJSON(p) \/ FetchFails(p) \/ Rejected(p) PROVE Quiet(p)
  BY <1>1, <1>3 DEF Respond, ReadJSON, FetchFails, Rejected, Settle, Quiet, Shapes, channelVars
<1>4. ASSUME Post(p) \/ Disconnect(p) \/ CloseChannel(p) PROVE Quiet(p)
  <2>1. PostInv(p)
    BY DEF PipeInv, StreamInv
  <2> QED
    BY <1>1, <1>4, <2>1 DEF Post, Disconnect, CloseChannel, Settle, Quiet, Shapes, PostInv, clientVars, channelVars
<1> QED
  BY <1>1, <1>2, <1>3, <1>4, QuietKeeps, ProduceKeeps, SelectKeeps, WriteKeeps, ReadKeeps, EndKeeps, BreakKeeps
     DEF Handler, Client

\* The functions stay functions on the posts.
LEMMA ShapesKept ==
  ASSUME PipeInv, [Next]_vars
  PROVE  WireShapes'
<1>1. WireShapes
  BY DEF PipeInv
<1>2. /\ sent' = sent \/ \E p, x : sent' = [sent EXCEPT ![p] = x]
      /\ UNCHANGED <<received, parser, got>> \/ \E p, t, u, v, w : Reads(p, t, u, v, w)
  <2>1. ASSUME NEW p \in Posts, ReadChunk(p)
        PROVE  sent' = sent /\ \E t, u, v, w : Reads(p, t, u, v, w)
    <3>1. sent' = sent
      BY <2>1 DEF ReadChunk, channelVars
    <3> QED
      BY <2>1, <3>1, ReadChunkIs
  <2>2. ASSUME NEW p \in Posts, NEW named, NEW lines, Produce(p, named, lines)
        PROVE  UNCHANGED <<received, parser, got>> /\ \E x : sent' = [sent EXCEPT ![p] = x]
    BY <2>2 DEF Produce, clientVars
  <2>3. ASSUME NEW p \in Posts,
               Handler(p) \/ Post(p) \/ Disconnect(p) \/ Break(p) \/ CloseChannel(p)
        PROVE  UNCHANGED <<received, parser, got, sent>>
    BY <2>3 DEF Handler, Handle, SelectDone, SelectEvent, SelectClosed, WriteSSEEvent, Post, Disconnect, Break,
                CloseChannel, clientVars, channelVars
  <2>4. ASSUME NEW p \in Posts, Respond(p) \/ ReadJSON(p) \/ FetchFails(p) \/ ReadEnds(p) \/ Rejected(p)
        PROVE  UNCHANGED <<received, parser, got, sent>>
    BY <2>4 DEF Respond, ReadJSON, FetchFails, ReadEnds, Rejected, channelVars
  <2>5. ASSUME Close \/ UNCHANGED vars
        PROVE  UNCHANGED <<received, parser, got, sent>>
    BY <2>5 DEF Close, vars, clientVars, channelVars
  <2> QED
    BY <2>1, <2>2, <2>3, <2>4, <2>5 DEF Next, Client
<1> QED
  BY <1>1, <1>2 DEF WireShapes, Reads

\* The invariant is inductive.
LEMMA PipeStep == PipeInv /\ [Next]_vars => PipeInv'
<1> SUFFICES ASSUME PipeInv, [Next]_vars PROVE PipeInv'
  OBVIOUS
<1>1. StreamInv'
  <2>1. StreamInv
    BY DEF PipeInv
  <2> QED
    BY <2>1, StreamStep
<1>2. WireShapes'
  BY ShapesKept
<1>3. ASSUME NEW q \in Posts PROVE WireInv(q)'
  <2>1. WireInv(q)
    BY DEF PipeInv
  <2>2. CASE Close \/ UNCHANGED vars
    <3>1. Quiet(q)
      BY <2>2 DEF Close, vars, clientVars, channelVars, Quiet
    <3> QED
      BY <2>1, <3>1, QuietKeeps
  <2>3. ASSUME NEW p \in Posts,
               \/ Handler(p) \/ Client(p) \/ Post(p) \/ Disconnect(p) \/ Break(p) \/ CloseChannel(p)
               \/ \E named \in BOOLEAN, lines \in DataLines : Produce(p, named, lines)
        PROVE  WireInv(q)'
    <3>1. CASE p = q
      BY <1>1, <2>3, <3>1, OwnKeeps
    <3>2. CASE p # q
      <4>1. Quiet(q)
        BY <2>3, <3>2, OthersQuiet
      <4> QED
        BY <2>1, <4>1, QuietKeeps
    <3> QED
      BY <3>1, <3>2
  <2> QED
    BY <2>2, <2>3 DEF Next
<1> QED
  BY <1>1, <1>2, <1>3 DEF PipeInv

\* What the client's callbacks have got is, as far as it goes, what the producer
\* sent and has data.
DeliveredInOrder == \A p \in Posts : IsPrefix(got[p], Dispatched(sent[p]))

\* One sequence goes on from another.
LEMMA PrefixOf ==
  ASSUME NEW s \in Seq(AllEvents), NEW t \in Seq(AllEvents)
  PROVE  IsPrefix(s, s \o t)
BY DEF IsPrefix

\* The invariant holds.
LEMMA PipeHolds == Spec => []PipeInv
BY PipeInit, PipeStep, PTL DEF Spec

\* What the callbacks have got is what of the text sent has been parsed, and
\* what will come goes on from it.
LEMMA InOrder == PipeInv => DeliveredInOrder
<1> SUFFICES ASSUME PipeInv, NEW p \in Posts PROVE IsPrefix(got[p], Dispatched(sent[p]))
  BY DEF DeliveredInOrder
<1>1. WireInv(p) /\ WireTypes(p)
  BY DEF PipeInv, WireInv
<1>2. PICK done \in Seq(AllEvents), lost \in Seq(AllEvents), rest \in Seq(Symbols) : Written(p, done, lost, rest)
  BY <1>1 DEF WireInv
<1>3. PICK r, w, o : r = received[p] /\ w = wire[p] /\ o = Outstanding(p)
  OBVIOUS
<1>4. r \in Seq(Symbols) /\ w \in Seq(Symbols) /\ o \in Seq(AllEvents)
  <2> DEFINE h == IF spc[p] = "write" THEN <<holding[p]>> ELSE <<>>
  <2>1. h \in Seq(AllEvents) /\ events[p] \in Seq(AllEvents)
    BY <1>1 DEF WireTypes
  <2> HIDE DEF h
  <2>2. h \o events[p] \in Seq(AllEvents)
    BY <2>1
  <2> QED
    BY <1>1, <1>3, <2>2 DEF WireTypes, Outstanding, h
<1>5. (r \o w) \o rest = r \o (w \o rest) /\ w \o rest \in Seq(Symbols)
  <2>1. w \o rest \in Seq(Symbols)
    BY <1>4
  <2> QED
    BY <1>4, <2>1, TextsConcat
<1>6. PICK y \in Seq(AllEvents) : Parsed(r \o (w \o rest)).out = Parsed(r).out \o y
  BY <1>4, <1>5, ParsedGrows
<1>7. Dispatched(done) = got[p] \o y
  <2>1. Clean(r \o (w \o rest), done)
    BY <1>2, <1>3, <1>5 DEF Written
  <2>2. got[p] = Parsed(r).out
    BY <1>1, <1>3 DEF WireInv
  <2> QED
    BY <1>6, <2>1, <2>2, CleanRead
<1> DEFINE more == lost \o o
<1>8. sent[p] = done \o more /\ more \in Seq(AllEvents)
  <2>1. sent[p] = (done \o lost) \o o
    BY <1>2, <1>3 DEF Written
  <2>2. (done \o lost) \o o = done \o (lost \o o) /\ lost \o o \in Seq(AllEvents)
    BY <1>4
  <2> QED
    BY <2>1, <2>2
<1> HIDE DEF more
<1>9. Dispatched(sent[p]) = (got[p] \o y) \o Dispatched(more) /\ Dispatched(more) \in Seq(AllEvents)
  BY <1>7, <1>8, TakeAdds
<1>10. got[p] \in Seq(AllEvents)
  BY <1>1, ParsedType DEF WireInv, WireTypes
<1> DEFINE g == got[p]
           z == Dispatched(more)
<1>11. g \in Seq(AllEvents) /\ z \in Seq(AllEvents)
  BY <1>9, <1>10
<1> HIDE DEF g, z
<1>12. (g \o y) \o z = g \o (y \o z) /\ y \o z \in Seq(AllEvents)
  BY <1>11
<1>13. IsPrefix(g, g \o (y \o z))
  BY <1>11, <1>12, PrefixOf
<1> QED
  BY <1>9, <1>12, <1>13 DEF g, z

\* However many events are sent and however the network cuts the stream: what
\* the client's callbacks have got (sse-parser.ts, streamable-client.ts) is, in
\* order, what StreamableServe's producer sent, as far as it goes; none twice,
\* none skipped but events without data.
THEOREM DeliversInOrder == Spec => []DeliveredInOrder
BY InOrder, PipeHolds, PTL

\* A stream that _readStream takes for complete is: the channel is closed, and
\* the callbacks have got all that was sent.
THEOREM CompleteHasAll == Spec => []CompleteMeansAll
<1>1. PipeInv => CompleteMeansAll
  <2> SUFFICES ASSUME PipeInv, NEW p \in Posts, cpc[p] = "complete"
               PROVE  p \in closed /\ got[p] = Dispatched(sent[p])
    BY DEF CompleteMeansAll
  <2>1. PostInv(p) /\ WireInv(p)
    BY DEF PipeInv, StreamInv
  <2> QED
    BY <2>1 DEF PostInv, Drained, WireInv
<1> QED
  BY <1>1, PipeHolds, PTL

\* SSEEventReader (sse_reader.go) and the TypeScript parser make the same of
\* all text that is received, but for events without data.
THEOREM ReadersSeeTheSame == Spec => []ReadersAgree
<1>1. PipeInv => ReadersAgree
  <2> SUFFICES ASSUME PipeInv, NEW p \in Posts PROVE got[p] = Dispatched(ReadEvents(received[p]))
    BY DEF ReadersAgree
  <2>1. received[p] \in Seq(Symbols) /\ got[p] = Parsed(received[p]).out
    BY DEF PipeInv, WireInv, WireTypes
  <2> QED
    BY <2>1, ReadersMakeTheSame
<1> QED
  BY <1>1, PipeHolds, PTL

-----------------------------------------------------------------------------
(* A pipe. *)

\* What the pipe's variables are.
Input == [p \in Posts |-> Dispatched(sent[p])]
Outcomes == [p \in Posts |-> Outcome(p)]

\* What a step leaves of the pipes.
Hidden == UNCHANGED <<Input, got, Outcomes>>

\* What is sent and what has come out are events.
SentTyped == \A p \in Posts : sent[p] \in Seq(AllEvents) /\ got[p] \in Seq(AllEvents)

LEMMA SentTypes == PipeInv => SentTyped
<1> SUFFICES ASSUME PipeInv, NEW p \in Posts PROVE sent[p] \in Seq(AllEvents) /\ got[p] \in Seq(AllEvents)
  BY DEF SentTyped
<1>1. WireInv(p) /\ WireTypes(p)
  BY DEF PipeInv, WireInv
<1>2. received[p] \in Seq(Symbols) /\ got[p] = Parsed(received[p]).out
  BY <1>1 DEF WireInv, WireTypes
<1>3. got[p] \in Seq(AllEvents)
  BY <1>2, ParsedType
<1> QED
  BY <1>1, <1>3 DEF WireTypes

\* Sending: an event with data goes in, one without is hidden.
LEMMA ProducePuts ==
  ASSUME PipeInv, NEW p \in Posts, NEW named \in BOOLEAN, NEW lines \in DataLines, Produce(p, named, lines)
  PROVE  Stream!Put(p) \/ Hidden
<1>1. PICK e : e = NthEvent(Len(sent[p]) + 1, named, lines)
  OBVIOUS
<1>2. DOMAIN sent = Posts /\ PostInv(p) /\ sent[p] \in Seq(AllEvents) /\ Len(sent[p]) \in Nat
  BY SentTypes DEF SentTyped, PipeInv, WireShapes, StreamInv
<1>3. /\ sent' = [sent EXCEPT ![p] = Append(@, e)] /\ e # NoEvent /\ p \notin closed /\ Len(sent[p]) < MaxEvents
      /\ UNCHANGED <<cpc, got>>
  BY <1>1 DEF Produce, clientVars
<1>4. e \in AllEvents /\ e \in EventsSent
  <2>1. Len(sent[p]) + 1 \in Nat /\ lines \in Nat /\ Len(sent[p]) + 1 \in 1..MaxEvents
    BY <1>2, <1>3, StreamableAssumption
  <2>2. e \in AllEvents
    BY <1>1, <2>1, EventTypes
  <2>3. e \in EventsSent
    BY <1>1, <1>3, <2>1 DEF EventsSent
  <2> QED
    BY <2>2, <2>3
<1>5. Dispatched(Append(sent[p], e)) = TakeEvent(Dispatched(sent[p]), e)
  BY <1>2, <1>4, TakeOne
<1>6. Outcomes' = Outcomes /\ got' = got /\ Outcomes[p] # "complete"
  <2>1. cpc[p] # "complete"
    BY <1>2, <1>3 DEF PostInv, Drained
  <2> QED
    BY <1>3, <2>1 DEF Outcomes, Outcome
<1>7. Input' = [Input EXCEPT ![p] = TakeEvent(@, e)]
  <2>1. ASSUME NEW q \in Posts PROVE Dispatched(sent'[q]) = IF q = p THEN TakeEvent(Dispatched(sent[p]), e) ELSE Dispatched(sent[q])
    BY <1>2, <1>3, <1>5
  <2> QED
    BY <2>1 DEF Input
<1>8. CASE Dispatches(e)
  <2>1. Input' = [Input EXCEPT ![p] = Append(@, e)]
    BY <1>7, <1>8 DEF TakeEvent
  <2> QED
    BY <1>4, <1>6, <2>1 DEF Stream!Put, Input, Outcomes
<1>9. CASE ~Dispatches(e)
  <2>1. Input' = Input
    BY <1>7, <1>9 DEF TakeEvent, Input
  <2> QED
    BY <1>6, <2>1 DEF Hidden
<1> QED
  BY <1>8, <1>9

\* A chunk adds to what the callbacks have got.
LEMMA GotGrows ==
  ASSUME PipeInv, NEW p \in Posts, ReadChunk(p)
  PROVE  \E y \in Seq(AllEvents) : got'[p] = got[p] \o y
<1>1. WireInv(p) /\ WireTypes(p) /\ DOMAIN received = Posts
  BY DEF PipeInv, WireInv, WireShapes
<1>2. PICK n \in 1..Len(wire[p]) : received' = [received EXCEPT ![p] = @ \o SubSeq(wire[p], 1, n)]
  BY DEF ReadChunk
<1>3. PICK r, c : r = received[p] /\ c = SubSeq(wire[p], 1, n)
  OBVIOUS
<1>4. r \in Seq(Symbols) /\ c \in Seq(Symbols) /\ received'[p] = r \o c
  <2>1. wire[p] \in Seq(Symbols) /\ received[p] \in Seq(Symbols) /\ n \in 0..Len(wire[p])
    BY <1>1 DEF WireTypes
  <2> QED
    BY <1>1, <1>2, <1>3, <2>1, CutText
<1>5. got'[p] = Parsed(received'[p]).out
  BY ReadKeeps DEF WireInv
<1>6. got[p] = Parsed(r).out
  BY <1>1, <1>3 DEF WireInv
<1> QED
  BY <1>4, <1>5, <1>6, ParsedGrows

\* Reading a chunk: what the callbacks have got goes on along the input.
LEMMA ReadTakes ==
  ASSUME PipeInv, PipeInv', NEW p \in Posts, ReadChunk(p)
  PROVE  Stream!Take(p)
<1>1. /\ cpc[p] = "read" /\ UNCHANGED <<cpc, sent>>
  BY DEF ReadChunk, channelVars
<1>2. PICK t, u, v, w : Reads(p, t, u, v, w)
  BY ReadChunkIs
<1>3. DOMAIN got = Posts
  BY DEF PipeInv, WireShapes
<1>4. got' = [got EXCEPT ![p] = v] /\ got'[p] = v
  BY <1>2, <1>3 DEF Reads
<1>5. PICK s : s = Dispatched(sent[p])
  OBVIOUS
<1>6. Input[p] = s /\ Input' = Input /\ Outcomes' = Outcomes /\ Outcomes[p] = "open"
  BY <1>1, <1>5 DEF Input, Outcomes, Outcome, Settled
<1>7. v \in Seq(AllEvents) /\ s \in Seq(AllEvents) /\ got[p] \in Seq(AllEvents)
  <2>1. sent[p] \in Seq(AllEvents) /\ got[p] \in Seq(AllEvents)
    BY SentTypes DEF SentTyped
  <2>2. SentTyped'
    BY SentTypes, PTL
  <2>3. Dispatched(sent[p]) \in Seq(AllEvents)
    BY <2>1, TakeAdds, EmptySeq
  <2> QED
    BY <1>4, <1>5, <2>1, <2>2, <2>3 DEF SentTyped
<1>8. Len(v) <= Len(s) /\ SubSeq(v, 1, Len(v)) = SubSeq(s, 1, Len(v))
  <2>1. DeliveredInOrder'
    BY InOrder, PTL
  <2>2. IsPrefix(v, s)
    BY <1>1, <1>4, <1>5, <2>1 DEF DeliveredInOrder
  <2> QED
    BY <2>2 DEF IsPrefix
<1>9. v = SubSeq(s, 1, Len(v))
  <2>1. SubSeq(v, 1, Len(v)) = v
    BY <1>7
  <2> QED
    BY <1>8, <2>1
<1>10. Len(got[p]) <= Len(v)
  <2>1. PICK y \in Seq(AllEvents) : got'[p] = got[p] \o y
    BY GotGrows
  <2> QED
    BY <1>4, <1>7, <2>1
<1>11. Len(v) \in Len(got[p])..Len(s)
  BY <1>7, <1>8, <1>10
<1> QED
  BY <1>4, <1>6, <1>9, <1>11 DEF Stream!Take, Input, Outcomes

\* The client's post goes on or ends.
LEMMA OutcomeMoves ==
  ASSUME DOMAIN cpc = Posts, NEW p \in Posts, NEW how, Settle(p, how), cpc[p] \notin Settled, UNCHANGED <<sent, got>>,
         how = "complete" => got[p] = Dispatched(sent[p])
  PROVE  Hidden \/ Stream!Finish(p) \/ Stream!CutOff(p)
<1>1. Input' = Input /\ Outcomes[p] = "open" /\ Input[p] = Dispatched(sent[p])
  BY DEF Input, Outcomes, Outcome, Settled
<1>2. Outcomes' = [Outcomes EXCEPT ![p] = IF how = "complete" THEN "complete" ELSE IF how \in Settled THEN "cut" ELSE "open"]
  BY DEF Outcomes, Outcome, Settle
<1>3. CASE how = "complete"
  BY <1>1, <1>2, <1>3 DEF Stream!Finish, Input, Outcomes
<1>4. CASE how # "complete" /\ how \in Settled
  BY <1>1, <1>2, <1>4 DEF Stream!CutOff, Input, Outcomes
<1>5. CASE how \notin Settled
  <2>1. Outcomes' = Outcomes
    BY <1>1, <1>2, <1>5 DEF Outcomes, Settled
  <2> QED
    BY <1>1, <2>1 DEF Hidden
<1> QED
  BY <1>3, <1>4, <1>5

\* Each step of the client (streamable-client.ts) takes from the pipe, ends it,
\* or is hidden.
LEMMA ClientMoves ==
  ASSUME PipeInv, PipeInv', NEW p \in Posts, Client(p)
  PROVE  Hidden \/ Stream!PipeNext
<1>1. DOMAIN cpc = Posts
  BY DEF PipeInv, StreamInv, Shapes
<1>2. CASE ReadChunk(p)
  BY <1>2, ReadTakes DEF Stream!PipeNext
<1>3. ASSUME Respond(p) \/ ReadJSON(p) \/ FetchFails(p) \/ Rejected(p)
      PROVE  /\ cpc[p] \notin Settled /\ UNCHANGED <<sent, got>>
             /\ \E how \in {"threw", "json", "read", "returned", "aborted"} : Settle(p, how)
  BY <1>3 DEF Respond, ReadJSON, FetchFails, Rejected, Settled, channelVars
<1>4. ASSUME ReadEnds(p)
      PROVE  /\ cpc[p] \notin Settled /\ UNCHANGED <<sent, got>>
             /\ \E how \in {"complete", "failed"} : Settle(p, how) /\ (how = "complete" => got[p] = Dispatched(sent[p]))
  <2>1. PICK how \in {"complete", "failed"} : Settle(p, how) /\ UNCHANGED <<sent, got>> /\ cpc[p] = "read"
    BY <1>4 DEF ReadEnds, channelVars
  <2>2. cpc'[p] = how
    BY <1>1, <2>1 DEF Settle
  <2>3. how = "complete" => got'[p] = Dispatched(sent'[p])
    BY <2>2 DEF PipeInv, WireInv
  <2> QED
    BY <2>1, <2>3 DEF Settled
<1> QED
  BY <1>1, <1>2, <1>3, <1>4, OutcomeMoves DEF Client, Stream!PipeNext

\* Steps of the handler, of the network and of the producer that closes its
\* channel are hidden.
LEMMA RestIsHidden ==
  ASSUME PipeInv,
         \/ Close \/ UNCHANGED vars
         \/ \E p \in Posts : Handler(p) \/ Post(p) \/ Disconnect(p) \/ Break(p) \/ CloseChannel(p)
  PROVE  Hidden
<1>1. UNCHANGED <<sent, got>>
  <2>1. CASE Close \/ UNCHANGED vars
    BY <2>1 DEF Close, vars, clientVars, channelVars
  <2>2. ASSUME NEW p \in Posts, Handler(p) \/ Post(p) \/ Disconnect(p) \/ Break(p) \/ CloseChannel(p)
        PROVE  UNCHANGED <<sent, got>>
    BY <2>2 DEF Handler, Handle, SelectDone, SelectEvent, SelectClosed, WriteSSEEvent, Post, Disconnect, Break,
                CloseChannel, clientVars, channelVars
  <2> QED
    BY <2>1, <2>2
<1>2. Outcomes' = Outcomes
  <2>1. CASE UNCHANGED cpc
    BY <2>1 DEF Outcomes, Outcome
  <2>2. ASSUME NEW p \in Posts, Post(p) PROVE Outcomes' = Outcomes
    <3>1. DOMAIN cpc = Posts /\ cpc[p] = "idle" /\ cpc' = [cpc EXCEPT ![p] = "fetch"]
      BY <2>2 DEF PipeInv, StreamInv, Shapes, Post, Settle
    <3>2. \A q \in Posts : Outcome(q)' = Outcome(q)
      BY <3>1 DEF Outcome, Settled
    <3> QED
      BY <3>2 DEF Outcomes
  <2>3. (\E p \in Posts : Post(p)) \/ UNCHANGED cpc
    <3>1. CASE Close \/ UNCHANGED vars
      BY <3>1 DEF Close, vars, clientVars
    <3>2. ASSUME NEW p \in Posts, Handler(p) \/ Disconnect(p) \/ Break(p) \/ CloseChannel(p)
          PROVE  UNCHANGED cpc
      BY <3>2 DEF Handler, Handle, SelectDone, SelectEvent, SelectClosed, WriteSSEEvent, Disconnect, Break,
                  CloseChannel, clientVars
    <3> QED
      BY <3>1, <3>2
  <2> QED
    BY <2>1, <2>2, <2>3
<1> QED
  BY <1>1, <1>2 DEF Hidden, Input

\* A streamed POST is a pipe: every step of StreamableServe, of its producer,
\* of the network and of _readStream with its parser puts an event in, lets
\* some more of them out in order, ends the stream, complete only when all is
\* out, or changes nothing of it; and once it has ended nothing more comes out.
THEOREM ImplementsPipe == Spec => StreamIsPipe
<1>1. Init => Stream!PipeStart
  <2> SUFFICES ASSUME Init PROVE Stream!PipeStart
    OBVIOUS
  <2>1. Dispatched(<<>>) = <<>>
    BY TakeOne, SymbolTypes, EmptySeq
  <2>2. Input = [p \in Posts |-> <<>>] /\ Outcomes = [p \in Posts |-> "open"]
    BY <2>1 DEF Init, Input, Outcomes, Outcome, Settled
  <2> QED
    BY <2>2 DEF Init, Stream!PipeStart, Input, Outcomes
<1>2. PipeInv /\ PipeInv' /\ [Next]_vars => Hidden \/ Stream!PipeNext
  <2> SUFFICES ASSUME PipeInv, PipeInv', [Next]_vars PROVE Hidden \/ Stream!PipeNext
    OBVIOUS
  <2>1. ASSUME NEW p \in Posts, NEW named \in BOOLEAN, NEW lines \in DataLines, Produce(p, named, lines)
        PROVE  Hidden \/ Stream!PipeNext
    BY <2>1, ProducePuts DEF Stream!PipeNext
  <2> QED
    BY <2>1, ClientMoves, RestIsHidden DEF Next
<1>3. PipeInv /\ PipeInv' /\ [Next]_vars
        => [Stream!PipeNext]_<<[p \in Posts |-> Dispatched(sent[p])], got, [p \in Posts |-> Outcome(p)]>>
  BY <1>2 DEF Hidden, Input, Outcomes
<1> QED
  BY <1>1, <1>3, PipeHolds, PTL DEF Spec, StreamIsPipe, Stream!PipeSpec
=============================================================================
