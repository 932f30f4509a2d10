----------------------------- MODULE QueueFacts -----------------------------
(***************************************************************************)
(* What is in a sequence, and what the operations on queues and stacks do  *)
(* to it: the facts the proofs about the event loop rest on.               *)
(***************************************************************************)
EXTENDS SequenceTheorems, TLAPS

In(e, seq) == \E i \in 1..Len(seq) : seq[i] = e

\* Popping leaves only what was there.
LEMMA InTail ==
  ASSUME NEW S, NEW seq \in Seq(S), seq # <<>>, NEW e, In(e, Tail(seq))
  PROVE  In(e, seq)
  BY HeadTailProperties DEF In

\* Queueing at the end adds one element.
LEMMA InAppend ==
  ASSUME NEW S, NEW seq \in Seq(S), NEW x \in S, NEW e
  PROVE  In(e, Append(seq, x)) <=> (In(e, seq) \/ e = x)
<1>1. /\ Len(Append(seq, x)) = Len(seq) + 1
      /\ \A i \in 1..Len(seq) : Append(seq, x)[i] = seq[i]
      /\ Append(seq, x)[Len(seq) + 1] = x
      /\ Len(seq) \in Nat
  BY AppendProperties, LenProperties
<1>2. ASSUME In(e, Append(seq, x)) PROVE In(e, seq) \/ e = x
  <2>1. PICK i \in 1..(Len(seq) + 1) : Append(seq, x)[i] = e
    BY <1>1, <1>2 DEF In
  <2>2. CASE i = Len(seq) + 1
    BY <2>1, <2>2, <1>1
  <2>3. CASE i \in 1..Len(seq)
    BY <2>1, <2>3, <1>1 DEF In
  <2> QED BY <2>1, <2>2, <2>3, <1>1
<1>3. ASSUME In(e, seq) PROVE In(e, Append(seq, x))
  <2>1. PICK i \in 1..Len(seq) : seq[i] = e
    BY <1>3 DEF In
  <2>2. /\ i \in 1..Len(Append(seq, x))
        /\ Append(seq, x)[i] = e
    BY <2>1, <1>1
  <2> QED BY <2>2 DEF In
<1>4. ASSUME e = x PROVE In(e, Append(seq, x))
  <2>1. Len(seq) + 1 \in 1..Len(Append(seq, x))
    BY <1>1
  <2> QED BY <2>1, <1>1, <1>4 DEF In
<1> QED BY <1>2, <1>3, <1>4

\* So does pushing on the stack.
LEMMA InPush ==
  ASSUME NEW S, NEW seq \in Seq(S), NEW x \in S, NEW e
  PROVE  /\ <<x>> \o seq \in Seq(S)
         /\ In(e, <<x>> \o seq) <=> (In(e, seq) \/ e = x)
<1> DEFINE pushed == <<x>> \o seq
<1>1. /\ pushed \in Seq(S)
      /\ Len(pushed) = Len(seq) + 1
      /\ pushed[1] = x
      /\ \A i \in 1..Len(seq) : pushed[i + 1] = seq[i]
      /\ Len(seq) \in Nat
  <2>1. <<x>> \in Seq(S) /\ Len(<<x>>) = 1 /\ <<x>>[1] = x
    OBVIOUS
  <2>2. Len(seq) \in Nat
    BY LenProperties
  <2>3. /\ pushed \in Seq(S)
        /\ Len(pushed) = 1 + Len(seq)
        /\ \A i \in 1..(1 + Len(seq)) :
             pushed[i] = IF i <= 1 THEN <<x>>[i] ELSE seq[i - 1]
    BY <2>1, ConcatProperties
  <2> HIDE DEF pushed
  <2> QED BY <2>1, <2>2, <2>3
<1> HIDE DEF pushed
<1>2. ASSUME In(e, pushed) PROVE In(e, seq) \/ e = x
  <2>1. PICK i \in 1..(Len(seq) + 1) : pushed[i] = e
    BY <1>1, <1>2 DEF In
  <2>2. CASE i = 1
    BY <2>1, <2>2, <1>1
  <2>3. CASE i # 1
    <3>1. i - 1 \in 1..Len(seq) /\ pushed[(i - 1) + 1] = e
      BY <2>1, <2>3, <1>1
    <3> QED BY <3>1, <1>1 DEF In
  <2> QED BY <2>2, <2>3
<1>3. ASSUME In(e, seq) PROVE In(e, pushed)
  <2>1. PICK i \in 1..Len(seq) : seq[i] = e
    BY <1>3 DEF In
  <2>2. i + 1 \in 1..Len(pushed) /\ pushed[i + 1] = e
    BY <2>1, <1>1
  <2> QED BY <2>2 DEF In
<1>4. ASSUME e = x PROVE In(e, pushed)
  BY <1>1, <1>4 DEF In
<1> QED BY <1>1, <1>2, <1>3, <1>4 DEF pushed

-----------------------------------------------------------------------------
\* No two places of the sequence hold e.
Once(e, seq) ==
  \A i, j \in 1..Len(seq) : seq[i] = e /\ seq[j] = e => i = j

\* What is there once stays once when the head goes, and is gone when it was the
\* head.
LEMMA OnceTail ==
  ASSUME NEW S, NEW seq \in Seq(S), seq # <<>>, NEW e, Once(e, seq)
  PROVE  /\ Once(e, Tail(seq))
         /\ Head(seq) = e => ~In(e, Tail(seq))
<1>1. /\ Len(seq) \in Nat \ {0}
      /\ Len(Tail(seq)) = Len(seq) - 1
      /\ \A i \in 1..Len(Tail(seq)) : Tail(seq)[i] = seq[i + 1]
      /\ Head(seq) = seq[1]
  BY HeadTailProperties, EmptySeq
<1>2. ASSUME NEW i \in 1..Len(Tail(seq)), NEW j \in 1..Len(Tail(seq)),
             Tail(seq)[i] = e, Tail(seq)[j] = e
      PROVE  i = j
  <2>1. i + 1 \in 1..Len(seq) /\ j + 1 \in 1..Len(seq)
    BY <1>1
  <2>2. seq[i + 1] = e /\ seq[j + 1] = e
    BY <1>1, <1>2
  <2>3. i + 1 = j + 1
    BY <2>1, <2>2 DEF Once
  <2> QED BY <2>3
<1>3. ASSUME Head(seq) = e, NEW i \in 1..Len(Tail(seq)), Tail(seq)[i] = e
      PROVE  FALSE
  <2>1. i + 1 \in 1..Len(seq) /\ 1 \in 1..Len(seq)
    BY <1>1
  <2>2. i + 1 = 1
    BY <2>1, <1>1, <1>3 DEF Once
  <2> QED BY <2>2
<1> QED BY <1>2, <1>3 DEF Once, In

\* Queueing keeps it there once, unless it queues a second one.
LEMMA OnceAppend ==
  ASSUME NEW S, NEW seq \in Seq(S), NEW x \in S, NEW e, Once(e, seq),
         e # x \/ ~In(e, seq)
  PROVE  Once(e, Append(seq, x))
<1>1. /\ Len(Append(seq, x)) = Len(seq) + 1
      /\ \A i \in 1..Len(seq) : Append(seq, x)[i] = seq[i]
      /\ Append(seq, x)[Len(seq) + 1] = x
      /\ Len(seq) \in Nat
  BY AppendProperties, LenProperties
<1> SUFFICES ASSUME NEW i \in 1..(Len(seq) + 1), NEW j \in 1..(Len(seq) + 1),
                    Append(seq, x)[i] = e, Append(seq, x)[j] = e
             PROVE  i = j
  BY <1>1 DEF Once
<1>2. CASE e = x
  <2>1. \A k \in 1..Len(seq) : seq[k] # e
    BY <1>2 DEF In
  <2>2. i \notin 1..Len(seq) /\ j \notin 1..Len(seq)
    BY <2>1, <1>1
  <2> QED BY <2>2, <1>1
<1>3. CASE e # x
  <2>1. i \in 1..Len(seq) /\ j \in 1..Len(seq)
    BY <1>1, <1>3
  <2> QED BY <2>1, <1>1 DEF Once
<1> QED BY <1>2, <1>3

\* So does pushing.
LEMMA OncePush ==
  ASSUME NEW S, NEW seq \in Seq(S), NEW x \in S, NEW e, Once(e, seq),
         e # x \/ ~In(e, seq)
  PROVE  Once(e, <<x>> \o seq)
<1> DEFINE pushed == <<x>> \o seq
<1>1. /\ Len(pushed) = Len(seq) + 1
      /\ pushed[1] = x
      /\ \A i \in 2..(Len(seq) + 1) : pushed[i] = seq[i - 1]
      /\ Len(seq) \in Nat
  <2>1. <<x>> \in Seq(S) /\ Len(<<x>>) = 1 /\ <<x>>[1] = x
    OBVIOUS
  <2>2. Len(seq) \in Nat
    BY LenProperties
  <2>3. /\ Len(pushed) = 1 + Len(seq)
        /\ \A i \in 1..(1 + Len(seq)) :
             pushed[i] = IF i <= 1 THEN <<x>>[i] ELSE seq[i - 1]
    BY <2>1, ConcatProperties
  <2> HIDE DEF pushed
  <2> QED BY <2>1, <2>2, <2>3
<1> HIDE DEF pushed
<1> SUFFICES ASSUME NEW i \in 1..(Len(seq) + 1), NEW j \in 1..(Len(seq) + 1),
                    pushed[i] = e, pushed[j] = e
             PROVE  i = j
  BY <1>1 DEF Once, pushed
<1>2. CASE e = x
  <2>1. \A k \in 1..Len(seq) : seq[k] # e
    BY <1>2 DEF In
  <2>2. \A k \in 2..(Len(seq) + 1) : k - 1 \in 1..Len(seq)
    BY <1>1
  <2>3. i \notin 2..(Len(seq) + 1) /\ j \notin 2..(Len(seq) + 1)
    BY <2>1, <2>2, <1>1
  <2> QED BY <2>3, <1>1
<1>3. CASE e # x
  <2>1. i \in 2..(Len(seq) + 1) /\ j \in 2..(Len(seq) + 1)
    BY <1>1, <1>3
  <2>2. /\ i - 1 \in 1..Len(seq) /\ j - 1 \in 1..Len(seq)
        /\ seq[i - 1] = e /\ seq[j - 1] = e
    BY <2>1, <1>1
  <2>3. i - 1 = j - 1
    BY <2>2 DEF Once
  <2> QED BY <2>1, <2>3
<1> QED BY <1>2, <1>3
-----------------------------------------------------------------------------
(***************************************************************************)
(* The same of a list whose elements are of no set that has a name.        *)
(***************************************************************************)

IsList(s) == s \in Seq({s[i] : i \in DOMAIN s})

\* A sequence over any set is a list.
LEMMA SeqIsList ==
  ASSUME NEW S, NEW s \in Seq(S)
  PROVE  IsList(s)
<1>1. Len(s) \in Nat /\ s \in [1..Len(s) -> S] /\ DOMAIN s = 1..Len(s)
  BY LenProperties
<1> DEFINE R == {s[i] : i \in DOMAIN s}
<1>2. s \in [1..Len(s) -> R]
  BY <1>1
<1>3. s \in Seq(R)
  <2> HIDE DEF R
  <2> QED BY <1>1, <1>2
<1> QED BY <1>3 DEF IsList

\* A list is what its length and its places are, and a sequence over whatever its
\* places are in.
LEMMA ListProperties ==
  ASSUME NEW s, IsList(s)
  PROVE  /\ Len(s) \in Nat
         /\ DOMAIN s = 1..Len(s)
         /\ s = [i \in 1..Len(s) |-> s[i]]
         /\ s = <<>> <=> Len(s) = 0
         /\ \A S : (\A i \in 1..Len(s) : s[i] \in S) => s \in Seq(S)
<1> DEFINE R == {s[i] : i \in DOMAIN s}
<1>1. s \in Seq(R)
  BY DEF IsList
<1> HIDE DEF R
<1>2. Len(s) \in Nat /\ s \in [1..Len(s) -> R] /\ DOMAIN s = 1..Len(s)
  BY <1>1, LenProperties
<1>3. s = <<>> <=> Len(s) = 0
  BY <1>1, EmptySeq
<1>4. ASSUME NEW S, \A i \in 1..Len(s) : s[i] \in S PROVE s \in Seq(S)
  <2>1. s \in [1..Len(s) -> S]
    BY <1>2, <1>4
  <2> QED BY <2>1, <1>2
<1> QED BY <1>2, <1>3, <1>4

\* A function on 1..n is a list.
LEMMA ListMade ==
  ASSUME NEW n \in Nat, NEW s, s = [i \in 1..n |-> s[i]]
  PROVE  IsList(s) /\ Len(s) = n
<1> DEFINE R == {s[i] : i \in DOMAIN s}
<1>1. s \in [1..n -> R]
  <2>1. DOMAIN s = 1..n
    OBVIOUS
  <2> QED BY <2>1
<1>2. s \in Seq(R) /\ Len(s) = n
  <2> HIDE DEF R
  <2> QED BY <1>1
<1> QED BY <1>2 DEF IsList

\* Append keeps every place and adds one.
LEMMA ListAppended ==
  ASSUME NEW s, IsList(s), NEW x
  PROVE  /\ IsList(Append(s, x))
         /\ Len(Append(s, x)) = Len(s) + 1
         /\ \A i \in 1..Len(s) : Append(s, x)[i] = s[i]
         /\ Append(s, x)[Len(s) + 1] = x
<1> DEFINE R == {s[i] : i \in DOMAIN s} \cup {x}
<1>1. s \in Seq(R)
  <2>1. \A i \in 1..Len(s) : s[i] \in R
    BY ListProperties
  <2> HIDE DEF R
  <2> QED BY <2>1, ListProperties
<1>2. x \in R
  OBVIOUS
<1> HIDE DEF R
<1>3. Append(s, x) \in Seq(R)
  BY <1>1, <1>2, AppendProperties
<1>4. IsList(Append(s, x))
  BY <1>3, SeqIsList
<1> QED BY <1>1, <1>2, <1>4, AppendProperties

\* Joining two lists keeps the places of the first and moves those of the second.
LEMMA ListConcat ==
  ASSUME NEW s, IsList(s), NEW t, IsList(t)
  PROVE  /\ IsList(s \o t)
         /\ Len(s \o t) = Len(s) + Len(t)
         /\ \A i \in 1..Len(s) : (s \o t)[i] = s[i]
         /\ \A i \in 1..Len(t) : (s \o t)[Len(s) + i] = t[i]
<1> DEFINE R == {s[i] : i \in DOMAIN s} \cup {t[i] : i \in DOMAIN t}
<1>1. s \in Seq(R) /\ t \in Seq(R)
  <2>1. (\A i \in 1..Len(s) : s[i] \in R) /\ (\A i \in 1..Len(t) : t[i] \in R)
    BY ListProperties
  <2> HIDE DEF R
  <2> QED BY <2>1, ListProperties
<1> HIDE DEF R
<1>2. /\ s \o t \in Seq(R)
      /\ Len(s \o t) = Len(s) + Len(t)
      /\ \A i \in 1..(Len(s) + Len(t)) :
           (s \o t)[i] = IF i <= Len(s) THEN s[i] ELSE t[i - Len(s)]
  BY <1>1, ConcatProperties
<1>3. IsList(s \o t)
  BY <1>2, SeqIsList
<1>4. Len(s) \in Nat /\ Len(t) \in Nat
  BY ListProperties
<1>5. ASSUME NEW i \in 1..Len(s) PROVE (s \o t)[i] = s[i]
  <2>1. i \in 1..(Len(s) + Len(t)) /\ i <= Len(s)
    BY <1>4
  <2> QED BY <2>1, <1>2
<1>6. ASSUME NEW i \in 1..Len(t) PROVE (s \o t)[Len(s) + i] = t[i]
  <2>1. Len(s) + i \in 1..(Len(s) + Len(t)) /\ ~(Len(s) + i <= Len(s)) /\ (Len(s) + i) - Len(s) = i
    BY <1>4
  <2> QED BY <2>1, <1>2
<1> QED BY <1>2, <1>3, <1>5, <1>6

\* The tail of a list moves each place down by one.
LEMMA ListTail ==
  ASSUME NEW s, IsList(s), s # <<>>
  PROVE  /\ IsList(Tail(s))
         /\ Len(s) \in Nat \ {0}
         /\ Len(Tail(s)) = Len(s) - 1
         /\ Head(s) = s[1]
         /\ \A i \in 1..Len(Tail(s)) : Tail(s)[i] = s[i + 1]
<1> DEFINE R == {s[i] : i \in DOMAIN s}
<1>1. s \in Seq(R)
  BY DEF IsList
<1> HIDE DEF R
<1>2. Tail(s) \in Seq(R)
  BY <1>1, HeadTailProperties
<1>3. IsList(Tail(s))
  BY <1>2, SeqIsList
<1> QED BY <1>1, <1>3, HeadTailProperties, EmptySeq, ListProperties

\* Concatenation is associative.
LEMMA ListsAssociate ==
  ASSUME NEW r, IsList(r), NEW s, IsList(s), NEW t, IsList(t)
  PROVE  (r \o s) \o t = r \o (s \o t)
<1> DEFINE R == {r[i] : i \in DOMAIN r} \cup {s[i] : i \in DOMAIN s} \cup {t[i] : i \in DOMAIN t}
<1>1. r \in Seq(R) /\ s \in Seq(R) /\ t \in Seq(R)
  <2>1. /\ \A i \in 1..Len(r) : r[i] \in R
        /\ \A i \in 1..Len(s) : s[i] \in R
        /\ \A i \in 1..Len(t) : t[i] \in R
    BY ListProperties
  <2> HIDE DEF R
  <2> QED BY <2>1, ListProperties
<1> HIDE DEF R
<1> QED BY <1>1, ConcatAssociative

=============================================================================
