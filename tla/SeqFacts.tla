----------------------------- MODULE SeqFacts ------------------------------
(***************************************************************************)
(* Sequences seen through their range, for the proofs of this project: a   *)
(* queue is a sequence, what waits in it is its Range, and `nothing waits   *)
(* twice' is IsInjective.  And, last, the least element of a set of        *)
(* numbers, which stands for induction.                                    *)
(***************************************************************************)
EXTENDS Integers, Sequences, Functions, SequenceTheorems, WellFoundedInduction, TLAPS

(* Nothing waits in the empty sequence. *)
LEMMA EmptyFacts == Range(<< >>) = {} /\ IsInjective(<< >>)
  BY DEF Range, IsInjective

(* Append adds one element to the range. *)
LEMMA AppendFacts ==
  ASSUME NEW S, NEW s \in Seq(S), NEW e \in S
  PROVE  /\ Append(s, e) \in Seq(S)
         /\ Append(s, e) # << >>
         /\ Range(Append(s, e)) = Range(s) \cup {e}
         /\ IsInjective(s) /\ e \notin Range(s) => IsInjective(Append(s, e))
  <1>1. Append(s, e) \in Seq(S) /\ Append(s, e) # << >>
    <2>1. Append(s, e) \in Seq(S) /\ Len(Append(s, e)) = Len(s) + 1
      OBVIOUS
    <2>2. Len(s) \in Nat /\ Len(<< >>) = 0
      OBVIOUS
    <2> QED BY <2>1, <2>2
  <1>2. Range(Append(s, e)) = Range(s) \cup {e}
    <2>1. ASSUME NEW x \in Range(Append(s, e)) PROVE x \in Range(s) \cup {e}
      BY <2>1 DEF Range
    <2>2. ASSUME NEW x \in Range(s) PROVE x \in Range(Append(s, e))
      BY <2>2 DEF Range
    <2>3. e \in Range(Append(s, e))
      <3>1. Append(s, e)[Len(s) + 1] = e /\ Len(s) + 1 \in DOMAIN Append(s, e)
        OBVIOUS
      <3> QED BY <3>1 DEF Range
    <2> QED BY <2>1, <2>2, <2>3
  <1>3. IsInjective(s) /\ e \notin Range(s) => IsInjective(Append(s, e))
    BY DEF IsInjective, Range
  <1> QED BY <1>1, <1>2, <1>3

(* Head and Tail split the range; without repetition they split it in two. *)
LEMMA HeadTailFacts ==
  ASSUME NEW S, NEW s \in Seq(S), s # << >>
  PROVE  /\ Head(s) \in S /\ Tail(s) \in Seq(S)
         /\ Range(s) = {Head(s)} \cup Range(Tail(s))
         /\ IsInjective(s) => IsInjective(Tail(s)) /\ Head(s) \notin Range(Tail(s))
         /\ Tail(s) = << >> <=> Len(s) = 1
  <1>1. Head(s) \in S /\ Tail(s) \in Seq(S) /\ (Tail(s) = << >> <=> Len(s) = 1)
    <2>1. Len(s) \in Nat /\ Len(s) # 0
      OBVIOUS
    <2>2. Head(s) \in S /\ Tail(s) \in Seq(S) /\ Len(Tail(s)) = Len(s) - 1
      BY <2>1
    <2>3. Len(Tail(s)) = 0 <=> Tail(s) = << >>
      BY <2>2, EmptySeq
    <2> QED BY <2>1, <2>2, <2>3
  <1>2. Range(s) = {Head(s)} \cup Range(Tail(s))
    <2>1. ASSUME NEW x \in Range(s) PROVE x \in {Head(s)} \cup Range(Tail(s))
      <3>1. PICK i \in DOMAIN s : s[i] = x
        BY <2>1 DEF Range
      <3>2. CASE i = 1
        BY <3>1, <3>2
      <3>3. CASE i # 1
        <4>1. i - 1 \in DOMAIN Tail(s) /\ Tail(s)[i - 1] = x
          BY <3>1, <3>3
        <4> QED BY <4>1 DEF Range
      <3> QED BY <3>2, <3>3
    <2>2. ASSUME NEW x \in Range(Tail(s)) PROVE x \in Range(s)
      <3>1. PICK i \in DOMAIN Tail(s) : Tail(s)[i] = x
        BY <2>2 DEF Range
      <3>2. i + 1 \in DOMAIN s /\ s[i + 1] = x
        BY <3>1
      <3> QED BY <3>2 DEF Range
    <2>3. Head(s) \in Range(s)
      <3>1. 1 \in DOMAIN s /\ s[1] = Head(s)
        OBVIOUS
      <3> QED BY <3>1 DEF Range
    <2> QED BY <2>1, <2>2, <2>3
  <1>3. IsInjective(s) => IsInjective(Tail(s)) /\ Head(s) \notin Range(Tail(s))
    BY DEF IsInjective, Range
  <1> QED BY <1>1, <1>2, <1>3

(* The range of a sequence over S is within S. *)
LEMMA RangeType ==
  ASSUME NEW S, NEW s \in Seq(S)
  PROVE  Range(s) \subseteq S
  BY DEF Range

(* Appending to the second part of a concatenation appends to the whole. *)
LEMMA ConcatAppend ==
  ASSUME NEW S, NEW s \in Seq(S), NEW t \in Seq(S), NEW x \in S
  PROVE  s \o Append(t, x) = Append(s \o t, x)
  BY AppendIsConcat, ConcatAssociative, ConcatProperties

(* Moving the head of the second part to the end of the first. *)
LEMMA ShiftHead ==
  ASSUME NEW S, NEW s \in Seq(S), NEW t \in Seq(S), t # << >>
  PROVE  /\ Append(s, Head(t)) \in Seq(S) /\ Tail(t) \in Seq(S)
         /\ Append(s, Head(t)) \o Tail(t) = s \o t
  <1>1. Head(t) \in S /\ Tail(t) \in Seq(S)
    BY HeadTailFacts
  <1>2. Append(s, Head(t)) = s \o <<Head(t)>>
    BY <1>1, AppendIsConcat
  <1>3. <<Head(t)>> \o Tail(t) = t
    BY <1>1, HeadTailProperties, ConcatProperties, SeqEqual
  <1>4. (s \o <<Head(t)>>) \o Tail(t) = s \o (<<Head(t)>> \o Tail(t))
    BY <1>1, ConcatAssociative
  <1> QED BY <1>1, <1>2, <1>3, <1>4

(* The front of a concatenation and what remains without it. *)
LEMMA FrontFacts ==
  ASSUME NEW S, NEW s \in Seq(S), NEW t \in Seq(S)
  PROVE  /\ SubSeq(s \o t, 1, Len(s)) = s
         /\ SubSeq(s \o t, Len(s) + 1, Len(s \o t)) = t
         /\ s # << >> => Len(s) \in 1..Len(s \o t)
  BY ConcatProperties, SubSeqProperties, SeqEqual, EmptySeq

(* A non-empty set of natural numbers has a least element. *)
LEMMA LeastElement ==
  ASSUME NEW T, T \subseteq Nat, T # {}
  PROVE  \E x \in T : \A y \in T : x <= y
  <1>1. PICK x \in T : \A y \in T : <<y, x>> \notin OpToRel(<, Nat)
    BY NatLessThanWellFounded, WFMin, Zenon
  <1>2. ASSUME NEW y \in T PROVE x <= y
    <2>1. y \in Nat /\ x \in Nat
      OBVIOUS
    <2>2. ~(y < x)
      BY <1>1, <2>1 DEF OpToRel
    <2> QED BY <2>1, <2>2
  <1> QED BY <1>2
=============================================================================
