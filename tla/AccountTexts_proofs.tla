------------------------- MODULE AccountTexts_proofs -------------------------
(***************************************************************************)
(* What the rules for texts accept, for texts and limits of any length,    *)
(* and what follows for the rows of Accounts.                              *)
(***************************************************************************)
EXTENDS AccountTexts, Accounts_proofs, FiniteSetTheorems

-----------------------------------------------------------------------------
(* Trim picks the first and the last of a set of positions: there are such.*)
LEMMA LeastPosition ==
  ASSUME NEW P \in SUBSET Nat, P # {}
  PROVE  \E p \in P : \A q \in P : p <= q
<1> DEFINE Initial(p) == P \cap (0 .. p)
           Starts == {B \in SUBSET P : \E p \in P : B = Initial(p)}
<1>1. Starts \subseteq FiniteSubsetsOf(Nat)
  <2>1. ASSUME NEW B \in Starts PROVE B \in SUBSET Nat /\ IsFiniteSet(B)
    <3>1. PICK p \in P : B = Initial(p)
      OBVIOUS
    <3>2. B \in SUBSET (0 .. p) /\ B \in SUBSET Nat /\ p \in Int /\ 0 \in Int
      BY <3>1
    <3>3. IsFiniteSet(0 .. p)
      BY <3>2, FS_Interval
    <3>4. IsFiniteSet(B)
      <4> HIDE DEF Starts
      <4> QED BY <3>2, <3>3, FS_Subset
    <3> QED
      BY <3>2, <3>4
  <2> QED
    BY <2>1 DEF FiniteSubsetsOf
<1>2. Starts # {}
  <2>1. PICK p \in P : TRUE
    OBVIOUS
  <2>2. Initial(p) \in Starts
    OBVIOUS
  <2> QED
    BY <2>2
<1>3. PICK B \in Starts : \A C \in Starts : <<C, B>> \notin StrictSubsetOrdering(Nat)
  <2> HIDE DEF Starts
  <2> QED BY <1>1, <1>2, FS_StrictSubsetOrderingWellFounded, WFMin
<1>4. PICK p \in P : B = Initial(p)
  BY <1>3
<1>5. ASSUME NEW q \in P, q < p PROVE FALSE
  <2>1. Initial(q) \in Starts
    OBVIOUS
  <2>2. Initial(q) \subseteq B /\ Initial(q) # B /\ B \in SUBSET Nat
    BY <1>4, <1>5
  <2> QED
    BY <1>3, <2>1, <2>2 DEF StrictSubsetOrdering
<1> QED
  BY <1>5

LEMMA GreatestPosition ==
  ASSUME NEW n \in Nat, NEW P \in SUBSET (1 .. n), P # {}
  PROVE  \E p \in P : \A q \in P : q <= p
<1> DEFINE M == {m \in Nat : \E q \in P : m = n - q}
<1>1. M \in SUBSET Nat /\ M # {}
  <2>1. PICK q \in P : TRUE
    OBVIOUS
  <2>2. n - q \in M
    OBVIOUS
  <2> QED
    BY <2>2
<1>2. PICK m \in M : \A k \in M : m <= k
  <2> HIDE DEF M
  <2> QED BY <1>1, LeastPosition
<1>3. PICK p \in P : m = n - p
  BY <1>2
<1>4. ASSUME NEW q \in P PROVE q <= p
  <2>1. n - q \in M
    BY SMT
  <2> QED BY <2>1, <1>2, <1>3
<1> QED
  BY <1>4
(* A set of numbers that holds 0, and the next of each it holds, holds all.*)
LEMMA Counting ==
  ASSUME NEW N \in SUBSET Nat, 0 \in N, \A n \in N : n + 1 \in N
  PROVE  \A n \in Nat : n \in N
<1> SUFFICES ASSUME Nat \ N # {} PROVE FALSE
  OBVIOUS
<1>1. PICK p \in Nat \ N : \A q \in Nat \ N : p <= q
  BY LeastPosition
<1>2. p # 0 /\ p - 1 \in Nat
  BY <1>1
<1>3. p - 1 \in N
  BY <1>1, <1>2
<1> QED
  BY <1>1, <1>3

UpTo(P, i) == {j \in P : j <= i}
Rank(P, i) == Cardinality(UpTo(P, i))

LEMMA FinitePositions ==
  ASSUME NEW n \in Nat, NEW P \in SUBSET (1 .. n)
  PROVE  IsFiniteSet(P) /\ Cardinality(P) \in Nat
<1>1. n \in Int /\ 1 \in Int
  OBVIOUS
<1> QED
  BY <1>1, FS_Interval, FS_Subset, FS_CardinalityType

(* Ranks follow the positions and stay within their number.                *)
LEMMA RanksInOrder ==
  ASSUME NEW n \in Nat, NEW P \in SUBSET (1 .. n)
  PROVE  /\ \A i \in P : Rank(P, i) \in 1 .. Cardinality(P)
         /\ \A i, j \in P : i < j => Rank(P, i) < Rank(P, j)
<1>1. ASSUME NEW i \in P
      PROVE  i \in UpTo(P, i) /\ UpTo(P, i) \in SUBSET P /\ UpTo(P, i) \in SUBSET (1 .. n)
  <2>1. i <= i
    OBVIOUS
  <2> QED
    BY <2>1, Zenon DEF UpTo
<1>2. \A i \in P : IsFiniteSet(UpTo(P, i)) /\ Rank(P, i) \in Nat
  BY <1>1, FinitePositions DEF Rank
<1>3. IsFiniteSet(P) /\ Cardinality(P) \in Nat
  BY FinitePositions
<1>4. ASSUME NEW i \in P PROVE Rank(P, i) \in 1 .. Cardinality(P)
  <2>1. Rank(P, i) # 0
    BY <1>1, <1>2, FS_EmptySet DEF Rank
  <2>2. Rank(P, i) <= Cardinality(P)
    BY <1>1, <1>3, FS_Subset DEF Rank
  <2> QED
    BY <1>2, <1>3, <2>1, <2>2
<1>5. ASSUME NEW i \in P, NEW j \in P, i < j PROVE Rank(P, i) < Rank(P, j)
  <2>1. i \in Nat /\ j \in Nat
    OBVIOUS
  <2>2. /\ \A q \in P : q <= i => q <= j
        /\ ~(j <= i)
    BY <1>5, <2>1
  <2>3. UpTo(P, i) \in SUBSET UpTo(P, j) /\ j \in UpTo(P, j) /\ j \notin UpTo(P, i)
    BY <1>1, <2>2, Zenon DEF UpTo
  <2>4. Rank(P, i) <= Rank(P, j) /\ Rank(P, i) # Rank(P, j)
    BY <1>2, <2>3, FS_Subset DEF Rank
  <2> QED
    BY <1>2, <2>4
<1> QED
  BY <1>4, <1>5

(* And every number up to theirs is the rank of one.                       *)
LEMMA RanksAreAll ==
  ASSUME NEW n \in Nat, NEW P \in SUBSET (1 .. n), NEW k \in 1 .. Cardinality(P)
  PROVE  \E i \in P : Rank(P, i) = k
<1> DEFINE Ranked(m) == \A Q \in SUBSET (1 .. m) :
                          \A h \in 1 .. Cardinality(Q) : \E i \in Q : Rank(Q, i) = h
           N == {m \in Nat : Ranked(m)}
<1>1. 0 \in N
  <2> SUFFICES ASSUME NEW Q \in SUBSET (1 .. 0), NEW h \in 1 .. Cardinality(Q) PROVE FALSE
    OBVIOUS
  <2>1. Q = {}
    OBVIOUS
  <2> QED
    BY <2>1, FS_EmptySet
<1>2. ASSUME NEW m \in N PROVE m + 1 \in N
  <2> SUFFICES ASSUME NEW Q \in SUBSET (1 .. (m + 1)), NEW h \in 1 .. Cardinality(Q)
               PROVE  \E i \in Q : Rank(Q, i) = h
    OBVIOUS
  <2> DEFINE R == Q \ {m + 1}
  <2>1. m \in Nat /\ R \in SUBSET (1 .. m) /\ Ranked(m)
    BY <1>2
  <2>2. IsFiniteSet(R) /\ Cardinality(R) \in Nat
    BY <2>1, FinitePositions
  <2>3. CASE m + 1 \notin Q
    BY <2>1, <2>3
  <2>4. CASE m + 1 \in Q
    <3>1. Q = R \cup {m + 1} /\ m + 1 \notin R
      BY <2>4
    <3>2. Cardinality(Q) = Cardinality(R) + 1
      <4> HIDE DEF R
      <4> QED BY <2>2, <3>1, FS_AddElement
    <3>3. CASE h = Cardinality(Q)
      <4>1. UpTo(Q, m + 1) = Q
        <5>1. \A q \in Q : q <= m + 1
          BY <2>1
        <5> QED
          BY <5>1, Zenon DEF UpTo
      <4> QED
        BY <2>4, <3>3, <4>1 DEF Rank
    <3>4. CASE h # Cardinality(Q)
      <4>1. h \in 1 .. Cardinality(R)
        BY <2>2, <3>2, <3>4
      <4>2. PICK i \in R : Rank(R, i) = h
        BY <2>1, <4>1
      <4>3. UpTo(Q, i) = UpTo(R, i)
        BY <2>1, <3>1 DEF UpTo
      <4> QED
        BY <4>2, <4>3 DEF Rank
    <3> QED
      BY <3>3, <3>4
  <2> QED
    BY <2>3, <2>4
<1>3. n \in N
  <2>1. N \in SUBSET Nat
    OBVIOUS
  <2> HIDE DEF N
  <2> QED BY <1>1, <1>2, <2>1, Counting
<1> QED
  BY <1>3
-----------------------------------------------------------------------------
(* Has nothing to trim.                                                    *)
Solid(text) == text # <<>> => text[1] \notin Whitespace /\ text[Len(text)] \notin Whitespace

(* Trim takes a piece out of a text, and leaves no whitespace at its ends. *)
LEMMA TrimShape ==
  ASSUME NEW S, NEW text \in Seq(S)
  PROVE  /\ Trim(text) \in Seq(S)
         /\ Len(Trim(text)) <= Len(text)
         /\ Solid(Trim(text))
<1> DEFINE solid == {i \in DOMAIN text : text[i] \notin Whitespace}
           first == CHOOSE i \in solid : \A j \in solid : i <= j
           last == CHOOSE i \in solid : \A j \in solid : j <= i
<1>1. CASE solid = {}
  <2>1. Trim(text) = <<>>
    BY <1>1 DEF Trim
  <2> QED
    BY <2>1 DEF Solid
<1>2. CASE solid # {}
  <2>1. first \in solid /\ \A j \in solid : first <= j
    <3>1. solid \in SUBSET Nat
      OBVIOUS
    <3>2. \E i \in solid : \A j \in solid : i <= j
      <4> HIDE DEF solid
      <4> QED BY <1>2, <3>1, LeastPosition
    <3> QED
      BY <3>2
  <2>2. last \in solid /\ \A j \in solid : j <= last
    <3>1. solid \in SUBSET (1 .. Len(text)) /\ Len(text) \in Nat
      OBVIOUS
    <3>2. \E i \in solid : \A j \in solid : j <= i
      <4> HIDE DEF solid
      <4> QED BY <1>2, <3>1, GreatestPosition
    <3> QED
      BY <3>2
  <2>3. Trim(text) = SubSeq(text, first, last)
    BY <1>2 DEF Trim
  <2>4. /\ first \in 1 .. Len(text) /\ last \in 1 .. Len(text) /\ first <= last
        /\ text[first] \notin Whitespace /\ text[last] \notin Whitespace
    BY <2>1, <2>2
  <2> HIDE DEF first, last
  <2>5. /\ SubSeq(text, first, last) \in Seq(S)
        /\ Len(SubSeq(text, first, last)) = last - first + 1
        /\ SubSeq(text, first, last)[1] = text[first]
        /\ SubSeq(text, first, last)[last - first + 1] = text[last]
    BY <2>4
  <2> QED
    BY <2>3, <2>4, <2>5 DEF Solid
<1> QED
  BY <1>1, <1>2

(* There is nothing left to take off a trimmed text.                       *)
LEMMA TrimFix ==
  ASSUME NEW S, NEW text \in Seq(S), Solid(text)
  PROVE  Trim(text) = text
<1> DEFINE solid == {i \in DOMAIN text : text[i] \notin Whitespace}
           first == CHOOSE i \in solid : \A j \in solid : i <= j
           last == CHOOSE i \in solid : \A j \in solid : j <= i
<1>1. CASE text = <<>>
  BY <1>1 DEF Trim
<1>2. CASE text # <<>>
  <2>1. 1 \in solid /\ Len(text) \in solid
    BY <1>2 DEF Solid
  <2>2. \A j \in solid : j \in Nat /\ 1 <= j /\ j <= Len(text)
    OBVIOUS
  <2>3. first = 1
    <3> HIDE DEF solid
    <3>1. first \in solid /\ first <= 1
      BY <2>1, <2>2
    <3> QED
      BY <3>1, <2>2
  <2>4. last = Len(text)
    <3> HIDE DEF solid
    <3>1. last \in solid /\ Len(text) <= last
      BY <2>1, <2>2
    <3> QED
      BY <3>1, <2>2
  <2>5. Trim(text) = SubSeq(text, first, last)
    BY <2>1 DEF Trim
  <2> HIDE DEF first, last
  <2> QED
    BY <2>3, <2>4, <2>5
<1> QED
  BY <1>1, <1>2

(* What folding keeps: all but a CR before an LF.                          *)
Stays(text) == {i \in DOMAIN text :
                 ~(text[i] = "CR" /\ i < Len(text) /\ text[i + 1] = "LF")}

(* normalizeBio loses nothing in folding line ends: every character but a  *)
(* CR before an LF is there, once, in the order it was typed, and nothing  *)
(* else is.                                                                *)
THEOREM FoldKeepsTheRest ==
  ASSUME NEW S, NEW text \in Seq(S)
  PROVE  LET folded == FoldLineEndings(text) IN
         /\ folded \in Seq(S) /\ Len(folded) = Cardinality(Stays(text))
         /\ \A i \in Stays(text) :
              Rank(Stays(text), i) \in DOMAIN folded /\ folded[Rank(Stays(text), i)] = text[i]
         /\ \A i, j \in Stays(text) : i < j => Rank(Stays(text), i) < Rank(Stays(text), j)
<1> DEFINE kept == Stays(text)
           Source(k) == CHOOSE i \in kept : Rank(kept, i) = k
<1>1. kept \in SUBSET (1 .. Len(text)) /\ Len(text) \in Nat
  BY DEF Stays
<1>2. Cardinality(kept) \in Nat
  BY <1>1, FinitePositions
<1>3. FoldLineEndings(text) = [k \in 1 .. Cardinality(kept) |-> text[Source(k)]]
  BY DEF FoldLineEndings, Stays, Rank, UpTo
<1> HIDE DEF kept
<1>4. \A k \in 1 .. Cardinality(kept) : Source(k) \in kept /\ Rank(kept, Source(k)) = k
  <2> SUFFICES ASSUME NEW k \in 1 .. Cardinality(kept)
               PROVE  Source(k) \in kept /\ Rank(kept, Source(k)) = k
    OBVIOUS
  <2>1. \E i \in kept : Rank(kept, i) = k
    BY <1>1, RanksAreAll
  <2> QED
    BY <2>1
<1>5. /\ \A i \in kept : Rank(kept, i) \in 1 .. Cardinality(kept)
      /\ \A i, j \in kept : i < j => Rank(kept, i) < Rank(kept, j)
  BY <1>1, RanksInOrder
<1>6. \A i \in kept : Source(Rank(kept, i)) = i
  <2> SUFFICES ASSUME NEW i \in kept PROVE Source(Rank(kept, i)) = i
    OBVIOUS
  <2> DEFINE j == Source(Rank(kept, i))
  <2>1. j \in kept /\ Rank(kept, j) = Rank(kept, i)
    BY <1>4, <1>5
  <2> HIDE DEF j
  <2>2. i \in Nat /\ j \in Nat /\ Rank(kept, i) \in Nat
    BY <1>1, <1>2, <1>5, <2>1
  <2>3. ~(i < j) /\ ~(j < i)
    BY <1>5, <2>1, <2>2
  <2> QED
    BY <2>2, <2>3 DEF j
<1> HIDE DEF Source
<1>7. \A i \in kept : text[i] \in S
  BY <1>1
<1>8. FoldLineEndings(text) \in Seq(S) /\ Len(FoldLineEndings(text)) = Cardinality(kept)
  BY <1>2, <1>3, <1>4, <1>7
<1>9. \A i \in kept : FoldLineEndings(text)[Rank(kept, i)] = text[i]
  BY <1>3, <1>5, <1>6
<1> QED
  BY <1>2, <1>5, <1>8, <1>9 DEF kept

(* A text without a CR stays as it is.                                     *)
LEMMA FoldFix ==
  ASSUME NEW S, NEW text \in Seq(S), ~Has(text, {"CR"})
  PROVE  FoldLineEndings(text) = text
<1> DEFINE kept == {i \in DOMAIN text :
                      ~(text[i] = "CR" /\ i < Len(text) /\ text[i + 1] = "LF")}
           Kept(k) == CHOOSE i \in kept : Cardinality({j \in kept : j <= i}) = k
<1>1. kept = 1 .. Len(text) /\ Len(text) \in Nat
  BY DEF Has
<1>2. \A i \in kept : Cardinality({j \in kept : j <= i}) = i
  <2> HIDE DEF kept
  <2> SUFFICES ASSUME NEW i \in kept PROVE Cardinality({j \in kept : j <= i}) = i
    OBVIOUS
  <2>1. {j \in kept : j <= i} = 1 .. i /\ i \in Int /\ 1 \in Int /\ 1 <= i
    BY <1>1
  <2>2. Cardinality(1 .. i) = IF 1 > i THEN 0 ELSE i - 1 + 1
    BY <2>1, FS_Interval
  <2>3. Cardinality(1 .. i) = i
    BY <2>1, <2>2
  <2> QED
    BY <2>1, <2>3, Zenon
<1>3. Cardinality(kept) = Len(text)
  <2> HIDE DEF kept
  <2>1. Len(text) \in Int /\ 1 \in Int
    BY <1>1
  <2>2. Cardinality(1 .. Len(text)) = IF 1 > Len(text) THEN 0 ELSE Len(text) - 1 + 1
    BY <2>1, FS_Interval
  <2> QED
    BY <1>1, <2>2
<1>4. \A k \in 1 .. Len(text) : Kept(k) = k
  <2> HIDE DEF kept
  <2> QED BY <1>1, <1>2
<1>5. FoldLineEndings(text) = [k \in 1 .. Cardinality(kept) |-> text[Kept(k)]]
  BY DEF FoldLineEndings
<1> HIDE DEF kept, Kept
<1>6. FoldLineEndings(text) = [k \in 1 .. Len(text) |-> text[k]]
  BY <1>3, <1>4, <1>5
<1> QED
  BY <1>6

-----------------------------------------------------------------------------
(* What normalizeDisplayName returns, when it does not refuse.             *)
Named(text) == text # <<>> /\ Presentable(text, {}, NameMax) /\ ~Has(text, Invisible)

(* A display name that is not refused is presentable.                      *)
LEMMA NameShape ==
  ASSUME NEW S, NEW text \in Seq(S), NormalizeDisplayName(text) # Refused
  PROVE  NormalizeDisplayName(text) \in Seq(S) /\ Named(NormalizeDisplayName(text))
<1>1. /\ NormalizeDisplayName(text) = Trim(text) /\ Trim(text) # <<>>
      /\ ~HasControlCharacters(Trim(text), FALSE) /\ ~Has(Trim(text), Invisible)
      /\ Len(Trim(text)) <= NameMax
  BY DEF NormalizeDisplayName, CountCharacters
<1>2. ~Has(Trim(text), Controls \ {})
  BY <1>1 DEF HasControlCharacters
<1> QED
  BY <1>1, <1>2, TrimShape DEF Named, Presentable, Solid

(* And a text that is presentable is a display name already.               *)
LEMMA NameFix ==
  ASSUME NEW S, NEW text \in Seq(S), Named(text)
  PROVE  NormalizeDisplayName(text) = text
<1>1. Trim(text) = text
  BY TrimFix DEF Named, Presentable, Solid
<1>2. ~HasControlCharacters(text, FALSE)
  BY DEF Named, Presentable, HasControlCharacters
<1> QED
  BY <1>1, <1>2 DEF NormalizeDisplayName, Named, Presentable, CountCharacters

(* The same of bios.                                                       *)
LEMMA BioShape ==
  ASSUME NEW S, NEW text \in Seq(S), NormalizeBio(text) # Refused
  PROVE  /\ NormalizeBio(text) \in Seq(S)
         /\ Presentable(NormalizeBio(text), {"LF"}, BioMax)
<1> DEFINE trimmed == Trim(FoldLineEndings(text))
<1>1. /\ NormalizeBio(text) = trimmed
      /\ ~HasControlCharacters(trimmed, TRUE) /\ Len(trimmed) <= BioMax
  BY DEF NormalizeBio, CountCharacters
<1>2. FoldLineEndings(text) \in Seq(S)
  BY FoldKeepsTheRest
<1>3. trimmed \in Seq(S) /\ Solid(trimmed)
  BY <1>2, TrimShape
<1>4. ~Has(trimmed, Controls \ {"LF"})
  BY <1>1 DEF HasControlCharacters
<1> HIDE DEF trimmed
<1> QED
  BY <1>1, <1>3, <1>4 DEF Presentable, Solid

LEMMA BioFix ==
  ASSUME NEW S, NEW text \in Seq(S), Presentable(text, {"LF"}, BioMax)
  PROVE  NormalizeBio(text) = text
<1>1. ~Has(text, {"CR"})
  BY DEF Presentable, Has, Controls
<1>2. Trim(FoldLineEndings(text)) = text
  BY <1>1, FoldFix, TrimFix DEF Presentable, Solid
<1>3. ~HasControlCharacters(text, TRUE)
  BY DEF Presentable, HasControlCharacters
<1> QED
  BY <1>2, <1>3 DEF NormalizeBio, Presentable, CountCharacters

(* A handle is a display name that nothing has to be done to: register     *)
(* stores it as one without asking.                                        *)
LEMMA HandleIsName ==
  ASSUME NEW text \in Text, IsHandle(text)
  PROVE  Named(text)
<1>1. Len(text) >= 1 /\ Len(text) <= NameMax /\ Len(text) \in Nat
  BY LimitsAssumption DEF IsHandle, Text
<1>2. \A i \in 1 .. Len(text) : text[i] \in WordCharacters
  BY DEF IsHandle, Has, Text
<1>3. \A c \in WordCharacters : c \notin Whitespace \cup Controls \cup Invisible
  BY DEF WordCharacters, Whitespace, Controls, Invisible
<1>4. DOMAIN text = 1 .. Len(text)
  BY DEF Text
<1> QED
  BY <1>1, <1>2, <1>3, <1>4 DEF Named, Presentable, Has

-----------------------------------------------------------------------------
(* What the columns hold, once there is a row.                             *)
LEMMA RowTexts ==
  ASSUME IInv, NEW i \in Accounts
  PROVE  /\ displayName[i] \in Text /\ Named(displayName[i])
         /\ bio[i] \in Text /\ Presentable(bio[i], {"LF"}, BioMax)
<1>1. displayName[i] \in Spellings \cup Names /\ bio[i] \in Bios
  BY ValuesAssumption DEF IInv, TypeOK, RowsSound, DisplayNames, Accounts
<1>2. ASSUME displayName[i] \in Spellings
      PROVE  displayName[i] \in Text /\ Named(displayName[i])
  <2>1. displayName[i] \in Text /\ IsHandle(displayName[i])
    BY <1>2, TextAssumption DEF AcceptedHandles
  <2> QED
    BY <2>1, HandleIsName
<1>3. ASSUME displayName[i] \in Names
      PROVE  displayName[i] \in Text /\ Named(displayName[i])
  <2>1. PICK text \in TypedNames :
          displayName[i] = NormalizeDisplayName(text) /\ displayName[i] # Refused
    BY <1>3, TextAssumption DEF AcceptedNames
  <2>2. text \in Seq(Characters)
    BY TextAssumption DEF Text
  <2> QED
    BY <2>1, <2>2, NameShape DEF Text
<1>4. bio[i] \in Text /\ Presentable(bio[i], {"LF"}, BioMax)
  <2>1. PICK text \in TypedBios : bio[i] = NormalizeBio(text) /\ bio[i] # Refused
    BY <1>1, TextAssumption DEF AcceptedBios
  <2>2. text \in Seq(Characters)
    BY TextAssumption DEF Text
  <2> QED
    BY <2>1, <2>2, BioShape DEF Text
<1> QED
  BY <1>1, <1>2, <1>3, <1>4

(* What is stored can be shown as it is, whatever was typed and whichever  *)
(* calls raced to store it.                                                *)
THEOREM StoredArePresentable == Spec => []StoredTextsArePresentable
<1>1. IInv => StoredTextsArePresentable
  BY RowTexts DEF StoredTextsArePresentable, Named
<1> QED
  BY <1>1, Invariant, PTL

(* A profile that is sent back as it was read is accepted and stays as it  *)
(* was.                                                                    *)
THEOREM ReadBackIsHarmless == Spec => []ReadBackChangesNothing
<1>1. IInv => ReadBackChangesNothing
  BY RowTexts, NameFix, BioFix DEF ReadBackChangesNothing, Text
<1> QED
  BY <1>1, Invariant, PTL
=============================================================================
