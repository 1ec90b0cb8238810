--------------------------- MODULE SqlTextProofs ---------------------------
(***************************************************************************)
(* Facts about the nom combinators of SqlText, proved where the module    *)
(* context is small.  A grammar module nests nom's alt deeply; expanding   *)
(* its definition there makes the prover rewrite every nested use, so the *)
(* grammar proofs cite the lemmas below instead.                           *)
(***************************************************************************)
EXTENDS SqlText, WellFoundedInduction, TLAPS

(* nom alt returns the first parser's result when it succeeded and the     *)
(* second's otherwise.                                                     *)
LEMMA AltDef == \A r1, r2 : r1 (+) r2 = IF r1.ok THEN r1 ELSE r2
BY DEF (+)

(* nom alt of two results is one of them, so any property both results     *)
(* have, alt's result has.                                                 *)
LEMMA AltOneOf == \A r1, r2 : r1 (+) r2 \in {r1, r2}
BY DEF (+)


(***************************************************************************)
(* Spans.  A parser reads a prefix of its span and returns the rest: a     *)
(* suffix Drop(s, k) with k in 0..Len(s).                                  *)
(***************************************************************************)
(* A suffix of a span is a span, k bytes shorter.                          *)
LEMMA DropType ==
  ASSUME NEW X, NEW s \in Seq(X), NEW k \in 0..Len(s)
  PROVE  Drop(s, k) \in Seq(X) /\ Len(Drop(s, k)) = Len(s) - k
BY DEF Drop

(* A suffix of a suffix is a suffix.                                       *)
LEMMA DropDrop ==
  ASSUME NEW X, NEW s \in Seq(X), NEW j \in 0..Len(s), NEW k \in 0..Len(s) - j
  PROVE  Drop(Drop(s, j), k) = Drop(s, j + k)
BY DEF Drop

(* A prefix of a span is a span.                                           *)
LEMMA PrefixType ==
  ASSUME NEW X, NEW s \in Seq(X), NEW m \in 1..Len(s) + 1, NEW n \in m - 1..Len(s)
  PROVE  SubSeq(s, m, n) \in Seq(X)
OBVIOUS

(* Every non-empty set of naturals has a least element: Nat is well       *)
(* ordered.                                                                *)
LEMMA LeastElement ==
  ASSUME NEW T \in SUBSET Nat, T # {}
  PROVE  \E m \in T : \A j \in T : m <= j
<1>1. PICK m \in T : \A j \in T : ~(<<j, m>> \in OpToRel(<, Nat))
  BY NatLessThanWellFounded, WFMin
<1>2. \A j \in T : ~(<<j, m>> \in {ss \in Nat \X Nat : ss[1] < ss[2]})
  BY <1>1 DEF OpToRel
<1>3. \A j \in T : ~(j < m)
  BY <1>2
<1> QED
  BY <1>3

(* The run RunLength chooses exists: the bytes before the first byte not  *)
(* in S, or the whole span.  So whitespace0, digit1 and identifier read a *)
(* prefix of their span.                                                   *)
LEMMA RunLengthRange ==
  ASSUME NEW S, NEW X, NEW s \in Seq(X)
  PROVE  /\ RunLength(S, s) \in 0..Len(s)
         /\ \A i \in 1..RunLength(S, s) : s[i] \in S
         /\ RunLength(S, s) < Len(s) => s[RunLength(S, s) + 1] \notin S
<1> DEFINE T == {i \in 1..Len(s) : s[i] \notin S}
<1>1. \E k \in 0..Len(s) : (\A i \in 1..k : s[i] \in S) /\ (k < Len(s) => s[k + 1] \notin S)
  <2>1. CASE T = {}
    BY <2>1
  <2>2. CASE T # {}
    <3>1. T \in SUBSET Nat
      OBVIOUS
    <3>2. PICK m \in T : \A j \in T : m <= j
      BY <2>2, <3>1, LeastElement
    <3>3. WITNESS m - 1 \in 0..Len(s)
    <3> QED
      BY <3>2
  <2> QED
    BY <2>1, <2>2
<1> QED
  BY <1>1 DEF RunLength

(* tag and tag_no_case read their keyword, whitespace0 its blanks.         *)
LEMMA TagRead ==
  ASSUME NEW X, NEW s \in Seq(X), NEW kw
  PROVE  /\ Tag(kw, s).ok \in BOOLEAN
         /\ Tag(kw, s).ok => \E k \in 0..Len(s) : Tag(kw, s).rest = Drop(s, k)
         /\ TagNoCase(kw, s).ok \in BOOLEAN
         /\ TagNoCase(kw, s).ok =>
              /\ \E k \in 0..Len(s) : TagNoCase(kw, s).rest = Drop(s, k)
              /\ TagNoCase(kw, s).val \in Seq(X)
BY DEF Tag, TagNoCase, Ok, Err

LEMMA WhitespaceRead ==
  ASSUME NEW X, NEW s \in Seq(X)
  PROVE  /\ Whitespace0(s).ok = TRUE
         /\ \E k \in 0..Len(s) : Whitespace0(s).rest = Drop(s, k)
         /\ Whitespace1(s).ok \in BOOLEAN
         /\ Whitespace1(s).ok => \E k \in 0..Len(s) : Whitespace1(s).rest = Drop(s, k)
<1>1. RunLength(Blank, s) \in 0..Len(s)
  BY RunLengthRange
<1> QED
  BY <1>1 DEF Whitespace0, Whitespace1, Ok, Err

=============================================================================
