------------------------------ MODULE SqlText ------------------------------
(***************************************************************************)
(* The input of every nom-sql parser is a byte span &[u8]; here it is a    *)
(* sequence of one-character strings.  A parser maps a span to a result    *)
(* record: on success the value it built and the rest of the span, on      *)
(* failure the span it failed at (nom's Err::Error(e) with e.input).       *)
(*                                                                         *)
(* This module holds the nom primitives the grammar of common.rs is built  *)
(* from (tag, tag_no_case, digit1) and the whitespace scanners of          *)
(* whitespace.rs, which are outside src/ and modelled from the spec.       *)
(***************************************************************************)
EXTENDS Naturals, Sequences

(* The characters of a string literal, as a sequence of 1-char strings.    *)
Chars(str) == [i \in 1..Len(str) |-> SubSeq(str, i, i)]

UpperLetters == "ABCDEFGHIJKLMNOPQRSTUVWXYZ"
LowerLetters == "abcdefghijklmnopqrstuvwxyz"

(* ASCII case folding, the comparison tag_no_case makes byte by byte.      *)
CaseFold(c) ==
  IF \E i \in 1..26 : SubSeq(UpperLetters, i, i) = c
  THEN LET i == CHOOSE j \in 1..26 : SubSeq(UpperLetters, j, j) = c
       IN  SubSeq(LowerLetters, i, i)
  ELSE c

DigitChar == Chars("0123456789")
Digits == {DigitChar[i] : i \in 1..10}
DigitOf(d) == DigitChar[d + 1]
DigitValue(c) == CHOOSE d \in 0..9 : DigitOf(d) = c

(* Whitespace as whitespace0/whitespace1 (whitespace.rs) recognise it.     *)
Blank == {" ", "\n"}

(***************************************************************************)
(* Parse results.                                                          *)
(***************************************************************************)
NoValue == [tag |-> "None"]
Ok(v, rest) == [ok |-> TRUE, val |-> v, rest |-> rest]
Err(at) == [ok |-> FALSE, val |-> NoValue, rest |-> at]

(* Option<T>: None, or Some(v) as a one-element sequence.                  *)
None == <<>>
Some(v) == <<v>>

(* nom opt(p), given the result r of p on s: never fails, and consumes     *)
(* nothing when p fails.                                                   *)
Opt(r, s) == IF r.ok THEN Ok(Some(r.val), r.rest) ELSE Ok(None, s)

Drop(s, k) == SubSeq(s, k + 1, Len(s))

(* nom tag(kw): the span starts with the bytes of kw.                      *)
Tag(kw, s) ==
  IF Len(kw) \in 0..Len(s) /\ SubSeq(s, 1, Len(kw)) = kw
  THEN Ok(kw, Drop(s, Len(kw)))
  ELSE Err(s)

(* nom tag_no_case(kw): the same, comparing ASCII case-insensitively.      *)
TagNoCase(kw, s) ==
  IF Len(kw) \in 0..Len(s) /\ \A i \in 1..Len(kw) : CaseFold(s[i]) = CaseFold(kw[i])
  THEN Ok(SubSeq(s, 1, Len(kw)), Drop(s, Len(kw)))
  ELSE Err(s)

(* nom's sequencing (tuple, preceded, terminated): if the parse r          *)
(* succeeded, the continuation K on its value and the rest; otherwise r's *)
(* failure.  Each parse appears once, its value and rest bound by K.       *)
Then(r, K(_, _)) == IF r.ok THEN K(r.val, r.rest) ELSE r

(* nom alt of two parsers: the result of the first if it succeeded, else   *)
(* the result of the second.  alt((p1, ..., pn)) is p1 (+) ... (+) pn: the *)
(* first alternative that succeeds, or the error of the last.              *)
r1 (+) r2 == IF r1.ok THEN r1 ELSE r2

(* nom delimited(tag(l), p, tag(r)): the value of p between l and r.       *)
Delimited(l, P(_), r, s) ==
  Then(Tag(l, s), LAMBDA open, u :
  Then(P(u), LAMBDA v, w :
  Then(Tag(r, w), LAMBDA close, x : Ok(v, x))))

(* The length of the longest prefix of s made of characters of S.          *)
RunLength(S, s) ==
  CHOOSE k \in 0..Len(s) :
    /\ \A i \in 1..k : s[i] \in S
    /\ k < Len(s) => s[k + 1] \notin S

(* nom digit1: one or more ASCII digits.                                   *)
Digit1(s) ==
  LET k == RunLength(Digits, s)
  IN  IF k = 0 THEN Err(s) ELSE Ok(SubSeq(s, 1, k), Drop(s, k))

(* whitespace0 never fails; whitespace1 needs one blank.                   *)
Whitespace0(s) == Ok(NoValue, Drop(s, RunLength(Blank, s)))
Whitespace1(s) ==
  IF RunLength(Blank, s) = 0 THEN Err(s) ELSE Whitespace0(s)

=============================================================================
