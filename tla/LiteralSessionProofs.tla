------------------------ MODULE LiteralSessionProofs ------------------------
(***************************************************************************)
(* NumbersAsWritten for every width of the integer types and every set of *)
(* texts the caller parses.  It is not inductive as it stands: a state in *)
(* phase "parsed" says nothing of where its result came from.  ParsedInv  *)
(* adds that the result held is literal(dialect) of the text held, which  *)
(* every step keeps; the grammar lemma ParseLiteralReads then gives the   *)
(* property for any byte text.                                            *)
(***************************************************************************)
EXTENDS LiteralSession, LiteralGrammarProofs

(* The result held in phase "parsed" is literal(dialect) of the text held. *)
ParsedInv == phase = "parsed" => parsed = ParseLiteral(dialect, text)

LEMMA ParsedInvInit == Init => ParsedInv
BY DEF Init, ParsedInv

LEMMA ParsedInvNext == ParsedInv /\ [Next]_vars => ParsedInv'
<1> SUFFICES ASSUME ParsedInv, [Next]_vars PROVE ParsedInv'
  OBVIOUS
<1>1. ASSUME NEW d \in Dialects, NEW l \in GenLiterals, RenderLiteral(d, l)
      PROVE  ParsedInv'
  BY <1>1 DEF RenderLiteral, RenderValue, ParsedInv
<1>2. CASE Reparse
  BY <1>2 DEF Reparse, ParsedInv
<1>3. ASSUME NEW d \in Dialects, NEW s \in Inputs, ParseText(d, s)
      PROVE  ParsedInv'
  BY <1>3 DEF ParseText, ParsedInv
<1>4. CASE Rerender
  BY <1>4 DEF Rerender, RenderValue, ParsedInv
<1>5. CASE Reset
  BY <1>5 DEF Reset, ParsedInv
<1>6. CASE UNCHANGED vars
  BY <1>6 DEF vars, ParsedInv
<1> QED
  BY <1>1, <1>2, <1>3, <1>4, <1>5, <1>6 DEF Next

(* A number that literal(dialect) returns for a text of the caller's set   *)
(* is the value of the digits it consumed: integer_literal, float_literal  *)
(* and the :N and $N placeholders never wrap or truncate (spec section 7). *)
THEOREM NumbersCorrect == Spec => []NumbersAsWritten
<1>1. ParsedInv => NumbersAsWritten
  <2> SUFFICES ASSUME ParsedInv, phase = "parsed", text \in Inputs
               PROVE  ReadsNumber(parsed, text)
    BY DEF NumbersAsWritten
  <2>1. text \in Seq(Bytes)
    BY InputsAssumption
  <2> QED
    BY <2>1, ParseLiteralReads DEF ParsedInv
<1> QED
  BY <1>1, ParsedInvInit, ParsedInvNext, PTL DEF Spec

====
