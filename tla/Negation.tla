-------------------------------- MODULE Negation -------------------------------
(***************************************************************************)
(* isNegated of internal/claims: whether a negation stands before a match. *)
(*                                                                         *)
(* Only the text before the match counts, and of it only the last Window   *)
(* bytes are searched, for a negator, white space, at most two words each  *)
(* followed by white space, and the match.  Here that text is its bytes.   *)
(* The nine negators of the expression are one, of a single byte; a letter *)
(* that is not ASCII stands for all that is neither word byte nor space,   *)
(* and has two bytes.                                                      *)
(***************************************************************************)
EXTENDS Naturals, Sequences

CONSTANTS
  Window,      \* negationWindow
  MaxLength    \* bound on the text before the match

ASSUME NegationAssumption == Window \in Nat /\ MaxLength \in Nat

VARIABLE text  \* what stands before the match

Negator == "n"
Word == {Negator, "x"}
Space == " "
Runes == {<<Negator>>, <<"x">>, <<Space>>, <<"lead", "continuation">>}

RuneStart(byte) == byte # "continuation"

Init == text = <<>>

Grow(rune) == Len(text) + Len(rune) <= MaxLength /\ text' = text \o rune

Next == \E rune \in Runes : Grow(rune)

Spec == Init /\ [][Next]_text

-------------------------------------------------------------------------------

\* Slip: the first byte of the window is passed over without a look at it.
WindowStartSkipsOne ==
  LET lo == IF Len(text) < Window THEN 1 ELSE Len(text) - Window + 1
  IN  CHOOSE i \in lo .. Len(text) + 1 :
        /\ i > lo \/ i = Len(text) + 1
        /\ i = Len(text) + 1 \/ RuneStart(text[i])
        /\ \A j \in lo + 1 .. i - 1 : ~RuneStart(text[j])

(* The first byte searched: that of the first whole rune in the window. *)
WindowStart ==
  LET lo == IF Len(text) < Window THEN 1 ELSE Len(text) - Window + 1
  IN  CHOOSE i \in lo .. Len(text) + 1 :
        /\ i = Len(text) + 1 \/ RuneStart(text[i])
        /\ \A j \in lo .. i - 1 : ~RuneStart(text[j])

\* Slip: the expression without its \b.
BoundaryAnywhere(lo, p) == TRUE

(* \b, before a word byte of what is searched, which begins at lo. *)
Boundary(lo, p) == p = lo \/ text[p - 1] \notin Word

(* \s+(?:\w+\s+){0,2}$ from p on *)
WordsToMatch(p) ==
  /\ p <= Len(text)
  /\ text[p] = Space /\ text[Len(text)] = Space
  /\ \A i \in p .. Len(text) : text[i] \in Word \cup {Space}
  /\ \A i, j, k \in p + 1 .. Len(text) :
       ~(i < j /\ j < k /\ \A w \in {i, j, k} : text[w] \in Word /\ text[w - 1] = Space)

isNegated ==
  LET lo == WindowStart
  IN  \E p \in lo .. Len(text) : text[p] = Negator /\ Boundary(lo, p) /\ WordsToMatch(p + 1)

-------------------------------------------------------------------------------
(* What stands before the match, word by word. *)

(* The words: runs of word bytes that nothing extends. *)
Words ==
  {w \in (1 .. Len(text)) \X (1 .. Len(text)) :
     /\ w[1] <= w[2] /\ \A i \in w[1] .. w[2] : text[i] \in Word
     /\ w[1] = 1 \/ text[w[1] - 1] \notin Word
     /\ w[2] = Len(text) \/ text[w[2] + 1] \notin Word}

(* A negator is a word of its own, white space and at most two words away from
   the match. *)
NegatorAt(p) ==
  /\ <<p, p>> \in Words /\ text[p] = Negator
  /\ p < Len(text) /\ text[p + 1] = Space /\ text[Len(text)] = Space
  /\ \A i \in p + 1 .. Len(text) : text[i] = Space \/ text[i] \in Word
  /\ \A u, v, w \in Words : p < u[1] /\ u[1] < v[1] => ~(v[1] < w[1])

(* A negation of the match is missed only when its negator begins before the
   window. *)
MissedOnlyOutOfReach ==
  \A p \in 1 .. Len(text) : NegatorAt(p) /\ ~isNegated => p <= Len(text) - Window

(* A match is taken for negated without a negator before it only when the window
   begins inside a word, and what it leaves of the word is a negator. *)
MistakenOnlyForCutWord ==
  isNegated /\ (\A p \in 1 .. Len(text) : ~NegatorAt(p)) =>
    /\ Len(text) > Window
    /\ \E w \in Words : /\ w[1] <= Len(text) - Window
                        /\ w[2] = Len(text) - Window + 1
                        /\ text[w[2]] = Negator

===============================================================================
