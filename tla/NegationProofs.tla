----------------------------- MODULE NegationProofs -----------------------------
(***************************************************************************)
(* isNegated for texts and windows of any length.  The search begins one   *)
(* byte late at most, because a continuation byte follows a lead byte, and *)
(* what lies between the negator and the match is cut into words the same  *)
(* way by the expression and by the text.                                  *)
(***************************************************************************)
EXTENDS Negation, SequenceTheorems, TLAPS

Bytes == {"n", "x", " ", "lead", "continuation"}

IsWord(t, first, last) ==
  /\ first \in 1 .. Len(t) /\ last \in 1 .. Len(t) /\ first <= last
  /\ \A i \in first .. last : t[i] \in Word
  /\ first = 1 \/ t[first - 1] \notin Word
  /\ last = Len(t) \/ t[last + 1] \notin Word

ContinuationsFollow(t) ==
  \A i \in 1 .. Len(t) : t[i] = "continuation" => i > 1 /\ t[i - 1] = "lead"

(* A byte within a word, which has a first and a last byte. *)
InWord(t, i) ==
  \E first, last \in 1 .. Len(t) : IsWord(t, first, last) /\ first <= i /\ i <= last

Fits(t) ==
  /\ t \in Seq(Bytes) /\ ContinuationsFollow(t)
  /\ \A i \in 1 .. Len(t) : t[i] \in Word => InWord(t, i)

TextFits == Fits(text)

-------------------------------------------------------------------------------
(* The text, as it grows. *)

LEMMA WordsAre == \A first, last : <<first, last>> \in Words <=> IsWord(text, first, last)
BY DEF Words, IsWord

LEMMA WordBytes == Word = {"n", "x"} /\ Negator = "n" /\ Space = " "
BY DEF Word, Negator, Space

LEMMA RunesAre ==
  ASSUME NEW rune \in Runes
  PROVE  /\ rune \in Seq(Bytes)
         /\ \/ Len(rune) = 1 /\ rune[1] \in {"n", "x", " "}
            \/ Len(rune) = 2 /\ rune[1] = "lead" /\ rune[2] = "continuation"
<1>1. ASSUME NEW byte \in Bytes, rune = <<byte>>
      PROVE  rune \in Seq(Bytes) /\ Len(rune) = 1 /\ rune[1] = byte
  BY <1>1
<1>2. ASSUME NEW lead \in Bytes, NEW continuation \in Bytes, rune = <<lead, continuation>>
      PROVE  rune \in Seq(Bytes) /\ Len(rune) = 2 /\ rune[1] = lead /\ rune[2] = continuation
  BY <1>2
<1>3. \/ rune \in {<<"n">>, <<"x">>, <<" ">>}
      \/ rune = <<"lead", "continuation">>
  BY DEF Runes, Negator, Space
<1>4. CASE rune \in {<<"n">>, <<"x">>, <<" ">>}
  <2>1. PICK byte \in {"n", "x", " "} : rune = <<byte>>
    BY <1>4
  <2>2. byte \in Bytes
    BY DEF Bytes
  <2>3. rune \in Seq(Bytes) /\ Len(rune) = 1 /\ rune[1] = byte
    BY <1>1, <2>1, <2>2
  <2> QED
    BY <2>3
<1>5. CASE rune = <<"lead", "continuation">>
  <2>1. "lead" \in Bytes /\ "continuation" \in Bytes
    BY DEF Bytes
  <2> QED
    BY <1>2, <1>5, <2>1
<1> QED
  BY <1>3, <1>4, <1>5

LEMMA Grown ==
  ASSUME NEW t \in Seq(Bytes), NEW rune \in Runes
  PROVE  LET u == t \o rune
         IN  /\ u \in Seq(Bytes)
             /\ \A i \in 1 .. Len(t) : u[i] = t[i]
             /\ \/ Len(u) = Len(t) + 1 /\ u[Len(t) + 1] \in {"n", "x", " "}
                \/ /\ Len(u) = Len(t) + 2
                   /\ u[Len(t) + 1] = "lead" /\ u[Len(t) + 2] = "continuation"
<1> DEFINE u == t \o rune
<1>1. rune \in Seq(Bytes)
  BY RunesAre
<1>2. PICK n \in Nat, more \in Nat : n = Len(t) /\ more = Len(rune)
  BY <1>1, LenProperties
<1>3. /\ u \in Seq(Bytes) /\ Len(u) = n + more
      /\ \A i \in 1 .. n + more : u[i] = IF i <= n THEN t[i] ELSE rune[i - n]
  BY <1>1, <1>2, ConcatProperties
<1> HIDE DEF u
<1>4. \A i \in 1 .. n : u[i] = t[i]
  BY <1>2, <1>3
<1>5. \/ Len(u) = n + 1 /\ u[n + 1] \in {"n", "x", " "}
      \/ Len(u) = n + 2 /\ u[n + 1] = "lead" /\ u[n + 2] = "continuation"
  <2>1. CASE more = 1 /\ rune[1] \in {"n", "x", " "}
    <3>1. more = 1
      BY <2>1
    <3>2. n + 1 \in 1 .. n + more /\ ~(n + 1 <= n) /\ n + 1 - n = 1
      BY <3>1
    <3>3. u[n + 1] = rune[1]
      BY <1>3, <3>2
    <3> QED
      BY <1>3, <2>1, <3>3
  <2>2. CASE more = 2 /\ rune[1] = "lead" /\ rune[2] = "continuation"
    <3>1. more = 2
      BY <2>2
    <3>2. /\ n + 1 \in 1 .. n + more /\ ~(n + 1 <= n) /\ n + 1 - n = 1
          /\ n + 2 \in 1 .. n + more /\ ~(n + 2 <= n) /\ n + 2 - n = 2
      BY <3>1
    <3>3. u[n + 1] = rune[1] /\ u[n + 2] = rune[2]
      BY <1>3, <3>2
    <3> QED
      BY <1>3, <2>2, <3>3
  <2> QED
    BY <1>2, <2>1, <2>2, RunesAre
<1>6. /\ u \in Seq(Bytes)
      /\ \A i \in 1 .. Len(t) : u[i] = t[i]
      /\ \/ Len(u) = Len(t) + 1 /\ u[Len(t) + 1] \in {"n", "x", " "}
         \/ /\ Len(u) = Len(t) + 2
            /\ u[Len(t) + 1] = "lead" /\ u[Len(t) + 2] = "continuation"
  BY <1>2, <1>3, <1>4, <1>5
<1> QED
  BY <1>6 DEF u

LEMMA GrownFits ==
  ASSUME NEW t, Fits(t), NEW rune \in Runes PROVE Fits(t \o rune)
<1>1. PICK u : u = t \o rune
  OBVIOUS
<1>2. t \in Seq(Bytes) /\ u \in Seq(Bytes)
  BY <1>1, Grown DEF Fits
<1>3. PICK n \in Nat, m \in Nat : n = Len(t) /\ m = Len(u)
  BY <1>2, LenProperties
<1>4. /\ \A i \in 1 .. n : u[i] = t[i]
      /\ \/ m = n + 1 /\ u[n + 1] \in {"n", "x", " "}
         \/ m = n + 2 /\ u[n + 1] = "lead" /\ u[n + 2] = "continuation"
  <2>1. /\ \A i \in 1 .. Len(t) : u[i] = t[i]
        /\ \/ Len(u) = Len(t) + 1 /\ u[Len(t) + 1] \in {"n", "x", " "}
           \/ /\ Len(u) = Len(t) + 2
              /\ u[Len(t) + 1] = "lead" /\ u[Len(t) + 2] = "continuation"
    BY <1>1, <1>2, Grown
  <2> QED
    BY <1>3, <2>1
<1>5. /\ m = n + 1 \/ m = n + 2
      /\ m = n + 1 => u[n + 1] # "continuation"
      /\ m = n + 2 => u[n + 1] = "lead" /\ u[n + 1] \notin Word /\ u[n + 2] \notin Word
  <2>1. CASE m = n + 1 /\ u[n + 1] \in {"n", "x", " "}
    <3>1. m = n + 1
      BY <2>1
    <3>2. m # n + 2
      BY <3>1
    <3>3. u[n + 1] # "continuation"
      BY <2>1
    <3> QED
      BY <3>1, <3>2, <3>3
  <2>2. CASE m = n + 2 /\ u[n + 1] = "lead" /\ u[n + 2] = "continuation"
    <3>1. m = n + 2
      BY <2>2
    <3>2. m # n + 1
      BY <3>1
    <3>3. u[n + 1] = "lead" /\ u[n + 1] \notin Word /\ u[n + 2] \notin Word
      BY <2>2, WordBytes
    <3> QED
      BY <3>1, <3>2, <3>3
  <2> QED
    BY <1>4, <2>1, <2>2
<1>6. ContinuationsFollow(u)
  <2>1. ASSUME NEW i \in 1 .. m, u[i] = "continuation" PROVE i > 1 /\ u[i - 1] = "lead"
    <3>1. CASE i \in 1 .. n
      <4>1. i > 1 /\ t[i - 1] = "lead"
        BY <1>3, <1>4, <2>1, <3>1 DEF Fits, ContinuationsFollow
      <4>2. i - 1 \in 1 .. n
        BY <3>1, <4>1
      <4> QED
        BY <1>4, <4>1, <4>2
    <3>2. CASE i \notin 1 .. n
      <4>1. i = n + 2 /\ i - 1 = n + 1 /\ u[n + 1] = "lead"
        BY <1>5, <2>1, <3>2
      <4> QED
        BY <4>1
    <3> QED
      BY <3>1, <3>2
  <2> QED
    BY <1>3, <2>1 DEF ContinuationsFollow
<1>7. ASSUME NEW b \in 1 .. n, NEW e \in 1 .. n, IsWord(t, b, e)
      PROVE  IF e = n /\ u[n + 1] \in Word
             THEN m = n + 1 /\ IsWord(u, b, n + 1) ELSE IsWord(u, b, e)
  <2>1. /\ b <= e /\ \A i \in b .. e : u[i] \in Word
        /\ b = 1 \/ u[b - 1] \notin Word
        /\ e = n \/ u[e + 1] \notin Word
    <3>1. /\ b <= e /\ \A i \in b .. e : t[i] \in Word
          /\ b = 1 \/ t[b - 1] \notin Word
          /\ e = n \/ t[e + 1] \notin Word
      BY <1>3, <1>7 DEF IsWord
    <3>2. /\ \A i \in b .. e : i \in 1 .. n
          /\ b = 1 \/ b - 1 \in 1 .. n
          /\ e = n \/ e + 1 \in 1 .. n
      BY <3>1
    <3> QED
      BY <1>4, <3>1, <3>2
  <2>2. u[n + 1] \in Word => m = n + 1
    BY <1>5
  <2>3. CASE e = n /\ u[n + 1] \in Word
    <3>1. \A i \in b .. n + 1 : i \in b .. n \/ i = n + 1
      OBVIOUS
    <3>2. \A i \in b .. n + 1 : u[i] \in Word
      BY <2>1, <2>3, <3>1
    <3> QED
      BY <1>3, <2>1, <2>2, <2>3, <3>2 DEF IsWord
  <2>4. CASE ~(e = n /\ u[n + 1] \in Word)
    <3>1. b \in 1 .. m /\ e \in 1 .. m
      BY <1>5
    <3>2. u[e + 1] \notin Word
      BY <2>1, <2>4
    <3> QED
      BY <1>3, <2>1, <2>4, <3>1, <3>2 DEF IsWord
  <2> QED
    BY <2>3, <2>4
<1>8. ASSUME NEW i \in 1 .. m, u[i] \in Word PROVE InWord(u, i)
  <2>1. ASSUME i \in 1 .. n PROVE InWord(u, i)
    <3>1. PICK b \in 1 .. n, e \in 1 .. n : IsWord(t, b, e) /\ b <= i /\ i <= e
      BY <1>3, <1>4, <1>8, <2>1 DEF Fits, InWord
    <3>2. CASE e = n /\ u[n + 1] \in Word
      <4>1. b \in 1 .. m /\ n + 1 \in 1 .. m /\ i <= n + 1 /\ IsWord(u, b, n + 1)
        BY <1>7, <2>1, <3>1, <3>2
      <4> QED
        BY <1>3, <3>1, <4>1 DEF InWord
    <3>3. CASE ~(e = n /\ u[n + 1] \in Word)
      <4>1. b \in 1 .. m /\ e \in 1 .. m /\ IsWord(u, b, e)
        BY <1>7, <1>5, <3>1, <3>3
      <4> QED
        BY <1>3, <3>1, <4>1 DEF InWord
    <3> QED
      BY <3>2, <3>3
  <2>2. ASSUME i = n + 1 PROVE InWord(u, i)
    <3>1. m = n + 1 /\ i \in 1 .. m
      BY <1>4, <1>8, <2>2, WordBytes
    <3>2. CASE n # 0 /\ t[n] \in Word
      <4>1. PICK b \in 1 .. n, e \in 1 .. n : IsWord(t, b, e) /\ b <= n /\ n <= e
        BY <1>3, <3>2 DEF Fits, InWord
      <4>2. e = n /\ b \in 1 .. m /\ b <= i /\ i <= i
        BY <2>2, <3>1, <4>1
      <4>3. IsWord(u, b, i)
        BY <1>7, <1>8, <2>2, <4>1, <4>2
      <4> QED
        BY <1>3, <3>1, <4>2, <4>3 DEF InWord
    <3>3. CASE ~(n # 0 /\ t[n] \in Word)
      <4>1. i = 1 \/ u[i - 1] \notin Word
        <5>1. CASE n = 0
          BY <2>2, <5>1
        <5>2. CASE n # 0
          <6>1. n \in 1 .. n /\ i - 1 = n
            BY <2>2, <5>2
          <6> QED
            BY <1>4, <3>3, <5>2, <6>1
        <5> QED
          BY <5>1, <5>2
      <4>2. /\ \A j \in i .. i : u[j] \in Word
            /\ i = m /\ i <= i
        BY <1>8, <2>2, <3>1
      <4>3. IsWord(u, i, i)
        BY <1>3, <3>1, <4>1, <4>2 DEF IsWord
      <4> QED
        BY <1>3, <3>1, <4>2, <4>3 DEF InWord
    <3> QED
      BY <3>2, <3>3
  <2>3. i \in 1 .. n \/ i = n + 1
    BY <1>8, <1>5
  <2> QED
    BY <2>1, <2>2, <2>3
<1>9. Fits(u)
  BY <1>2, <1>3, <1>6, <1>8 DEF Fits
<1> QED
  BY <1>1, <1>9

LEMMA TextAlwaysFits == Spec => []TextFits
<1>1. Init => TextFits
  <2>1. <<>> \in Seq(Bytes) /\ Len(<<>>) = 0
    OBVIOUS
  <2>2. Fits(<<>>)
    BY <2>1 DEF Fits, ContinuationsFollow
  <2> QED
    BY <2>2 DEF Init, TextFits
<1>2. TextFits /\ [Next]_text => TextFits'
  BY GrownFits DEF TextFits, Next, Grow
<1> QED
  BY <1>1, <1>2, PTL DEF Spec

-------------------------------------------------------------------------------
(* The search. *)

Low == IF Len(text) < Window THEN 1 ELSE Len(text) - Window + 1

(* The window has a first whole rune: its first byte or the second. *)
LEMMA WindowStarts ==
  ASSUME TextFits
  PROVE  /\ Len(text) \in Nat /\ Low \in 1 .. Len(text) + 1
         /\ WindowStart \in Low .. Len(text) + 1
         /\ \A j \in Low .. WindowStart - 1 : text[j] = "continuation"
<1> DEFINE First(i) == /\ i = Len(text) + 1 \/ RuneStart(text[i])
                       /\ \A j \in Low .. i - 1 : ~RuneStart(text[j])
<1>1. Len(text) \in Nat
  BY LenProperties DEF TextFits, Fits
<1>2. Low \in 1 .. Len(text) + 1
  BY <1>1, NegationAssumption DEF Low
<1>3. \E i \in Low .. Len(text) + 1 : First(i)
  <2>1. CASE First(Low)
    BY <1>1, <1>2, <2>1
  <2>2. CASE ~First(Low)
    <3>1. Low \in 1 .. Len(text) /\ text[Low] = "continuation"
      BY <1>1, <1>2, <2>2 DEF RuneStart
    <3>2. First(Low + 1)
      BY <1>1, <3>1 DEF TextFits, Fits, ContinuationsFollow, RuneStart
    <3> QED
      BY <1>1, <3>1, <3>2
  <2> QED
    BY <2>1, <2>2
<1>4. WindowStart = CHOOSE i \in Low .. Len(text) + 1 : First(i)
  BY DEF WindowStart, Low
<1>5. WindowStart \in Low .. Len(text) + 1 /\ First(WindowStart)
  BY <1>3, <1>4
<1> QED
  BY <1>1, <1>2, <1>5 DEF RuneStart

(* The expression counts words by their first bytes, as the text does. *)
LEMMA WordsCounted ==
  ASSUME TextFits, NEW p \in 1 .. Len(text), text[p] = Negator, p < Len(text),
         text[p + 1] = Space,
         \A i \in p + 1 .. Len(text) : text[i] = Space \/ text[i] \in Word
  PROVE  (\E i, j, k \in p + 2 .. Len(text) :
            i < j /\ j < k /\ \A w \in {i, j, k} : text[w] \in Word /\ text[w - 1] = Space)
         <=> (\E u, v, w \in Words : p < u[1] /\ u[1] < v[1] /\ v[1] < w[1])
<1>1. Len(text) \in Nat
  BY LenProperties DEF TextFits, Fits
<1>2. ASSUME NEW i \in p + 2 .. Len(text), text[i] \in Word, text[i - 1] = Space
      PROVE  \E w \in Words : w[1] = i
  <2>1. PICK first \in 1 .. Len(text), last \in 1 .. Len(text) :
          IsWord(text, first, last) /\ first <= i /\ i <= last
    BY <1>1, <1>2 DEF TextFits, Fits, InWord
  <2>2. first = i
    <3> SUFFICES ASSUME first # i PROVE FALSE
      OBVIOUS
    <3>1. i \in Nat /\ first \in Nat /\ last \in Nat
      BY <1>1
    <3>2. i - 1 \in first .. last
      BY <2>1, <3>1
    <3>3. text[i - 1] \in Word
      BY <2>1, <3>2 DEF IsWord
    <3> QED
      BY <1>2, <3>3, WordBytes
  <2>3. <<i, last>> \in Words
    BY <2>1, <2>2, WordsAre
  <2> QED
    BY <2>3
<1>3. ASSUME NEW w \in Words, p < w[1]
      PROVE  w[1] \in p + 2 .. Len(text) /\ text[w[1]] \in Word /\ text[w[1] - 1] = Space
  <2>1. /\ w[1] \in 1 .. Len(text) /\ text[w[1]] \in Word
        /\ w[1] = 1 \/ text[w[1] - 1] \notin Word
    BY <1>1 DEF Words
  <2>2. w[1] # p + 1
    BY <2>1, WordBytes
  <2>3. w[1] \in p + 2 .. Len(text) /\ w[1] - 1 \in p + 1 .. Len(text) /\ w[1] # 1
    BY <1>1, <1>3, <2>1, <2>2
  <2> QED
    BY <2>1, <2>3
<1>4. ASSUME NEW i \in p + 2 .. Len(text), NEW j \in p + 2 .. Len(text),
             NEW k \in p + 2 .. Len(text), i < j, j < k, \A w \in {i, j, k} : text[w] \in Word /\ text[w - 1] = Space
      PROVE  \E u, v, w \in Words : p < u[1] /\ u[1] < v[1] /\ v[1] < w[1]
  <2>1. PICK u \in Words, v \in Words, w \in Words : u[1] = i /\ v[1] = j /\ w[1] = k
    BY <1>2, <1>4
  <2> QED
    BY <1>1, <1>4, <2>1
<1>5. ASSUME NEW u \in Words, NEW v \in Words, NEW w \in Words, p < u[1], u[1] < v[1], v[1] < w[1]
      PROVE  \E i, j, k \in p + 2 .. Len(text) :
               i < j /\ j < k /\ \A x \in {i, j, k} : text[x] \in Word /\ text[x - 1] = Space
  <2>1. u[1] \in p + 2 .. Len(text) /\ text[u[1]] \in Word /\ text[u[1] - 1] = Space
    BY <1>3, <1>5
  <2>2. p < v[1]
    <3>1. u[1] \in Nat /\ v[1] \in Nat
      BY <1>1 DEF Words
    <3> QED
      BY <1>5, <3>1
  <2>3. v[1] \in p + 2 .. Len(text) /\ text[v[1]] \in Word /\ text[v[1] - 1] = Space
    BY <1>3, <2>2
  <2>4. p < w[1]
    <3>1. w[1] \in Nat /\ v[1] \in Nat
      BY <1>1 DEF Words
    <3> QED
      BY <1>5, <2>2, <3>1
  <2>5. w[1] \in p + 2 .. Len(text) /\ text[w[1]] \in Word /\ text[w[1] - 1] = Space
    BY <1>3, <2>4
  <2>6. PICK i, j, k : i = u[1] /\ j = v[1] /\ k = w[1]
    OBVIOUS
  <2>7. \A x \in {i, j, k} : text[x] \in Word /\ text[x - 1] = Space
    BY <2>1, <2>3, <2>5, <2>6
  <2> QED
    BY <1>5, <2>1, <2>3, <2>5, <2>6, <2>7
<1> QED
  BY <1>4, <1>5

(* White space and at most two words stand between a negator and the match. *)
LEMMA ReachesMatch ==
  ASSUME TextFits, NEW p \in 1 .. Len(text), text[p] = Negator
  PROVE  WordsToMatch(p + 1) <=>
           /\ p < Len(text) /\ text[p + 1] = Space /\ text[Len(text)] = Space
           /\ \A i \in p + 1 .. Len(text) : text[i] = Space \/ text[i] \in Word
           /\ \A u, v, w \in Words : p < u[1] /\ u[1] < v[1] => ~(v[1] < w[1])
<1>1. Len(text) \in Nat /\ p + 1 + 1 = p + 2
  BY LenProperties DEF TextFits, Fits
<1>2. WordsToMatch(p + 1) <=>
        /\ p < Len(text) /\ text[p + 1] = Space /\ text[Len(text)] = Space
        /\ \A i \in p + 1 .. Len(text) : text[i] = Space \/ text[i] \in Word
        /\ ~ \E i, j, k \in p + 2 .. Len(text) :
               i < j /\ j < k /\ \A w \in {i, j, k} : text[w] \in Word /\ text[w - 1] = Space
  BY <1>1 DEF WordsToMatch
<1> QED
  BY <1>2, WordsCounted

(* A negator within the last Window bytes is found: the search begins with a
   whole rune, so no negator in the window is passed over, and the words that
   may follow it are counted as a reader would (detector.go, isNegated). *)
THEOREM NegatorsInReachFound == Spec => []MissedOnlyOutOfReach
<1>1. TextFits => MissedOnlyOutOfReach
  <2> SUFFICES ASSUME TextFits, NEW p \in 1 .. Len(text), NegatorAt(p), ~(p <= Len(text) - Window)
               PROVE  isNegated
    BY DEF MissedOnlyOutOfReach
  <2>1. /\ Len(text) \in Nat /\ Low \in 1 .. Len(text) + 1
        /\ WindowStart \in Low .. Len(text) + 1
        /\ \A j \in Low .. WindowStart - 1 : text[j] = "continuation"
    BY WindowStarts
  <2>2. text[p] = Negator /\ IsWord(text, p, p) /\ WordsToMatch(p + 1)
    <3>1. text[p] = Negator
      BY DEF NegatorAt
    <3>2. WordsToMatch(p + 1)
      BY <3>1, ReachesMatch DEF NegatorAt
    <3> QED
      BY <3>1, <3>2, WordsAre DEF NegatorAt
  <2>3. p >= Low
    BY <2>1, NegationAssumption DEF Low
  <2>4. p \in WindowStart .. Len(text)
    <3>1. CASE p < WindowStart
      <4>1. p \in Low .. WindowStart - 1
        BY <2>1, <2>3, <3>1
      <4> QED
        BY <2>1, <2>2, <4>1, WordBytes
    <3>2. CASE ~(p < WindowStart)
      BY <2>1, <3>2
    <3> QED
      BY <3>1, <3>2
  <2>5. Boundary(WindowStart, p)
    BY <2>1, <2>2, <2>4 DEF Boundary, IsWord
  <2> QED
    BY <2>2, <2>4, <2>5 DEF isNegated
<1> QED
  BY <1>1, TextAlwaysFits, PTL

(* The one way to take a match for negated without a negator: the window cuts
   a word, and what is left of it is one (detector.go, isNegated, whose window
   is cut between runes and not between words). *)
THEOREM OnlyCutWordsMistaken == Spec => []MistakenOnlyForCutWord
<1>1. TextFits => MistakenOnlyForCutWord
  <2> SUFFICES ASSUME TextFits, isNegated, \A p \in 1 .. Len(text) : ~NegatorAt(p)
               PROVE  /\ Len(text) > Window
                      /\ \E w \in Words : /\ w[1] <= Len(text) - Window
                                          /\ w[2] = Len(text) - Window + 1
                                          /\ text[w[2]] = Negator
    BY DEF MistakenOnlyForCutWord
  <2>1. /\ Len(text) \in Nat /\ Low \in 1 .. Len(text) + 1
        /\ WindowStart \in Low .. Len(text) + 1
        /\ \A j \in Low .. WindowStart - 1 : text[j] = "continuation"
    BY WindowStarts
  <2>2. PICK p \in WindowStart .. Len(text) :
          text[p] = Negator /\ Boundary(WindowStart, p) /\ WordsToMatch(p + 1)
    BY DEF isNegated
  <2>3. p \in 1 .. Len(text)
    BY <2>1
  <2>4. /\ p < Len(text) /\ text[p + 1] = Space /\ text[Len(text)] = Space
        /\ \A i \in p + 1 .. Len(text) : text[i] = Space \/ text[i] \in Word
        /\ \A u, v, w \in Words : p < u[1] /\ u[1] < v[1] => ~(v[1] < w[1])
    BY <2>2, <2>3, ReachesMatch
  <2>5. ~IsWord(text, p, p)
    BY <2>2, <2>3, <2>4, WordsAre DEF NegatorAt
  <2>6. p # 1 /\ text[p - 1] \in Word
    <3>1. text[p] \in Word /\ text[p + 1] \notin Word
      BY <2>2, <2>4, WordBytes
    <3>2. \A i \in p .. p : i = p
      BY <2>3
    <3> QED
      BY <2>3, <2>5, <3>1, <3>2 DEF IsWord
  <2>7. p = WindowStart
    BY <2>2, <2>6 DEF Boundary
  <2>8. p = Low
    <3> SUFFICES ASSUME p # Low PROVE FALSE
      OBVIOUS
    <3>1. p - 1 \in Low .. WindowStart - 1
      BY <2>1, <2>2, <2>7
    <3> QED
      BY <2>1, <2>6, <3>1, WordBytes
  <2>9. Window \in Nat /\ Len(text) > Window /\ p = Len(text) - Window + 1
    BY <2>1, <2>3, <2>6, <2>8, NegationAssumption DEF Low
  <2>10. PICK first \in 1 .. Len(text), last \in 1 .. Len(text) :
           IsWord(text, first, last) /\ first <= p /\ p <= last
    BY <2>2, <2>3, WordBytes DEF TextFits, Fits, InWord
  <2>11. last = p /\ first # p
    <3>1. ASSUME last # p PROVE FALSE
      <4>1. p + 1 \in first .. last
        BY <2>1, <2>3, <2>10, <3>1
      <4>2. text[p + 1] \in Word
        BY <2>10, <4>1 DEF IsWord
      <4> QED
        BY <2>4, <4>2, WordBytes
    <3> QED
      BY <2>5, <2>10, <3>1
  <2>12. <<first, p>> \in Words /\ first <= Len(text) - Window
    BY <2>1, <2>9, <2>10, <2>11, WordsAre
  <2> QED
    BY <2>2, <2>9, <2>12
<1> QED
  BY <1>1, TextAlwaysFits, PTL

===============================================================================
