---------------------------- MODULE DetectionProofs ----------------------------
(***************************************************************************)
(* The claims of a text, for any length, any number of rules and any       *)
(* matches: they are disjoint, and a match was dropped only for one that   *)
(* comes before it.  Then the claims of a product, for any products: the   *)
(* scan of each field is one that Overlaps describes, nothing a product    *)
(* says is lost, and each claim is reported once and in its best wording.  *)
(***************************************************************************)
EXTENDS Detection, TLAPS

-------------------------------------------------------------------------------
(* The resolution of overlaps in a text. *)

Matches == Unnegated(hits, negated)

TextTypeOK ==
  /\ hits \subseteq Hits
  /\ negated \subseteq 0 .. Length
  /\ pending \subseteq Hits
  /\ accepted \subseteq Hits

(* resolveOverlaps goes through the matches in order: those it has looked at
   come before those it has not. *)
Sorted ==
  /\ pending \subseteq Matches
  /\ \A d \in Matches \ pending : \A p \in pending : Precedes(d, p)

(* A match that was looked at and not accepted overlaps an earlier accepted one. *)
Beaten ==
  \A d \in (Matches \ pending) \ accepted : \E a \in accepted : Overlap(a, d) /\ Precedes(a, d)

Taken == accepted \subseteq Matches \ pending

Inv == TextTypeOK /\ Sorted /\ Taken /\ Beaten /\ ClaimsDisjoint

(* Whether two matches overlap does not depend on which is named first. *)
LEMMA OverlapSymmetric ==
  ASSUME NEW a, NEW b PROVE Overlap(a, b) <=> Overlap(b, a)
BY DEF Overlap

(* The test of resolveOverlaps finds the spans that share a byte. *)
LEMMA OverlapMeansShared ==
  ASSUME NEW a \in Hits, NEW b \in Hits PROVE Apart(a, b) <=> ~Overlap(a, b)
<1>. a.start \in Nat /\ a.end \in Nat /\ b.start \in Nat /\ b.end \in Nat
  BY OverlapsAssumption DEF Hits
<1>. QED
  BY DEF Apart, Overlap

(* Before the first text there is nothing to look at. *)
LEMMA InitInv == Init => Inv
BY DEF Init, Inv, TextTypeOK, Sorted, Taken, Beaten, ClaimsDisjoint, Matches, Unnegated

(* A text starts with no match looked at. *)
LEMMA ScanInv ==
  ASSUME NEW found \in SUBSET Hits, NEW before \in SUBSET Negatable(found),
         ScanText(found, before)
  PROVE  Inv'
<1>1. Matches' = pending' /\ pending' \subseteq found /\ accepted' = {}
  BY DEF ScanText, Matches, Unnegated
<1>2. before \subseteq 0 .. Length
  BY DEF Hits, Negatable
<1>3. TextTypeOK'
  BY <1>1, <1>2 DEF TextTypeOK, ScanText
<1>. QED
  BY <1>1, <1>3 DEF Inv, Sorted, Taken, Beaten, ClaimsDisjoint

(* Looking at the next match keeps the invariant. *)
LEMMA ResolveInv == ASSUME Inv, NEW m \in pending, Resolve(m) PROVE Inv'
<1>1. /\ Matches' = Matches
      /\ pending' = pending \ {m}
      /\ \A n \in pending \ {m} : Precedes(m, n)
  BY DEF Resolve, Matches, Unnegated
<1>2. m \in Matches /\ \A d \in Matches \ pending : Precedes(d, m)
  BY <1>1 DEF Inv, Sorted
<1>3. accepted \subseteq Matches \ pending
  BY <1>1 DEF Inv, Taken
<1>4. CASE \E a \in accepted : Overlap(m, a)
  <2>1. accepted' = accepted
    BY <1>4 DEF Resolve
  <2>2. PICK a \in accepted : Overlap(m, a)
    BY <1>4
  <2>3. Overlap(a, m) /\ Precedes(a, m)
    BY <2>2, <1>2, <1>3, OverlapSymmetric
  <2>4. TextTypeOK'
    BY <1>1, <2>1 DEF Inv, TextTypeOK, Resolve
  <2>5. Sorted'
    BY <1>1, <1>2 DEF Inv, Sorted
  <2>6. Taken'
    BY <1>1, <1>3, <2>1 DEF Taken
  <2>7. Beaten'
    <3>. SUFFICES ASSUME NEW d \in (Matches \ (pending \ {m})) \ accepted
                  PROVE \E b \in accepted : Overlap(b, d) /\ Precedes(b, d)
      BY <1>1, <2>1 DEF Beaten
    <3>1. CASE d = m
      BY <3>1, <2>3
    <3>2. CASE d # m
      BY <3>2, <1>1 DEF Inv, Beaten
    <3>. QED
      BY <3>1, <3>2
  <2>8. ClaimsDisjoint'
    BY <2>1 DEF Inv, ClaimsDisjoint
  <2>. QED
    BY <2>4, <2>5, <2>6, <2>7, <2>8 DEF Inv
<1>5. CASE ~\E a \in accepted : Overlap(m, a)
  <2>1. accepted' = accepted \cup {m}
    BY <1>5 DEF Resolve
  <2>2. TextTypeOK'
    BY <1>1, <2>1 DEF Inv, TextTypeOK, Resolve
  <2>3. Sorted'
    BY <1>1, <1>2 DEF Inv, Sorted
  <2>4. Taken'
    BY <1>1, <1>2, <1>3, <2>1 DEF Taken
  <2>5. Beaten'
    <3>. SUFFICES ASSUME NEW d \in (Matches \ (pending \ {m})) \ (accepted \cup {m})
                  PROVE \E b \in accepted \cup {m} : Overlap(b, d) /\ Precedes(b, d)
      BY <1>1, <2>1 DEF Beaten
    <3>1. d \in (Matches \ pending) \ accepted
      OBVIOUS
    <3>. QED
      BY <3>1, <1>1 DEF Inv, Beaten
  <2>6. ClaimsDisjoint'
    <3>. SUFFICES ASSUME NEW a \in accepted \cup {m}, NEW b \in accepted \cup {m}, a # b
                  PROVE Apart(a, b)
      BY <2>1 DEF ClaimsDisjoint
    <3>0. a \in Hits /\ b \in Hits
      BY DEF Inv, TextTypeOK
    <3>1. CASE a \in accepted /\ b \in accepted
      BY <3>1 DEF Inv, ClaimsDisjoint
    <3>2. CASE a = m /\ b \in accepted
      BY <3>0, <3>2, <1>5, OverlapMeansShared
    <3>3. CASE a \in accepted /\ b = m
      BY <3>0, <3>3, <1>5, OverlapSymmetric, OverlapMeansShared
    <3>. QED
      BY <3>1, <3>2, <3>3
  <2>. QED
    BY <2>2, <2>3, <2>4, <2>5, <2>6 DEF Inv
<1>. QED
  BY <1>4, <1>5

(* The invariant holds throughout the scan of a text. *)
LEMMA ScanInvariant == Spec => []Inv
<1>1. ASSUME Inv, [Next]_textVars PROVE Inv'
  <2>1. CASE Next
    BY <1>1, <2>1, ScanInv, ResolveInv DEF Next
  <2>2. CASE UNCHANGED textVars
    BY <1>1, <2>2 DEF textVars, Inv, TextTypeOK, Sorted, Taken, Beaten, ClaimsDisjoint, Matches
  <2>. QED
    BY <1>1, <2>1, <2>2
<1>. QED
  BY InitInv, <1>1, PTL DEF Spec

(* No text is reported twice by resolveOverlaps, whatever the rules match. *)
THEOREM TextReportedOnce == Spec => []ClaimsDisjoint
<1>1. Inv => ClaimsDisjoint
  BY DEF Inv
<1>. QED
  BY <1>1, ScanInvariant, PTL

(* A match is dropped only for a reported one that displaces it. *)
LEMMA InvDrops == Inv => OnlyDisplacedDropped
<1>. SUFFICES ASSUME Inv, pending = {}, NEW m \in hits \ accepted, m.start \notin negated
              PROVE \E a \in accepted : Displaces(a, m)
  BY DEF OnlyDisplacedDropped
<1>1. m \in Matches
  BY DEF Matches, Unnegated
<1>2. PICK a \in accepted : Overlap(a, m) /\ Precedes(a, m)
  BY <1>1 DEF Inv, Beaten
<1>3. a \in Hits /\ m \in Hits
  BY DEF Inv, TextTypeOK
<1>4. a.start \in Nat /\ a.end \in Nat /\ m.start \in Nat /\ m.end \in Nat
  BY <1>3, OverlapsAssumption DEF Hits
<1>5. /\ a.start <= m.start
      /\ a.start = m.start => a.end >= m.end
      /\ a.start = m.start /\ a.end = m.end => a.rule < m.rule
  BY <1>2, <1>4 DEF Precedes
<1>. QED
  BY <1>2, <1>3, <1>5, OverlapMeansShared DEF Displaces

(* resolveOverlaps drops a match only for a reported one that overlaps it and
   is further left, longer, or of an earlier rule. *)
THEOREM DroppedAreDisplaced == Spec => []OnlyDisplacedDropped
BY InvDrops, ScanInvariant, PTL

-------------------------------------------------------------------------------
(* The scans of the fields are scans of texts. *)

(* What the assumption says of a product. *)
LEMMA ProductsAre ==
  ASSUME NEW p \in Products
  PROVE  /\ IsText(p.title) /\ IsText(p.shortDescription) /\ IsText(p.longDescription)
         /\ Len(p.aboutItems) \in Nat /\ DOMAIN p.aboutItems = 1 .. Len(p.aboutItems)
         /\ \A i \in 1 .. Len(p.aboutItems) : IsText(p.aboutItems[i])
<1>1. /\ p.aboutItems \in Seq(Range(p.aboutItems))
      /\ \A t \in Range(p.aboutItems) : IsText(t)
  BY DetectionAssumption
<1>2. \A i \in DOMAIN p.aboutItems : IsText(p.aboutItems[i])
  BY <1>1 DEF Range
<1>. QED
  BY <1>1, <1>2, DetectionAssumption

(* The fields of a product are the parts of its copy, ranked as they are scanned. *)
LEMMA FieldsAre ==
  ASSUME NEW p \in Products
  PROVE  /\ DOMAIN Fields(p) = 1 .. Len(p.aboutItems) + 3
         /\ \A n \in 1 .. Len(p.aboutItems) + 3 :
              /\ Fields(p)[n] \in Copy(p)
              /\ Rank(p, Fields(p)[n].source) = n - 1
              /\ IsText(Fields(p)[n].text)
         /\ \A f \in Copy(p) : \E n \in 1 .. Len(p.aboutItems) + 3 : Fields(p)[n] = f
<1>. DEFINE L == Len(p.aboutItems)
<1>1. L \in Nat /\ DOMAIN p.aboutItems = 1 .. L
  BY ProductsAre
<1>2. /\ DOMAIN Fields(p) = 1 .. L + 3
      /\ Fields(p)[1] = Field(Source("title", 0), p.title)
      /\ \A i \in 1 .. L : Fields(p)[i + 1] = Field(Source("aboutItems", i), p.aboutItems[i])
      /\ Fields(p)[L + 2] = Field(Source("shortDescription", 0), p.shortDescription)
      /\ Fields(p)[L + 3] = Field(Source("longDescription", 0), p.longDescription)
  BY <1>1 DEF Fields
<1>3. ASSUME NEW n \in 1 .. L + 3
      PROVE  /\ Fields(p)[n] \in Copy(p)
             /\ Rank(p, Fields(p)[n].source) = n - 1
             /\ IsText(Fields(p)[n].text)
  <2>1. n = 1 \/ (\E i \in 1 .. L : n = i + 1) \/ n = L + 2 \/ n = L + 3
    <3>1. n \in Int /\ n >= 1 /\ n <= L + 3
      BY <1>1
    <3>2. n > 1 /\ n < L + 2 => n - 1 \in 1 .. L /\ n = (n - 1) + 1
      BY <1>1, <3>1
    <3>. QED
      BY <1>1, <3>1, <3>2
  <2>2. CASE n = 1
    BY <1>2, <2>2, ProductsAre DEF Copy, Rank, Field, Source
  <2>3. ASSUME NEW i \in 1 .. L, n = i + 1
        PROVE  /\ Fields(p)[n] \in Copy(p)
               /\ Rank(p, Fields(p)[n].source) = n - 1
               /\ IsText(Fields(p)[n].text)
    <3>1. Fields(p)[n] = Field(Source("aboutItems", i), p.aboutItems[i])
      BY <1>2, <2>3
    <3>2. Fields(p)[n] \in Copy(p)
      BY <1>1, <3>1 DEF Copy
    <3>3. Rank(p, Fields(p)[n].source) = n - 1
      BY <1>1, <2>3, <3>1 DEF Rank, Field, Source
    <3>. QED
      BY <3>1, <3>2, <3>3, ProductsAre DEF Field
  <2>4. CASE n = L + 2
    <3>1. Fields(p)[n] = Field(Source("shortDescription", 0), p.shortDescription)
      BY <1>2, <2>4
    <3>2. Rank(p, Fields(p)[n].source) = n - 1
      BY <1>1, <2>4, <3>1 DEF Rank, Field, Source
    <3>. QED
      BY <3>1, <3>2, ProductsAre DEF Copy, Field
  <2>5. CASE n = L + 3
    <3>1. Fields(p)[n] = Field(Source("longDescription", 0), p.longDescription)
      BY <1>2, <2>5
    <3>2. Rank(p, Fields(p)[n].source) = n - 1
      BY <1>1, <2>5, <3>1 DEF Rank, Field, Source
    <3>. QED
      BY <3>1, <3>2, ProductsAre DEF Copy, Field
  <2>. QED
    BY <2>1, <2>2, <2>3, <2>4, <2>5
<1>4. ASSUME NEW f \in Copy(p) PROVE \E n \in 1 .. L + 3 : Fields(p)[n] = f
  <2>1. CASE \E i \in DOMAIN p.aboutItems : f = Field(Source("aboutItems", i), p.aboutItems[i])
    <3>1. PICK i \in 1 .. L : f = Field(Source("aboutItems", i), p.aboutItems[i])
      BY <1>1, <2>1
    <3>2. i + 1 \in 1 .. L + 3
      BY <1>1
    <3>. QED
      BY <1>2, <3>1, <3>2
  <2>2. 1 \in 1 .. L + 3 /\ L + 2 \in 1 .. L + 3 /\ L + 3 \in 1 .. L + 3
    BY <1>1
  <2>. QED
    BY <1>2, <2>1, <2>2 DEF Copy
<1>. QED
  BY <1>2, <1>3, <1>4

(* A step of the detector is a step of the scan of a text, or none. *)
LEMMA StepMaps ==
  ASSUME product \in Products, [DetectNext]_allVars PROVE [Next]_textVars /\ product' \in Products
<1>1. CASE ScanField
  <2>1. field \in DOMAIN Fields(product)
    BY <1>1 DEF ScanField, MoreFields
  <2>2. IsText(Current.text)
    BY <2>1, FieldsAre DEF Current
  <2>3. /\ Current.text.hits \in SUBSET Hits
        /\ Current.text.negated \in SUBSET Negatable(Current.text.hits)
    BY <2>2 DEF IsText
  <2>. QED
    BY <1>1, <2>3 DEF ScanField, Next
<1>2. ASSUME NEW m \in pending, ResolveNext(m) PROVE [Next]_textVars /\ product' \in Products
  BY <1>2 DEF ResolveNext, Next
<1>3. CASE SkipField \/ FieldScanned \/ Structured \/ Deduplicate \/ UNCHANGED allVars
  BY <1>3 DEF SkipField, FieldScanned, Structured, Deduplicate, textVars, allVars
<1>. QED
  BY <1>1, <1>2, <1>3 DEF DetectNext

(* Detect scans texts as Overlaps describes: scanText for one field after another. *)
THEOREM DetectorScansTexts == DetectSpec => Spec /\ [](product \in Products)
<1>1. DetectInit => Init /\ product \in Products
  BY DEF DetectInit
<1>2. ASSUME product \in Products, [DetectNext]_allVars
      PROVE  [Next]_textVars /\ (product \in Products)'
  BY <1>2, StepMaps
<1>. QED
  BY <1>1, <1>2, PTL DEF DetectSpec, Spec

(* The claims of a field never overlap, and a match of a field is dropped only
   for one that displaces it, whatever the product. *)
THEOREM FieldsReportedOnce == DetectSpec => []ClaimsDisjoint /\ []OnlyDisplacedDropped
BY DetectorScansTexts, TextReportedOnce, DroppedAreDisplaced, PTL

-------------------------------------------------------------------------------
(* What the candidates and the claims are while Detect runs. *)

Names == {"title", "aboutItems", "shortDescription", "longDescription",
          "country_of_origin", "fssai_no"}

Sources == [name : Names, index : Nat]

Candidates == [key : Keys, source : Sources, span : Hits \cup {NoSpan}]

Typed ==
  /\ product \in Products
  /\ stage \in {"fields", "text", "dedupe"}
  /\ field \in 1 .. Len(product.aboutItems) + 4
  /\ candidates \in Seq(Candidates)
  /\ next \in 1 .. Len(candidates) + 1
  /\ claims \in Seq(Candidates)

(* The text being scanned is that of the current field, and what is accepted is
   a candidate. *)
Scanning ==
  stage = "text" =>
    /\ field \in DOMAIN Fields(product)
    /\ hits = Current.text.hits /\ negated = Current.text.negated
    /\ \A a \in accepted : \E i \in DOMAIN candidates :
         candidates[i].source = Current.source /\ candidates[i].span = a

(* Deduplication starts when all fields are scanned. *)
Staged ==
  IF stage = "dedupe" THEN field \notin DOMAIN Fields(product)
                      ELSE next = 1 /\ seen = {} /\ claims = <<>>

(* Candidates are things the product says. *)
SaysAll(p, found) == \A i \in DOMAIN found : Said(p, found[i])

Truthful == SaysAll(product, candidates)

(* While fields are scanned, candidates come from those already scanned. *)
FromScanned ==
  stage # "dedupe" => \A i \in DOMAIN candidates :
    \/ Rank(product, candidates[i].source) < field - 1
    \/ stage = "text" /\ candidates[i].source = Current.source /\ candidates[i].span \in accepted

Before(p, a, b) ==
  \/ Rank(p, a.source) < Rank(p, b.source)
  \/ a.source = b.source /\ a.span.start <= b.span.start

(* Candidates are in order of priority. *)
InOrder(p, found) ==
  \A j \in DOMAIN found : \A i \in 1 .. j : Before(p, found[i], found[j])

Ordered == InOrder(product, candidates)

(* What was matched in the fields scanned so far is a candidate, or gave way. *)
CoveredBy(found, f) ==
  \A h \in f.text.hits :
    h.start \in f.text.negated \/ \E i \in DOMAIN found :
      found[i].source = f.source /\ (found[i].span = h \/ Displaces(found[i].span, h))

Covered == \A n \in 1 .. field - 1 : n \in DOMAIN Fields(product) =>
             CoveredBy(candidates, Fields(product)[n])

(* What compliance data asserts is a candidate. *)
AssertedIn ==
  stage = "dedupe" => \A c \in Asserted(product) : \E i \in DOMAIN candidates : candidates[i] = c

DetectInv ==
  /\ Typed /\ Scanning /\ Staged /\ Truthful /\ FromScanned /\ Ordered /\ Covered /\ AssertedIn

(* The claims are the candidates whose keys did not occur before. *)
FirstOfKey ==
  /\ seen = {claims[k].key : k \in DOMAIN claims}
  /\ \A i \in 1 .. next - 1 : candidates[i].key \in seen
  /\ \A k \in DOMAIN claims : \E j \in 1 .. next - 1 :
       /\ claims[k] = candidates[j]
       /\ \A i \in 1 .. j - 1 : candidates[i].key # candidates[j].key

(* Appending to a sequence. *)
LEMMA Appended ==
  ASSUME NEW S, NEW s \in Seq(S), NEW e \in S
  PROVE  /\ Len(s) \in Nat /\ DOMAIN s = 1 .. Len(s)
         /\ Append(s, e) \in Seq(S) /\ Len(Append(s, e)) = Len(s) + 1
         /\ DOMAIN Append(s, e) = 1 .. Len(s) + 1
         /\ \A i \in 1 .. Len(s) : Append(s, e)[i] = s[i]
         /\ Append(s, e)[Len(s) + 1] = e
OBVIOUS

(* Every field counts from the title, and the last is the long description. *)
LEMMA FieldTyped ==
  ASSUME Typed
  PROVE  /\ DOMAIN Fields(product) = 1 .. Len(product.aboutItems) + 3
         /\ Len(product.aboutItems) \in Nat /\ field \in Nat \ {0}
         /\ field \notin DOMAIN Fields(product) => field = Len(product.aboutItems) + 4
BY FieldsAre, ProductsAre DEF Typed

LEMMA InitDetect == DetectInit => DetectInv /\ FirstOfKey /\ OneClaimPerKey
<1>. SUFFICES ASSUME DetectInit PROVE DetectInv /\ FirstOfKey /\ OneClaimPerKey
  OBVIOUS
<1>1. Typed
  BY ProductsAre DEF DetectInit, Typed
<1>. QED
  BY <1>1 DEF DetectInit, DetectInv, FirstOfKey, OneClaimPerKey, Scanning, Staged, Truthful,
              FromScanned, Ordered, InOrder, SaysAll, Covered, AssertedIn

LEMMA SourceTyped ==
  ASSUME NEW p \in Products, NEW f \in Copy(p) PROVE f.source \in Sources /\ IsText(f.text)
<1>1. Len(p.aboutItems) \in Nat /\ DOMAIN p.aboutItems = 1 .. Len(p.aboutItems)
  BY ProductsAre
<1>2. ASSUME NEW i \in 1 .. Len(p.aboutItems) PROVE Source("aboutItems", i) \in Sources
  BY <1>1 DEF Source, Sources, Names
<1>3. /\ Source("title", 0) \in Sources
      /\ Source("shortDescription", 0) \in Sources
      /\ Source("longDescription", 0) \in Sources
  BY DEF Source, Sources, Names
<1>. QED
  BY <1>1, <1>2, <1>3, ProductsAre DEF Copy, Field

LEMMA RankTyped ==
  ASSUME NEW p \in Products, NEW source \in Sources PROVE Rank(p, source) \in Nat
<1>1. Len(p.aboutItems) \in Nat
  BY ProductsAre
<1>2. source.name \in Names /\ source.index \in Nat
  BY DEF Sources
<1>. QED
  BY <1>1, <1>2 DEF Rank, Names

LEMMA StartTyped ==
  ASSUME NEW c \in Candidates PROVE c.source \in Sources /\ c.span.start \in Nat
<1>1. c.span \in Hits \/ c.span = NoSpan
  BY DEF Candidates
<1>2. \A h \in Hits : h.start \in Nat
  BY OverlapsAssumption DEF Hits
<1>3. NoSpan.start \in Nat
  BY DEF NoSpan
<1>. QED
  BY <1>1, <1>2, <1>3 DEF Candidates

(* One more candidate, after the others, keeps them truthful, ordered and covering. *)
LEMMA OneMore ==
  ASSUME NEW p \in Products, NEW found \in Seq(Candidates), NEW c \in Candidates,
         SaysAll(p, found), InOrder(p, found), Said(p, c),
         \A i \in DOMAIN found : Before(p, found[i], c)
  PROVE  /\ Append(found, c) \in Seq(Candidates)
         /\ SaysAll(p, Append(found, c)) /\ InOrder(p, Append(found, c))
         /\ \A f : CoveredBy(found, f) => CoveredBy(Append(found, c), f)
<1>. DEFINE more == Append(found, c)
            n == Len(found)
<1>1. /\ n \in Nat /\ DOMAIN found = 1 .. n
      /\ more \in Seq(Candidates) /\ DOMAIN more = 1 .. n + 1
      /\ \A i \in 1 .. n : more[i] = found[i]
      /\ more[n + 1] = c
  BY Appended
<1>. HIDE DEF more, n
<1>2. \A i \in 1 .. n + 1 : i \in 1 .. n \/ i = n + 1
  BY <1>1
<1>3. SaysAll(p, more)
  BY <1>1, <1>2 DEF SaysAll
<1>4. InOrder(p, more)
  <2>. SUFFICES ASSUME NEW j \in 1 .. n + 1, NEW i \in 1 .. j PROVE Before(p, more[i], more[j])
    BY <1>1 DEF InOrder
  <2>1. CASE j \in 1 .. n
    <3>1. i \in 1 .. n
      BY <1>1, <2>1
    <3>. QED
      BY <1>1, <2>1, <3>1 DEF InOrder
  <2>2. CASE j = n + 1 /\ i \in 1 .. n
    BY <1>1, <2>2
  <2>3. CASE j = n + 1 /\ i = n + 1
    BY <1>1, <2>3, StartTyped DEF Before
  <2>. QED
    BY <1>1, <1>2, <2>1, <2>2, <2>3
<1>5. ASSUME NEW f, CoveredBy(found, f) PROVE CoveredBy(more, f)
  BY <1>1, <1>5 DEF CoveredBy
<1>. QED
  BY <1>1, <1>3, <1>4, <1>5 DEF more

(* Passing over a blank field. *)
LEMMA SkipDetect == ASSUME DetectInv, SkipField PROVE DetectInv'
<1>1. /\ stage = "fields" /\ field \in DOMAIN Fields(product) /\ field' = field + 1
      /\ product' = product /\ stage' = stage /\ candidates' = candidates
      /\ next' = next /\ seen' = seen /\ claims' = claims
      /\ Fields(product)[field].text.hits = {}
  BY DEF SkipField, MoreFields, Current, IsBlank
<1>2. /\ field \in 1 .. Len(product.aboutItems) + 3 /\ Len(product.aboutItems) \in Nat
      /\ field \in Nat
  BY <1>1, FieldTyped DEF DetectInv
<1>3. Typed'
  BY <1>1, <1>2 DEF DetectInv, Typed
<1>4. FromScanned'
  <2>. SUFFICES ASSUME NEW i \in DOMAIN candidates
                PROVE Rank(product, candidates[i].source) < (field + 1) - 1
    BY <1>1 DEF FromScanned
  <2>1. Rank(product, candidates[i].source) < field - 1
    BY <1>1 DEF DetectInv, FromScanned
  <2>2. candidates[i] \in Candidates /\ product \in Products
    BY DEF DetectInv, Typed
  <2>3. Rank(product, candidates[i].source) \in Nat
    BY <2>2, StartTyped, RankTyped
  <2>. QED
    BY <1>2, <2>1, <2>3
<1>5. Covered'
  <2>. SUFFICES ASSUME NEW n \in 1 .. (field + 1) - 1, n \in DOMAIN Fields(product)
                PROVE CoveredBy(candidates, Fields(product)[n])
    BY <1>1 DEF Covered
  <2>1. CASE n = field
    BY <1>1, <2>1 DEF CoveredBy
  <2>2. CASE n # field
    <3>1. n \in 1 .. field - 1
      BY <1>2, <2>2
    <3>. QED
      BY <3>1 DEF DetectInv, Covered
  <2>. QED
    BY <2>1, <2>2
<1>. QED
  BY <1>1, <1>3, <1>4, <1>5
     DEF DetectInv, Scanning, Staged, Truthful, Ordered, AssertedIn

(* Starting the scan of a field. *)
LEMMA ScanDetect == ASSUME DetectInv, ScanField PROVE DetectInv'
<1>1. /\ stage = "fields" /\ field \in DOMAIN Fields(product) /\ field' = field
      /\ product' = product /\ stage' = "text" /\ candidates' = candidates
      /\ next' = next /\ seen' = seen /\ claims' = claims
      /\ hits' = Current.text.hits /\ negated' = Current.text.negated /\ accepted' = {}
  BY DEF ScanField, MoreFields, ScanText
<1>2. Current' = Current
  BY <1>1 DEF Current
<1>. QED
  BY <1>1, <1>2 DEF DetectInv, Typed, Scanning, Staged, Truthful, FromScanned, Ordered, Covered,
                    AssertedIn

(* Looking at the next match of a field. *)
LEMMA ResolveDetect ==
  ASSUME DetectInv, Inv, NEW m \in pending, ResolveNext(m) PROVE DetectInv'
<1>. DEFINE c == Candidate(Current.text.key[m], Current.source, m)
<1>1. /\ stage = "text" /\ stage' = "text" /\ product' = product /\ field' = field
      /\ next' = next /\ seen' = seen /\ claims' = claims
      /\ hits' = hits /\ negated' = negated
      /\ accepted' = accepted \/ accepted' = accepted \cup {m}
      /\ candidates' = IF m \in accepted' THEN Append(candidates, c) ELSE candidates
  BY DEF ResolveNext, Resolve
<1>2. Current' = Current
  BY <1>1 DEF Current
<1>3. /\ field \in DOMAIN Fields(product) /\ product \in Products
      /\ hits = Current.text.hits /\ negated = Current.text.negated
      /\ candidates \in Seq(Candidates)
  BY <1>1 DEF DetectInv, Scanning, Typed
<1>4. /\ Current \in Copy(product) /\ IsText(Current.text) /\ Current.source \in Sources
      /\ Rank(product, Current.source) = field - 1
  BY <1>3, FieldsAre, SourceTyped DEF Current
<1>5. m \in hits /\ m \in Hits /\ m.start \notin negated /\ m \notin accepted
  BY DEF Inv, Sorted, Taken, Matches, Unnegated, TextTypeOK
<1>6. c \in Candidates
  BY <1>3, <1>4, <1>5 DEF Candidates, Candidate, IsText
<1>7. c.source = Current.source /\ c.span = m /\ c.key = Current.text.key[m]
  BY DEF Candidate
<1>. HIDE DEF c
<1>8. CASE m \notin accepted'
  BY <1>1, <1>2, <1>8 DEF DetectInv, Typed, Scanning, Staged, Truthful, FromScanned, Ordered,
                          Covered, AssertedIn
<1>9. CASE m \in accepted'
  <2>1. candidates' = Append(candidates, c) /\ accepted' = accepted \cup {m}
    BY <1>1, <1>5, <1>9
  <2>2. /\ Len(candidates) \in Nat /\ DOMAIN candidates = 1 .. Len(candidates)
        /\ Append(candidates, c) \in Seq(Candidates)
        /\ Len(Append(candidates, c)) = Len(candidates) + 1
        /\ DOMAIN Append(candidates, c) = 1 .. Len(candidates) + 1
        /\ \A i \in 1 .. Len(candidates) : Append(candidates, c)[i] = candidates[i]
        /\ Append(candidates, c)[Len(candidates) + 1] = c
    BY <1>3, <1>6, Appended
  <2>3. Said(product, c)
    BY <1>3, <1>4, <1>5, <1>7 DEF Said
  <2>4. ASSUME NEW i \in DOMAIN candidates PROVE Before(product, candidates[i], c)
    <3>1. CASE Rank(product, candidates[i].source) < field - 1
      BY <1>4, <1>7, <3>1 DEF Before
    <3>2. CASE candidates[i].source = Current.source /\ candidates[i].span \in accepted
      <4>1. Precedes(candidates[i].span, m) /\ candidates[i].span \in Hits
        BY <3>2 DEF Inv, Taken, Sorted, TextTypeOK
      <4>2. candidates[i].span.start \in Nat /\ m.start \in Nat
        BY <4>1, <1>5, OverlapsAssumption DEF Hits
      <4>3. candidates[i].span.start <= m.start
        BY <4>1, <4>2 DEF Precedes
      <4>. QED
        BY <1>7, <3>2, <4>3 DEF Before
    <3>. QED
      BY <1>1, <3>1, <3>2 DEF DetectInv, FromScanned
  <2>5. /\ SaysAll(product, Append(candidates, c)) /\ InOrder(product, Append(candidates, c))
        /\ \A f : CoveredBy(candidates, f) => CoveredBy(Append(candidates, c), f)
    BY <1>3, <1>6, <2>3, <2>4, OneMore DEF DetectInv, Truthful, Ordered
  <2>6. Typed'
    BY <1>1, <2>1, <2>2 DEF DetectInv, Typed
  <2>7. Scanning'
    <3>. SUFFICES ASSUME NEW a \in accepted \cup {m}
                  PROVE \E i \in DOMAIN candidates' :
                    candidates'[i].source = Current.source /\ candidates'[i].span = a
      BY <1>1, <1>2, <1>3, <2>1 DEF Scanning
    <3>1. CASE a = m
      <4>1. Len(candidates) + 1 \in DOMAIN candidates' /\ candidates'[Len(candidates) + 1] = c
        BY <2>1, <2>2
      <4>. QED
        BY <1>7, <3>1, <4>1
    <3>2. CASE a \in accepted
      <4>1. PICK i \in DOMAIN candidates :
              candidates[i].source = Current.source /\ candidates[i].span = a
        BY <1>1, <3>2 DEF DetectInv, Scanning
      <4>2. i \in DOMAIN candidates' /\ candidates'[i] = candidates[i]
        BY <2>1, <2>2
      <4>. QED
        BY <4>1, <4>2
    <3>. QED
      BY <3>1, <3>2
  <2>8. FromScanned'
    <3>. SUFFICES ASSUME NEW i \in DOMAIN candidates'
                  PROVE \/ Rank(product, candidates'[i].source) < field - 1
                        \/ /\ candidates'[i].source = Current.source
                           /\ candidates'[i].span \in accepted \cup {m}
      BY <1>1, <1>2, <2>1 DEF FromScanned
    <3>1. CASE i = Len(candidates) + 1
      BY <1>7, <2>1, <2>2, <3>1
    <3>2. CASE i # Len(candidates) + 1
      <4>1. i \in DOMAIN candidates /\ candidates'[i] = candidates[i]
        BY <2>1, <2>2, <3>2
      <4>. QED
        BY <1>1, <4>1 DEF DetectInv, FromScanned
    <3>. QED
      BY <3>1, <3>2
  <2>9. Truthful' /\ Ordered' /\ Covered'
    BY <1>1, <2>1, <2>5 DEF DetectInv, Truthful, Ordered, Covered
  <2>. QED
    BY <1>1, <2>6, <2>7, <2>8, <2>9 DEF DetectInv, Staged, AssertedIn
<1>. QED
  BY <1>8, <1>9

(* The end of a field. *)
LEMMA ScannedDetect == ASSUME DetectInv, Inv, FieldScanned PROVE DetectInv'
<1>1. /\ stage = "text" /\ stage' = "fields" /\ pending = {} /\ field' = field + 1
      /\ product' = product /\ candidates' = candidates
      /\ next' = next /\ seen' = seen /\ claims' = claims
  BY DEF FieldScanned
<1>2. /\ field \in DOMAIN Fields(product) /\ product \in Products
      /\ hits = Current.text.hits /\ negated = Current.text.negated
      /\ \A a \in accepted : \E i \in DOMAIN candidates :
           candidates[i].source = Current.source /\ candidates[i].span = a
  BY <1>1 DEF DetectInv, Scanning, Typed
<1>3. /\ field \in 1 .. Len(product.aboutItems) + 3 /\ Len(product.aboutItems) \in Nat
      /\ field \in Nat /\ Rank(product, Current.source) = field - 1
  BY <1>2, FieldTyped, FieldsAre DEF DetectInv, Current
<1>4. Typed'
  BY <1>1, <1>3 DEF DetectInv, Typed
<1>5. CoveredBy(candidates, Current)
  BY <1>1, <1>2, InvDrops DEF OnlyDisplacedDropped, CoveredBy
<1>6. FromScanned'
  <2>. SUFFICES ASSUME NEW i \in DOMAIN candidates
                PROVE Rank(product, candidates[i].source) < (field + 1) - 1
    BY <1>1 DEF FromScanned
  <2>1. candidates[i] \in Candidates
    BY DEF DetectInv, Typed
  <2>2. Rank(product, candidates[i].source) \in Nat
    BY <1>2, <2>1, StartTyped, RankTyped
  <2>3. Rank(product, candidates[i].source) < field - 1 \/ candidates[i].source = Current.source
    BY <1>1 DEF DetectInv, FromScanned
  <2>. QED
    BY <1>3, <2>2, <2>3
<1>7. Covered'
  <2>. SUFFICES ASSUME NEW n \in 1 .. (field + 1) - 1, n \in DOMAIN Fields(product)
                PROVE CoveredBy(candidates, Fields(product)[n])
    BY <1>1 DEF Covered
  <2>1. CASE n = field
    BY <1>5, <2>1 DEF Current
  <2>2. CASE n # field
    <3>1. n \in 1 .. field - 1
      BY <1>3, <2>2
    <3>. QED
      BY <3>1 DEF DetectInv, Covered
  <2>. QED
    BY <2>1, <2>2
<1>. QED
  BY <1>1, <1>4, <1>6, <1>7 DEF DetectInv, Scanning, Staged, Truthful, Ordered, AssertedIn

(* What compliance data asserts comes after the copy, the country first. *)
LEMMA AssertedAre ==
  ASSUME NEW p \in Products
  PROVE  /\ CountryClaim \in Candidates /\ LicenceClaim \in Candidates
         /\ Rank(p, CountryClaim.source) = Len(p.aboutItems) + 3
         /\ Rank(p, LicenceClaim.source) = Len(p.aboutItems) + 4
         /\ CountryClaim \in Asserted(p)
              <=> IncludeStructured /\ p.country_of_origin = "acceptable"
         /\ LicenceClaim \in Asserted(p)
              <=> IncludeStructured /\ p.fssai_no = "acceptable"
         /\ Asserted(p) \subseteq {CountryClaim, LicenceClaim}
<1>1. /\ CountryClaim.source = Source("country_of_origin", 0)
      /\ LicenceClaim.source = Source("fssai_no", 0)
      /\ CountryClaim.key = CountryKey /\ LicenceClaim.key = LicenceKey
      /\ CountryClaim.span = NoSpan /\ LicenceClaim.span = NoSpan
  BY DEF CountryClaim, LicenceClaim, Candidate
<1>2. CountryClaim \in Candidates /\ LicenceClaim \in Candidates
  BY DetectionAssumption
     DEF CountryClaim, LicenceClaim, Candidate, Candidates, Sources, Names, Source
<1>3. /\ Rank(p, CountryClaim.source) = Len(p.aboutItems) + 3
      /\ Rank(p, LicenceClaim.source) = Len(p.aboutItems) + 4
  BY <1>1, ProductsAre DEF Rank, Source
<1>4. /\ CountryClaim.source.name = "country_of_origin"
      /\ LicenceClaim.source.name = "fssai_no"
  BY <1>1 DEF Source
<1>. QED
  BY <1>2, <1>3, <1>4 DEF Asserted

(* Adding what compliance data asserts. *)
LEMMA StructuredDetect == ASSUME DetectInv, Structured PROVE DetectInv'
<1>1. /\ stage = "fields" /\ stage' = "dedupe" /\ field' = field /\ product' = product
      /\ field \notin DOMAIN Fields(product)
      /\ next' = next /\ seen' = seen /\ claims' = claims
      /\ candidates' = IF IncludeStructured THEN WithStructured(candidates, product)
                       ELSE candidates
  BY DEF Structured
<1>2. /\ field = Len(product.aboutItems) + 4 /\ Len(product.aboutItems) \in Nat
      /\ product \in Products /\ candidates \in Seq(Candidates) /\ next = 1
  BY <1>1, FieldTyped DEF DetectInv, Typed, Staged
<1>. DEFINE Holds(found) == /\ found \in Seq(Candidates)
                           /\ SaysAll(product, found) /\ InOrder(product, found)
                           /\ \A f : CoveredBy(candidates, f) => CoveredBy(found, f)
            L == Len(product.aboutItems)
            Within(found, n) == \A i \in DOMAIN found :
                                  /\ Rank(product, found[i].source) \in Nat
                                  /\ Rank(product, found[i].source) < n
            country == IF product.country_of_origin = "acceptable"
                       THEN Append(candidates, CountryClaim) ELSE candidates
            all == WithStructured(candidates, product)
<1>3. Holds(candidates) /\ Within(candidates, L + 3)
  <2>1. ASSUME NEW i \in DOMAIN candidates
        PROVE  /\ Rank(product, candidates[i].source) \in Nat
               /\ Rank(product, candidates[i].source) < L + 3
    <3>1. candidates[i] \in Candidates
      BY <1>2
    <3>2. Rank(product, candidates[i].source) \in Nat
      BY <1>2, <3>1, StartTyped, RankTyped
    <3>3. Rank(product, candidates[i].source) < field - 1
      BY <1>1 DEF DetectInv, FromScanned
    <3>. QED
      BY <1>2, <3>2, <3>3
  <2>. QED
    BY <1>2, <2>1 DEF DetectInv, Truthful, Ordered
<1>4. ASSUME NEW found, NEW c \in Candidates, NEW n \in Nat,
             Holds(found), Within(found, n), Rank(product, c.source) = n, Said(product, c)
      PROVE  /\ Holds(Append(found, c)) /\ Within(Append(found, c), n + 1)
             /\ \E i \in DOMAIN Append(found, c) : Append(found, c)[i] = c
             /\ \A i \in DOMAIN found : i \in DOMAIN Append(found, c) /\ Append(found, c)[i] = found[i]
  <2>1. /\ Len(found) \in Nat /\ DOMAIN found = 1 .. Len(found)
        /\ DOMAIN Append(found, c) = 1 .. Len(found) + 1
        /\ \A i \in 1 .. Len(found) : Append(found, c)[i] = found[i]
        /\ Append(found, c)[Len(found) + 1] = c
    BY <1>4, Appended
  <2>2. \A i \in DOMAIN found : Before(product, found[i], c)
    BY <1>4 DEF Before
  <2>3. Holds(Append(found, c))
    BY <1>2, <1>4, <2>2, OneMore
  <2>4. Within(Append(found, c), n + 1)
    <3>. SUFFICES ASSUME NEW i \in DOMAIN Append(found, c)
                  PROVE /\ Rank(product, Append(found, c)[i].source) \in Nat
                        /\ Rank(product, Append(found, c)[i].source) < n + 1
      OBVIOUS
    <3>1. CASE i = Len(found) + 1
      BY <1>4, <2>1, <3>1
    <3>2. CASE i # Len(found) + 1
      <4>1. i \in DOMAIN found /\ Append(found, c)[i] = found[i]
        BY <2>1, <3>2
      <4>. QED
        BY <1>4, <4>1
    <3>. QED
      BY <3>1, <3>2
  <2>. QED
    BY <2>1, <2>3, <2>4
<1>5. CASE ~IncludeStructured
  <2>1. candidates' = candidates /\ Asserted(product) = {}
    BY <1>1, <1>2, <1>5, AssertedAre
  <2>. QED
    BY <1>1, <1>2, <2>1 DEF DetectInv, Typed, Scanning, Staged, Truthful, FromScanned, Ordered,
                            Covered, AssertedIn
<1>6. CASE IncludeStructured
  <2>. HIDE DEF Holds, Within
  <2>1. /\ Holds(country) /\ Within(country, L + 4)
        /\ CountryClaim \in Asserted(product) => \E i \in DOMAIN country : country[i] = CountryClaim
    <3>1. CASE product.country_of_origin = "acceptable"
      <4>1. /\ CountryClaim \in Candidates /\ Rank(product, CountryClaim.source) = L + 3
            /\ Said(product, CountryClaim)
        BY <1>2, <1>6, <3>1, AssertedAre DEF Said
      <4>2. L + 3 \in Nat /\ (L + 3) + 1 = L + 4
        BY <1>2
      <4>. HIDE DEF L
      <4>3. /\ Holds(Append(candidates, CountryClaim))
            /\ Within(Append(candidates, CountryClaim), (L + 3) + 1)
            /\ \E i \in DOMAIN Append(candidates, CountryClaim) :
                 Append(candidates, CountryClaim)[i] = CountryClaim
        BY <1>3, <1>4, <4>1, <4>2
      <4>. QED
        BY <3>1, <4>2, <4>3
    <3>2. CASE product.country_of_origin # "acceptable"
      <4>1. country = candidates /\ CountryClaim \notin Asserted(product)
        BY <1>2, <3>2, AssertedAre
      <4>2. Within(candidates, L + 4)
        BY <1>2, <1>3 DEF Within
      <4>. QED
        BY <1>3, <4>1, <4>2
    <3>. QED
      BY <3>1, <3>2
  <2>2. all = IF product.fssai_no = "acceptable" THEN Append(country, LicenceClaim) ELSE country
    BY DEF WithStructured
  <2>3. candidates' = all
    BY <1>1, <1>6
  <2>. HIDE DEF all, country
  <2>4. /\ Holds(all)
        /\ CountryClaim \in Asserted(product) => \E i \in DOMAIN all : all[i] = CountryClaim
        /\ LicenceClaim \in Asserted(product) => \E i \in DOMAIN all : all[i] = LicenceClaim
    <3>1. CASE product.fssai_no = "acceptable"
      <4>1. /\ LicenceClaim \in Candidates /\ Rank(product, LicenceClaim.source) = L + 4
            /\ Said(product, LicenceClaim)
        BY <1>2, <1>6, <3>1, AssertedAre DEF Said
      <4>2. L + 4 \in Nat
        BY <1>2
      <4>. HIDE DEF L
      <4>3. /\ Holds(Append(country, LicenceClaim))
            /\ \E i \in DOMAIN Append(country, LicenceClaim) :
                 Append(country, LicenceClaim)[i] = LicenceClaim
            /\ \A i \in DOMAIN country : /\ i \in DOMAIN Append(country, LicenceClaim)
                                         /\ Append(country, LicenceClaim)[i] = country[i]
        BY <1>4, <2>1, <4>1, <4>2
      <4>. QED
        BY <2>1, <2>2, <3>1, <4>3
    <3>2. CASE product.fssai_no # "acceptable"
      <4>1. all = country /\ LicenceClaim \notin Asserted(product)
        BY <1>2, <2>2, <3>2, AssertedAre
      <4>. QED
        BY <2>1, <4>1
    <3>. QED
      BY <3>1, <3>2
  <2>5. AssertedIn'
    <3>1. \A c \in Asserted(product) : c = CountryClaim \/ c = LicenceClaim
      BY <1>2, AssertedAre
    <3>. QED
      BY <1>1, <2>3, <2>4, <3>1 DEF AssertedIn
  <2>6. Typed'
    <3>1. candidates' \in Seq(Candidates)
      BY <2>3, <2>4 DEF Holds
    <3>2. 1 \in 1 .. Len(candidates') + 1
      BY <3>1
    <3>. QED
      BY <1>1, <1>2, <3>1, <3>2 DEF DetectInv, Typed
  <2>7. Truthful' /\ Ordered' /\ Covered'
    BY <1>1, <2>3, <2>4 DEF Holds, DetectInv, Truthful, Ordered, Covered
  <2>. QED
    BY <1>1, <2>5, <2>6, <2>7 DEF DetectInv, Scanning, Staged, FromScanned
<1>. QED
  BY <1>5, <1>6

(* What the next candidate does to the claims. *)
LEMMA DeduplicateDetect ==
  ASSUME DetectInv, FirstOfKey, OneClaimPerKey, Deduplicate
  PROVE  DetectInv' /\ FirstOfKey' /\ OneClaimPerKey'
<1>. DEFINE c == candidates[next]
<1>1. /\ stage = "dedupe" /\ next <= Len(candidates) /\ next' = next + 1
      /\ seen' = seen \cup {c.key}
      /\ claims' = IF c.key \in seen THEN claims ELSE Append(claims, c)
      /\ stage' = stage /\ field' = field /\ product' = product /\ candidates' = candidates
  BY DEF Deduplicate
<1>2. /\ candidates \in Seq(Candidates) /\ Len(candidates) \in Nat
      /\ next \in Nat /\ next \in 1 .. Len(candidates)
      /\ c \in Candidates /\ claims \in Seq(Candidates)
  BY <1>1 DEF DetectInv, Typed
<1>3. /\ Len(claims) \in Nat /\ DOMAIN claims = 1 .. Len(claims)
      /\ Append(claims, c) \in Seq(Candidates)
      /\ DOMAIN Append(claims, c) = 1 .. Len(claims) + 1
      /\ \A i \in 1 .. Len(claims) : Append(claims, c)[i] = claims[i]
      /\ Append(claims, c)[Len(claims) + 1] = c
  BY <1>2, Appended
<1>4. Typed'
  <2>1. next + 1 \in 1 .. Len(candidates) + 1
    BY <1>2
  <2>. QED
    BY <1>1, <1>2, <1>3, <2>1 DEF DetectInv, Typed
<1>5. DetectInv'
  BY <1>1, <1>4 DEF DetectInv, Scanning, Staged, Truthful, FromScanned, Ordered, Covered, AssertedIn
<1>6. ASSUME NEW i \in 1 .. (next + 1) - 1 PROVE i \in 1 .. next - 1 \/ i = next
  BY <1>2
<1>7. next \in 1 .. (next + 1) - 1 /\ \A i \in 1 .. next - 1 : i \in 1 .. (next + 1) - 1
  BY <1>2
<1>. HIDE DEF c
<1>8. CASE c.key \in seen
  <2>1. seen' = seen /\ claims' = claims
    BY <1>1, <1>8
  <2>2. \A i \in 1 .. next' - 1 : candidates'[i].key \in seen'
    BY <1>1, <1>6, <1>8, <2>1 DEF FirstOfKey, c
  <2>3. ASSUME NEW k \in DOMAIN claims
        PROVE  \E j \in 1 .. next' - 1 :
                 /\ claims[k] = candidates[j]
                 /\ \A i \in 1 .. j - 1 : candidates[i].key # candidates[j].key
    BY <1>1, <1>7 DEF FirstOfKey
  <2>. QED
    BY <1>1, <1>5, <2>1, <2>2, <2>3 DEF FirstOfKey, OneClaimPerKey
<1>9. CASE c.key \notin seen
  <2>1. seen' = seen \cup {c.key} /\ claims' = Append(claims, c)
    BY <1>1, <1>9
  <2>2. \A i \in DOMAIN claims' : i \in DOMAIN claims \/ i = Len(claims) + 1
    BY <1>3, <2>1
  <2>3. seen' = {claims'[k].key : k \in DOMAIN claims'}
    BY <1>3, <2>1, <2>2 DEF FirstOfKey
  <2>4. \A i \in 1 .. next' - 1 : candidates'[i].key \in seen'
    BY <1>1, <1>6, <2>1 DEF FirstOfKey, c
  <2>5. ASSUME NEW k \in DOMAIN claims'
        PROVE  \E j \in 1 .. next' - 1 :
                 /\ claims'[k] = candidates'[j]
                 /\ \A i \in 1 .. j - 1 : candidates'[i].key # candidates'[j].key
    <3>1. CASE k \in DOMAIN claims
      BY <1>1, <1>3, <1>7, <2>1, <3>1 DEF FirstOfKey
    <3>2. CASE k = Len(claims) + 1
      <4>1. \A i \in 1 .. next - 1 : candidates[i].key # c.key
        BY <1>9 DEF FirstOfKey
      <4>2. claims'[k] = candidates[next] /\ next \in 1 .. next' - 1
        BY <1>1, <1>3, <1>7, <2>1, <3>2 DEF c
      <4>. QED
        BY <1>1, <4>1, <4>2 DEF c
    <3>. QED
      BY <2>2, <3>1, <3>2
  <2>6. OneClaimPerKey'
    <3>. SUFFICES ASSUME NEW i \in DOMAIN claims', NEW j \in DOMAIN claims',
                         claims'[i].key = claims'[j].key
                  PROVE i = j
      BY DEF OneClaimPerKey
    <3>1. \A k \in DOMAIN claims : claims'[k] = claims[k] /\ claims[k].key # c.key
      BY <1>3, <1>9, <2>1 DEF FirstOfKey
    <3>2. claims'[Len(claims) + 1] = c
      BY <1>3, <2>1
    <3>. QED
      BY <2>2, <3>1, <3>2 DEF OneClaimPerKey
  <2>7. FirstOfKey'
    BY <2>3, <2>4, <2>5 DEF FirstOfKey
  <2>. QED
    BY <1>5, <2>6, <2>7
<1>. QED
  BY <1>8, <1>9

(* While fields are scanned there are no claims. *)
LEMMA NoClaimsYet ==
  ASSUME DetectInv', FirstOfKey, OneClaimPerKey, next' = next, seen' = seen, claims' = claims,
         stage # "dedupe", DetectInv
  PROVE  FirstOfKey' /\ OneClaimPerKey'
<1>1. next = 1 /\ seen = {} /\ claims = <<>>
  BY DEF DetectInv, Staged
<1>. QED
  BY <1>1 DEF FirstOfKey, OneClaimPerKey

(* The invariant of the detector, next to that of the scan of each text. *)
LEMMA DetectorInvariant == DetectSpec => [](DetectInv /\ FirstOfKey /\ OneClaimPerKey) /\ []Inv
<1>1. ASSUME DetectInv, FirstOfKey, OneClaimPerKey, Inv, [DetectNext]_allVars
      PROVE  (DetectInv /\ FirstOfKey /\ OneClaimPerKey)'
  <2>1. CASE SkipField
    BY <1>1, <2>1, SkipDetect, NoClaimsYet DEF SkipField, MoreFields
  <2>2. CASE ScanField
    BY <1>1, <2>2, ScanDetect, NoClaimsYet DEF ScanField, MoreFields
  <2>3. ASSUME NEW m \in pending, ResolveNext(m)
        PROVE  (DetectInv /\ FirstOfKey /\ OneClaimPerKey)'
    BY <1>1, <2>3, ResolveDetect, NoClaimsYet DEF ResolveNext
  <2>4. CASE FieldScanned
    BY <1>1, <2>4, ScannedDetect, NoClaimsYet DEF FieldScanned
  <2>5. CASE Structured
    BY <1>1, <2>5, StructuredDetect, NoClaimsYet DEF Structured
  <2>6. CASE Deduplicate
    BY <1>1, <2>6, DeduplicateDetect
  <2>7. CASE UNCHANGED allVars
    BY <1>1, <2>7
       DEF allVars, DetectInv, FirstOfKey, OneClaimPerKey, Typed, Scanning, Staged, Truthful,
           FromScanned, Ordered, Covered, AssertedIn, Current
  <2>. QED
    BY <1>1, <2>1, <2>2, <2>3, <2>4, <2>5, <2>6, <2>7 DEF DetectNext
<1>. QED
  BY <1>1, InitDetect, DetectorScansTexts, ScanInvariant, PTL DEF DetectSpec

-------------------------------------------------------------------------------
(* What a product's answer is. *)

(* A claim is reported once. *)
THEOREM ReportedOnce == DetectSpec => []OneClaimPerKey
BY DetectorInvariant, PTL

(* A claim is in the words of the best field that makes it. *)
THEOREM InBestWording == DetectSpec => []BestWordingKept
<1>1. DetectInv /\ FirstOfKey => BestWordingKept
  <2>. SUFFICES ASSUME DetectInv, FirstOfKey, NEW k \in DOMAIN claims
                PROVE  /\ Said(product, claims[k])
                       /\ \A j \in DOMAIN candidates : candidates[j].key = claims[k].key =>
                            \/ Rank(product, claims[k].source) < Rank(product, candidates[j].source)
                            \/ /\ claims[k].source = candidates[j].source
                               /\ claims[k].span.start <= candidates[j].span.start
    BY DEF BestWordingKept
  <2>1. PICK n \in 1 .. next - 1 :
          /\ claims[k] = candidates[n]
          /\ \A i \in 1 .. n - 1 : candidates[i].key # candidates[n].key
    BY DEF FirstOfKey
  <2>2. /\ DOMAIN candidates = 1 .. Len(candidates) /\ Len(candidates) \in Nat
        /\ next \in Nat /\ next <= Len(candidates) + 1
    BY DEF DetectInv, Typed
  <2>3. n \in DOMAIN candidates
    BY <2>2
  <2>4. Said(product, claims[k])
    BY <2>1, <2>3 DEF DetectInv, Truthful, SaysAll
  <2>5. ASSUME NEW j \in DOMAIN candidates, candidates[j].key = claims[k].key
        PROVE  Before(product, candidates[n], candidates[j])
    <3>1. n \in 1 .. j
      BY <2>1, <2>2, <2>3, <2>5
    <3>. QED
      BY <3>1 DEF DetectInv, Ordered, InOrder
  <2>. QED
    BY <2>1, <2>4, <2>5 DEF Before
<1>. QED
  BY <1>1, DetectorInvariant, PTL

(* Nothing a product asserts is lost. *)
THEOREM AllReported == DetectSpec => []NothingLost
<1>1. DetectInv /\ FirstOfKey => NothingLost
  <2>. SUFFICES ASSUME DetectInv, FirstOfKey, Done PROVE NothingLost
    BY DEF NothingLost
  <2>1. /\ stage = "dedupe" /\ next = Len(candidates) + 1 /\ Len(candidates) \in Nat
        /\ DOMAIN candidates = 1 .. Len(candidates) /\ product \in Products
    BY DEF Done, DetectInv, Typed
  <2>2. \A i \in DOMAIN candidates : Claimed(candidates[i].key)
    <3>1. \A i \in DOMAIN candidates : candidates[i].key \in {claims[k].key : k \in DOMAIN claims}
      BY <2>1 DEF FirstOfKey
    <3>. QED
      BY <3>1 DEF Claimed
  <2>3. ASSUME NEW f \in Copy(product), NEW h \in f.text.hits, h.start \notin f.text.negated
        PROVE  \E c \in Range(candidates) :
                 c.source = f.source /\ (c.span = h \/ Displaces(c.span, h)) /\ Claimed(c.key)
    <3>1. PICK n \in 1 .. Len(product.aboutItems) + 3 : Fields(product)[n] = f
      BY <2>1, FieldsAre
    <3>2. field = Len(product.aboutItems) + 4 /\ n \in DOMAIN Fields(product)
      BY <2>1, FieldTyped DEF DetectInv, Staged
    <3>3. n \in 1 .. field - 1
      BY <2>1, <3>2, ProductsAre
    <3>4. CoveredBy(candidates, f)
      BY <3>1, <3>2, <3>3 DEF DetectInv, Covered
    <3>5. PICK i \in DOMAIN candidates :
            candidates[i].source = f.source /\ (candidates[i].span = h \/ Displaces(candidates[i].span, h))
      BY <2>3, <3>4 DEF CoveredBy
    <3>. QED
      BY <2>2, <3>5 DEF Range
  <2>4. \A c \in Asserted(product) : Claimed(c.key)
    BY <2>1, <2>2 DEF DetectInv, AssertedIn
  <2>. QED
    BY <2>3, <2>4 DEF NothingLost
<1>. QED
  BY <1>1, DetectorInvariant, PTL

===============================================================================
