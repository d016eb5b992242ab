------------------------------- MODULE Detection -------------------------------
(***************************************************************************)
(* Detector.Detect of internal/claims: the claims of a whole product.  The *)
(* fields are scanned in order of priority, each as Overlaps describes,    *)
(* then the structured rules add what compliance data asserts, then the    *)
(* candidates are deduplicated.                                            *)
(*                                                                         *)
(* A text is what the rules find in it: its hits, where negations precede, *)
(* and the dedupe key of each hit - its category and normalised words.     *)
(***************************************************************************)
EXTENDS Overlaps, Sequences, Functions

CONSTANTS
  Keys,                \* dedupe keys
  Products,            \* the products to scan
  CountryKey,          \* the dedupe key of the country-of-origin claim
  LicenceKey,          \* the dedupe key of the licence claim
  IncludeStructured    \* CLAIMS_INCLUDE_STRUCTURED

(* What a field of compliance data may hold: nothing, or nothing that is a
   string or number; a text the rule rejects, such as N/A; or one it accepts. *)
RawValues == {"absent", "rejected", "acceptable"}

IsText(t) ==
  /\ t.hits \subseteq Hits
  /\ t.negated \subseteq Negatable(t.hits)
  /\ t.key \in [t.hits -> Keys]

ASSUME DetectionAssumption ==
  /\ \A p \in Products :
       /\ IsText(p.title) /\ IsText(p.shortDescription) /\ IsText(p.longDescription)
       /\ p.aboutItems \in Seq(Range(p.aboutItems)) /\ \A t \in Range(p.aboutItems) : IsText(t)
       /\ p.country_of_origin \in RawValues /\ p.fssai_no \in RawValues
  /\ {CountryKey, LicenceKey} \subseteq Keys /\ CountryKey # LicenceKey
  /\ IncludeStructured \in BOOLEAN

VARIABLES
  product,       \* the product being scanned
  stage,         \* "fields", the "text" of one, "structured" claims, "dedupe"
  field,         \* the field to scan next, or being scanned
  candidates,    \* found so far, in order
  next,          \* the candidate to deduplicate next
  seen,          \* the keys of the claims so far
  claims         \* the answer so far

detectVars == <<product, stage, field, candidates, next, seen, claims>>

allVars == <<hits, negated, pending, accepted,
             product, stage, field, candidates, next, seen, claims>>

Source(name, index) == [name |-> name, index |-> index]

Field(source, text) == [source |-> source, text |-> text]

\* A blank text has no hits; one without hits may as well be blank.
IsBlank(text) == text.hits = {}

\* Slip: bullets are numbered after the blank ones are removed.
FieldsRenumbered(p) ==
  LET about == SelectSeq(p.aboutItems, LAMBDA t : ~IsBlank(t))
  IN  <<Field(Source("title", 0), p.title)>>
      \o [i \in 1 .. Len(about) |-> Field(Source("aboutItems", i), about[i])]
      \o <<Field(Source("shortDescription", 0), p.shortDescription),
           Field(Source("longDescription", 0), p.longDescription)>>

(* The fields of marketing copy, in the order in which they are scanned. *)
Fields(p) ==
  LET bullets == Len(p.aboutItems)
  IN  [n \in 1 .. bullets + 3 |->
         CASE n = 1 -> Field(Source("title", 0), p.title)
           [] n \in 2 .. bullets + 1 -> Field(Source("aboutItems", n - 1), p.aboutItems[n - 1])
           [] n = bullets + 2 -> Field(Source("shortDescription", 0), p.shortDescription)
           [] n = bullets + 3 -> Field(Source("longDescription", 0), p.longDescription)]

(* span is the matched text: the wording that becomes the claim's value. *)
Candidate(key, source, span) == [key |-> key, source |-> source, span |-> span]

NoSpan == [start |-> 0, end |-> 0, rule |-> 0]

CountryClaim == Candidate(CountryKey, Source("country_of_origin", 0), NoSpan)
LicenceClaim == Candidate(LicenceKey, Source("fssai_no", 0), NoSpan)

(* structuredClaims adds what each of the two rules accepts, in order. *)
WithStructured(found, p) ==
  LET first == IF p.country_of_origin = "acceptable" THEN Append(found, CountryClaim) ELSE found
  IN  IF p.fssai_no = "acceptable" THEN Append(first, LicenceClaim) ELSE first

DetectInit ==
  /\ Init
  /\ product \in Products
  /\ stage = "fields" /\ field = 1
  /\ candidates = <<>> /\ next = 1
  /\ seen = {} /\ claims = <<>>

Current == Fields(product)[field]

MoreFields == stage = "fields" /\ field \in DOMAIN Fields(product)

(* scanFields leaves blank texts out. *)
SkipField ==
  /\ MoreFields
  /\ IsBlank(Current.text)
  /\ field' = field + 1
  /\ UNCHANGED <<textVars, product, stage, candidates, next, seen, claims>>

ScanField ==
  /\ MoreFields
  /\ ~IsBlank(Current.text)
  /\ ScanText(Current.text.hits, Current.text.negated)
  /\ stage' = "text"
  /\ UNCHANGED <<product, field, candidates, next, seen, claims>>

(* An accepted match becomes a candidate.  Matches are accepted from left to
   right, so sorting the accepted ones by start again changes nothing. *)
ResolveNext(m) ==
  /\ stage = "text"
  /\ Resolve(m)
  /\ candidates' = IF m \in accepted'
                   THEN Append(candidates, Candidate(Current.text.key[m], Current.source, m))
                   ELSE candidates
  /\ UNCHANGED <<product, stage, field, next, seen, claims>>

FieldScanned ==
  /\ stage = "text"
  /\ pending = {}
  /\ stage' = "fields"
  /\ field' = field + 1
  /\ UNCHANGED <<textVars, product, candidates, next, seen, claims>>

\* Slip: only for a product without claims in its copy.
StructuredIfNoneFound ==
  /\ stage = "fields" /\ field \notin DOMAIN Fields(product)
  /\ candidates' = IF IncludeStructured /\ candidates = <<>> THEN WithStructured(<<>>, product)
                   ELSE candidates
  /\ stage' = "dedupe"
  /\ UNCHANGED <<textVars, product, field, next, seen, claims>>

Structured ==
  /\ stage = "fields" /\ field \notin DOMAIN Fields(product)
  /\ candidates' = IF IncludeStructured THEN WithStructured(candidates, product)
                   ELSE candidates
  /\ stage' = "dedupe"
  /\ UNCHANGED <<textVars, product, field, next, seen, claims>>

\* Slip: only neighbours are compared.
DeduplicateNeighbours ==
  /\ stage = "dedupe" /\ next <= Len(candidates)
  /\ seen' = {candidates[next].key}
  /\ claims' = IF candidates[next].key \in seen THEN claims ELSE Append(claims, candidates[next])
  /\ next' = next + 1
  /\ UNCHANGED <<textVars, product, stage, field, candidates>>

Deduplicate ==
  /\ stage = "dedupe" /\ next <= Len(candidates)
  /\ seen' = seen \cup {candidates[next].key}
  /\ claims' = IF candidates[next].key \in seen THEN claims ELSE Append(claims, candidates[next])
  /\ next' = next + 1
  /\ UNCHANGED <<textVars, product, stage, field, candidates>>

DetectNext ==
  \/ SkipField
  \/ ScanField
  \/ \E m \in pending : ResolveNext(m)
  \/ FieldScanned
  \/ Structured
  \/ Deduplicate

DetectSpec == DetectInit /\ [][DetectNext]_allVars

-------------------------------------------------------------------------------

Done == stage = "dedupe" /\ next = Len(candidates) + 1

(* The sources of a product and what each holds, read off the product itself. *)
Copy(p) ==
  {Field(Source("title", 0), p.title), Field(Source("shortDescription", 0), p.shortDescription),
   Field(Source("longDescription", 0), p.longDescription)}
  \cup {Field(Source("aboutItems", i), p.aboutItems[i]) : i \in DOMAIN p.aboutItems}

(* What compliance data asserts. *)
Asserted(p) ==
  {c \in {CountryClaim, LicenceClaim} : IncludeStructured /\ p[c.source.name] = "acceptable"}

(* The order of the sources: title, bullets, prose, compliance data. *)
Rank(p, source) ==
  CASE source.name = "title" -> 0
    [] source.name = "aboutItems" -> source.index
    [] source.name = "shortDescription" -> Len(p.aboutItems) + 1
    [] source.name = "longDescription" -> Len(p.aboutItems) + 2
    [] source.name = "country_of_origin" -> Len(p.aboutItems) + 3
    [] source.name = "fssai_no" -> Len(p.aboutItems) + 4

(* A claim is reported once, however often a product makes it (Detect). *)
OneClaimPerKey ==
  \A i, j \in DOMAIN claims : claims[i].key = claims[j].key => i = j

Claimed(key) == \E i \in DOMAIN claims : claims[i].key = key

(* Nothing a product asserts is lost: every match in its copy that is not
   negated is claimed, from its own field or another, or was displaced by one
   of its field that is; and so is what compliance data asserts (Detect,
   scanFields, structuredClaims). *)
NothingLost ==
  Done =>
    /\ \A f \in Copy(product) : \A h \in f.text.hits :
         \/ h.start \in f.text.negated
         \/ \E c \in Range(candidates) :
              /\ c.source = f.source
              /\ c.span = h \/ Displaces(c.span, h)
              /\ Claimed(c.key)
    /\ \A c \in Asserted(product) : Claimed(c.key)

(* The product says c where c says it does, and does not negate it. *)
Said(p, c) ==
  \/ c \in Asserted(p)
  \/ \E f \in Copy(p) : /\ c.source = f.source
                        /\ c.span \in f.text.hits
                        /\ c.span.start \notin f.text.negated
                        /\ c.key = f.text.key[c.span]

(* A claim names a field that makes it, and of the candidates with its key it
   keeps the wording of the one in the field of the highest priority, and of
   those the leftmost (scanFields, Detect). *)
BestWordingKept ==
  \A i \in DOMAIN claims :
    /\ Said(product, claims[i])
    /\ \A j \in DOMAIN candidates : candidates[j].key = claims[i].key =>
         \/ Rank(product, claims[i].source) < Rank(product, candidates[j].source)
         \/ /\ claims[i].source = candidates[j].source
            /\ claims[i].span.start <= candidates[j].span.start

===============================================================================
