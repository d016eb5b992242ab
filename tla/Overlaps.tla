------------------------------- MODULE Overlaps --------------------------------
(***************************************************************************)
(* scanText of internal/claims: which matches of the rules in one text of  *)
(* a product become claims.                                                *)
(*                                                                         *)
(* What the regular expressions match is data: a hit is the span of text a *)
(* rule matched, for the hits that survive the rule's excludes.  Whether a *)
(* hit is negated depends on the text before it only, that is on its start *)
(* (Negation.tla has the details).  No rule matches blank text, so the     *)
(* test for an empty value of scanText never drops a match.                *)
(***************************************************************************)
EXTENDS Integers

CONSTANTS
  Length,     \* of a text, in bytes
  Rules       \* number of rules, in the order of the rule set

ASSUME OverlapsAssumption == Length \in Nat /\ Rules \in Nat

Hits == {h \in [start : 0 .. Length, end : 0 .. Length, rule : 1 .. Rules] : h.start < h.end}

VARIABLES
  hits,       \* what the rules match in the text being scanned
  negated,    \* where a negation precedes
  pending,    \* matches that resolveOverlaps has not looked at
  accepted    \* matches that become claims

textVars == <<hits, negated, pending, accepted>>

\* Slip: shortest first among the matches that start at one place.
PrecedesShorter(a, b) ==
  \/ a.start < b.start
  \/ a.start = b.start /\ a.end < b.end
  \/ a.start = b.start /\ a.end = b.end /\ a.rule < b.rule

(* The order in which resolveOverlaps looks at matches: the leftmost first,
   of those the longest, and of those the one whose rule comes first. *)
Precedes(a, b) ==
  \/ a.start < b.start
  \/ a.start = b.start /\ a.end > b.end
  \/ a.start = b.start /\ a.end = b.end /\ a.rule < b.rule

\* Slip: asks whether one match starts inside the other, and misses equal starts.
OverlapAtStart(a, b) ==
  (a.start < b.start /\ b.start < a.end) \/ (b.start < a.start /\ a.start < b.end)

Overlap(a, b) == a.start < b.end /\ b.start < a.end

(* Where a negation may precede: nothing precedes the first byte. *)
Negatable(found) == {h.start : h \in found} \ {0}

(* Negated matches are dropped before overlaps are resolved, so they do not
   shadow other matches. *)
Unnegated(found, before) == {h \in found : h.start \notin before}

Init ==
  /\ hits = {} /\ negated = {}
  /\ pending = {} /\ accepted = {}

(* A text is scanned: the rules match found, and a negation precedes before. *)
ScanText(found, before) ==
  /\ pending = {}
  /\ hits' = found
  /\ negated' = before
  /\ pending' = Unnegated(found, before)
  /\ accepted' = {}

(* The next match in order is accepted unless it overlaps one that was. *)
Resolve(m) ==
  /\ m \in pending
  /\ \A n \in pending \ {m} : Precedes(m, n)
  /\ pending' = pending \ {m}
  /\ accepted' = accepted \cup {n \in {m} : ~\E a \in accepted : Overlap(m, a)}
  /\ UNCHANGED <<hits, negated>>

Next ==
  \/ \E found \in SUBSET Hits : \E before \in SUBSET Negatable(found) :
       ScanText(found, before)
  \/ \E m \in pending : Resolve(m)

Spec == Init /\ [][Next]_textVars

-------------------------------------------------------------------------------

(* No byte of the text is in both spans. *)
Apart(a, b) == a.end <= b.start \/ b.end <= a.start

(* No text is reported twice: the claims of a text never overlap
   (resolveOverlaps). *)
ClaimsDisjoint == \A a, b \in accepted : a = b \/ Apart(a, b)

(* a overlaps m and starts further left, or is longer, or is of an earlier
   rule, in this order: of two that start apart the left one displaces the
   other however long that is. *)
Displaces(a, m) ==
  /\ ~Apart(a, m)
  /\ a.start <= m.start
  /\ a.start = m.start => a.end >= m.end
  /\ a.start = m.start /\ a.end = m.end => a.rule < m.rule

(* resolveOverlaps drops a match only for a reported one that displaces it.
   With ClaimsDisjoint this determines the reported matches: they do not depend
   on the order in which the rules were tried.  Whether they are the ones that
   the code's comment speaks of is another matter: see LongestWins. *)
OnlyDisplacedDropped ==
  pending = {} =>
    \A m \in hits \ accepted : m.start \in negated \/ \E a \in accepted : Displaces(a, m)

(* The comment of resolveOverlaps, "longest match wins": a match that is dropped
   overlaps a reported one that is at least as long. *)
LongestWins ==
  pending = {} =>
    \A m \in hits \ accepted :
      \/ m.start \in negated
      \/ \E a \in accepted : ~Apart(a, m) /\ a.end - a.start >= m.end - m.start

(* README, "A claim preceded by `not` ... is discarded rather than reported":
   nothing inside a match that is dropped for a negation is reported. *)
NegatedTextNotReported ==
  \A a \in accepted : \A h \in hits :
    h.start \in negated => ~(h.start <= a.start /\ a.end <= h.end)

===============================================================================
