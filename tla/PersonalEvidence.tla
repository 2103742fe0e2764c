------------------------- MODULE PersonalEvidence --------------------------
(***************************************************************************)
(* The verdicts of the personal evidence features, as the pure functions   *)
(* of lib/personalExperimentEvidence.ts and lib/personalIntelligence-      *)
(* Evidence.ts compute them: averages rounded to hundredths, differences   *)
(* of rounded averages, a tie margin of 0.25 and a minimum of observations *)
(* before anything is concluded.  Numbers are hundredths here.             *)
(*                                                                         *)
(* The code computes in doubles.  Of what it rounds, those are exact but   *)
(* at a tie, an average of k/2 hundredths with k odd, where k/200 * 100    *)
(* may come out below k/2: 1.275 * 100 is 127.49999999999999.  Falls is    *)
(* the set of the k that do.                                               *)
(*                                                                         *)
(* The small machine below adds one observation after another, the way an  *)
(* account collects them, so that every list within the bounds is judged.  *)
(***************************************************************************)
EXTENDS Integers, Sequences, FiniteSets, Sums

CONSTANTS Scores,    \* bound: the values observed, of the integers 1 to 5
          Metrics,   \* bound: the social metric values observed
          Collected,  \* bound: the samples there may be already
          MaxSample, \* bound: observations collected
          Falls      \* the ties, in half hundredths, that doubles put below the half

VARIABLES sample,  \* the scores recorded for each of two options, products or sides
          trend,   \* values of one social metric in the order of observed_at
          room     \* observations that may still be collected

evidenceVars == <<sample, trend, room>>

Keys == {"a", "b"}

Million == 1000000

\* Sums and averages far below 2^53, so that only ties are rounded by their double; a
\* tie in eighths is exact, and doubles are as far off on both sides of zero.
ASSUME EvidenceAssumption ==
  /\ Scores \subseteq 1..5 /\ Metrics \subseteq -Million..Million
  /\ Collected \subseteq [Keys -> Seq(1..5)] /\ MaxSample \in 0..Million
  /\ Falls \subseteq Int /\ \A k \in Falls : k % 25 # 0 /\ -k \notin Falls

TieMargin == 25            \* EVIDENCE_TIE_MARGIN, PERSONAL_EXPERIMENT_TIE_MARGIN
MinPerOption == 2          \* also PRODUCT_OUTCOME_MINIMUM and REFERENCE_MINIMUM_PAIRS
SocialMinimum == 4

Abs(n) == IF n < 0 THEN -n ELSE n
Larger(a, b) == IF a > b THEN a ELSE b

\* Math.round(x / n * 100): halves go up, also below zero, if the product comes out
\* as the half.
Rounded(x, n) ==
  LET up == (200 * x + n) \div (2 * n)
      tie == 2 * up - 1
  IN IF 200 * x = n * tie /\ tie \in Falls THEN up - 1 ELSE up
Average(s) == Rounded(Sum(s), Len(s))

\* What a rounded difference says, once the minimum is met.
Direction(gap, margin, up, down) ==
  IF Abs(gap) <= margin THEN "tied" ELSE IF gap > 0 THEN up ELSE down

\* Mutant: one option with enough outcomes is taken for both.
ExperimentVerdictEither(a, b) ==
  IF a = <<>> \/ b = <<>> \/ Len(a) + Len(b) < 2 * MinPerOption THEN "insufficient"
  ELSE Direction(Average(a) - Average(b), TieMargin, "favors_a", "favors_b")

\* evaluatePersonalExperiment
ExperimentVerdict(a, b) ==
  IF Len(a) < MinPerOption \/ Len(b) < MinPerOption THEN "insufficient"
  ELSE Direction(Average(a) - Average(b), TieMargin, "favors_a", "favors_b")

Confidence(a, b) ==
  IF Len(a) < MinPerOption \/ Len(b) < MinPerOption THEN "insufficient"
  ELSE IF Len(a) + Len(b) >= 8 THEN "growing" ELSE "provisional"

\* evaluateReferenceComparison, over pairs of scores.
ReferenceVerdict(self, reference) ==
  IF Len(self) < MinPerOption THEN "insufficient"
  ELSE Direction(Average(self) - Average(reference), TieMargin, "self_higher", "reference_higher")

\* evaluateProductLearning: the state of one product, ...
ProductState(s) ==
  IF Len(s) < MinPerOption THEN "insufficient"
  ELSE IF Average(s) > 350 THEN "works"
  ELSE IF Average(s) < 250 THEN "did_not_work" ELSE "mixed"

\* ... and of all: the best two of those with enough outcomes.
ProductLearning(products) ==
  LET closed == {p \in DOMAIN products : Len(products[p]) >= MinPerOption}
      best == {p \in closed : \A q \in closed : Average(products[q]) <= Average(products[p])}
      Near(p, q) == Average(products[p]) - Average(products[q]) <= TieMargin
  IN IF closed = {} THEN "insufficient"
     ELSE IF \E p \in best, q \in closed : q # p /\ Near(p, q) THEN "tied"
     ELSE IF \E p \in best : Average(products[p]) > 350 THEN "favors_product"
     ELSE "no_product_favored"

\* evaluateSocialOutcomes, for one provider and label: the later half against the
\* earlier one; the margin is a hundredth of the earlier average, and 0.25 at least.
SocialVerdict(s) ==
  LET split == Len(s) \div 2
      early == Average(SubSeq(s, 1, split))
      delta == Average(SubSeq(s, split + 1, Len(s))) - early
  IN IF Len(s) < SocialMinimum THEN "insufficient"
     ELSE Direction(100 * delta, Larger(100 * TieMargin, Abs(early)), "improved", "declined")

\* planPersonalAgentAction: what a goal names decides, in this order.
PlanAction(goal, history) ==
  CASE history = "answered" -> "ask_history"
    [] "product" \in goal -> "record_product_outcome"
    [] "social" \in goal /\ "product" \notin goal -> "record_social_outcome"
    [] "reference" \in goal /\ goal \cap {"product", "social"} = {} -> "start_reference_comparison"
    [] goal = {} /\ history = "insufficient" -> "start_personal_experiment"
    [] OTHER -> "ask_history"

\* answerFromHistory: the documents that share a word with the question.
HistoryState(question, documents) ==
  IF \E d \in documents : d \cap question # {} THEN "answered" ELSE "insufficient"

-----------------------------------------------------------------------------
EvidenceInit == sample \in Collected /\ trend = <<>> /\ room = MaxSample

ObserveScore(key, score) ==
  /\ room > 0 /\ trend = <<>>
  /\ sample' = [sample EXCEPT ![key] = Append(@, score)]
  /\ room' = room - 1
  /\ UNCHANGED trend

ObserveMetric(value) ==
  /\ room > 0 /\ \A key \in Keys : sample[key] = <<>>
  /\ trend' = Append(trend, value)
  /\ room' = room - 1
  /\ UNCHANGED sample

EvidenceNext ==
  \/ \E key \in Keys, score \in Scores : ObserveScore(key, score)
  \/ \E value \in Metrics : ObserveMetric(value)

EvidenceSpec == EvidenceInit /\ [][EvidenceNext]_evidenceVars

-----------------------------------------------------------------------------
\* The exact comparison of two averages, multiplied by both lengths.
Lead(s, t) == Sum(s) * Len(t) - Sum(t) * Len(s)
Pairs(s, t) == Len(s) * Len(t)
Apart(s, t) == 4 * Abs(Lead(s, t)) > Pairs(s, t)
Ahead(s, t) == Apart(s, t) /\ Lead(s, t) > 0

\* All that rounding may do.  With many outcomes, it may overlook a lead that is beyond
\* the margin by a hundredth at most.  And a lead of just the margin may pass for one
\* beyond it, if both averages are ties and the doubles of one of them fall: that takes
\* a multiple of forty outcomes on both sides.
Overlooked(s, t) == Pairs(s, t) > 25 /\ 100 * Abs(Lead(s, t)) <= 26 * Pairs(s, t)
Forties(s, t) == Len(s) % 40 = 0 /\ Len(t) % 40 = 0
AtMargin(s, t) == 4 * Lead(s, t) = Pairs(s, t) /\ Forties(s, t)
Leads(s, t) == Ahead(s, t) \/ AtMargin(s, t)

\* What is said of s and t is what their true averages say.
Exact(verdict, s, t, up, down) ==
  \/ verdict = up /\ Leads(s, t)
  \/ verdict = down /\ Leads(t, s)
  \/ verdict = "tied" /\ (~Apart(s, t) \/ Overlooked(s, t))

Enough(s, t) == Len(s) >= 2 /\ Len(t) >= 2

ComparisonsAreExact ==
  LET a == sample["a"]
      b == sample["b"]
      pairs == IF Len(a) < Len(b) THEN Len(a) ELSE Len(b)
      self == SubSeq(a, 1, pairs)
      other == SubSeq(b, 1, pairs)
  IN /\ IF Enough(a, b)
        THEN /\ Exact(ExperimentVerdict(a, b), a, b, "favors_a", "favors_b")
             /\ Exact(ReferenceVerdict(self, other), self, other, "self_higher", "reference_higher")
             /\ Confidence(a, b) # "insufficient"
        ELSE "insufficient" = ExperimentVerdict(a, b)
             /\ "insufficient" = ReferenceVerdict(self, other)
             /\ "insufficient" = Confidence(a, b)

\* A product that works has a true average above 3.5, one that does not below 2.5; and
\* one is favored only if it works and is ahead of the other, if that has enough outcomes.
ProductsAreExact ==
  LET a == sample["a"]
      b == sample["b"]
      Works(s) == Len(s) >= 2 /\ 2 * Sum(s) > 7 * Len(s)
      Fails(s) == Len(s) >= 2 /\ 2 * Sum(s) < 5 * Len(s)
      Favored(s, t) == Works(s) /\ (Enough(s, t) => Leads(s, t))
  IN /\ \A s \in {a, b} :
          /\ ProductState(s) = "works" => Works(s)
          /\ ProductState(s) = "did_not_work" => Fails(s)
          /\ ProductState(s) = "mixed" /\ Len(s) <= 100 => ~Works(s) /\ ~Fails(s)
     /\ ProductLearning(sample) = "favors_product" => Favored(a, b) \/ Favored(b, a)

\* A trend says what the true averages of its halves say, and with all values turned
\* round, also across zero, an improvement is no improvement: a decline, as long as no
\* half has the eight values that make an average end on half a hundredth.
TrendsAreExact ==
  LET split == Len(trend) \div 2
      early == SubSeq(trend, 1, split)
      late == SubSeq(trend, split + 1, Len(trend))
      Turned(u, v) ==
        LET mirrored == SocialVerdict([i \in DOMAIN trend |-> 0 - trend[i]])
        IN SocialVerdict(trend) = u =>
             mirrored # u /\ (Len(trend) < 15 => mirrored = v)
  IN /\ SocialVerdict(trend) = "improved" => Leads(late, early)
     /\ SocialVerdict(trend) = "declined" => Leads(early, late)
     /\ Turned("improved", "declined")
     /\ Turned("declined", "improved")

\* Rounding doubles to hundredths decides nothing but leads within a hundredth of the
\* margin: one that is hardly beyond it may go unseen, and one of just the margin may be
\* taken for more with forties of outcomes.  All else that the evidence features conclude
\* is what exact arithmetic concludes, and too little evidence stays too little.
VerdictsAreExact == ComparisonsAreExact /\ ProductsAreExact /\ TrendsAreExact
=============================================================================
