---------------------------- MODULE MCCausalIntake ----------------------------
(***************************************************************************)
(* Small instances of CausalIntake for TLC: one run with two exact groups. *)
(***************************************************************************)
EXTENDS CausalIntake, TLC

CONSTANTS s1, s2, s3, x1, x2, g1, g2, r1, k1, k2, k3, k4, k5, k6, c1, c2, c3

RunOfGroup == [g \in Group |-> r1]

Observing(k, s, x, g, role) ==
    [kind |-> "observe", key |-> k, source |-> s, content |-> x, group |-> g,
     run |-> r1, role |-> role, deliveries |-> {}, related |-> {}]

Reporting(k, s, ds, rel) ==
    [kind |-> "outcome", key |-> k, source |-> s, content |-> x1, group |-> g1,
     run |-> r1, role |-> "outcome", deliveries |-> ds, related |-> rel]

Delivering(k) ==
    [kind |-> "delivery", key |-> k, source |-> s1, content |-> x1, group |-> Null,
     run |-> r1, role |-> "situation", deliveries |-> {}, related |-> {}]

Situation == Observing(k1, s1, x1, g1, "situation")
Act == Observing(k2, s2, x1, g1, "agent_act")

\* The same source without its binding, observed first.
ActUnbound == Observing(k3, s2, x1, Null, "agent_act")

\* Key k1 again for another source: a conflict of keys.
SituationOther == Observing(k1, s3, x1, g1, "situation")

\* The act with other content: a conflict of sources.
ActRewritten == Observing(k4, s2, x2, Null, "agent_act")

\* One source in both roles does not make an Episode.
ActOfSituation == Observing(k5, s1, x1, g1, "agent_act")

Delivery == Delivering(k6)
Outcome == Reporting(k1, s3, {}, {})

\* An Outcome that claims the delivery and names the act.
Attributed == Reporting(k2, s3, {k6}, {s2})

\* The act of another group of the run, of the same source.
ActElsewhere == Observing(k4, s2, x1, g2, "agent_act")

\* An outcome link without a report.
OutcomeLink == Observing(k6, s3, x1, g1, "outcome")

EpisodeRequests == {Situation, Act, ActUnbound, SituationOther, ActRewritten, ActOfSituation}
FeedbackRequests == {Situation, Act, Delivery, Outcome, Attributed, OutcomeLink,
                     ActElsewhere}
AllRequests == EpisodeRequests \cup FeedbackRequests

RaceRequests == {Situation, Act, ActUnbound, Delivery, Outcome}

Symmetry == Permutations(Caller)

=============================================================================
