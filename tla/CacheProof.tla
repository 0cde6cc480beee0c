----------------------------- MODULE CacheProof -----------------------------
(***************************************************************************)
(* proofs/p6_cache_savings.py against a live gateway: every pair of texts  *)
(* is embedded and scored, then sent through the gateway's semantic cache  *)
(* in a namespace of its own, then the likeliest pair is asked in other    *)
(* namespaces, and a report is made of the scores.  The gateway's cache is *)
(* external and modelled as its envelope shows it: a lookup among the      *)
(* entries of the request's system prompt, model and tenant, which an      *)
(* embedding failure may leave out (skipped_reason).                       *)
(***************************************************************************)
EXTENDS EquivalenceSweep

CONSTANTS
  TopScore,           \* similarity of a text with itself
  CacheThreshold,     \* threshold of cache.yaml
  Grid,               \* thresholds of the sweep
  Wanted,             \* pairs that are round-tripped (--live-pairs)
  Rungs,              \* models of the ladder
  Model,              \* the one of --tier, or of the first rung
  MaxFaults           \* bound: calls that fail or go without an embedding

ASSUME CacheAssumption ==
  /\ Pairs \subseteq Nat \ {0}
  /\ TopScore \in Nat /\ CacheThreshold \in 1..TopScore /\ Grid \in Seq(0..TopScore)
  /\ Wanted \subseteq Pairs /\ Model \in Rungs /\ MaxFaults \in Nat

(* What thresholds makes, and run sorts the configured threshold into. *)
ASSUME GridAssumption ==
  /\ Grid # << >>
  /\ \A j, k \in DOMAIN Grid : j <= k => Grid[j] <= Grid[k]

VARIABLES
  phase,   \* "score", "trips", "store", "cases", "report", "aborted"
  scored,  \* cosines of the pairs scored so far
  cold,    \* the pair whose cold call was answered and stored
  trips,   \* round trips: verdict of the warm call, or none on an error
  cases,   \* verdicts of the isolation cases asked so far
  table,   \* entries of the semantic cache
  skipped, \* namespaces where the gateway went without an embedding
  faults,
  other    \* model of the second rung, which --tier may have picked too

cache == <<table, skipped, faults>>
vars == <<phase, scored, cold, trips, cases, cache, other>>

NoPair == 0

\* Mutant of RoundTripSystem: the pair is left out of the nonce.
SharedSystem(p) == [run |-> "this run", use |-> "trip", pair |-> NoPair]

(* The system prompts of _round_trip and _namespace_isolation. *)
RoundTripSystem(p) == [run |-> "this run", use |-> "trip", pair |-> p]
IsolationSystem(p) == [run |-> "this run", use |-> "ns", pair |-> p]
CitingSystem(p) == [run |-> "this run", use |-> "ns, cite", pair |-> p]

(* A namespace: what the gateway tells entries apart by. *)
Namespace(system, model, tenant) == [system |-> system, model |-> model, tenant |-> tenant]
Base(system) == Namespace(system, Model, "tenant")

(* Earlier runs leave entries behind, in the namespaces of their nonces. *)
Leftover ==
  {[space |-> Base([RoundTripSystem(p) EXCEPT !.run = "earlier run"]), pair |-> p, side |-> "a"]
     : p \in Pairs}

(* Similarity of a prompt with an entry; of texts of two pairs nothing is  *)
(* known, so the worst is taken.                                           *)
Similarity(p, side, entry) ==
  IF entry.pair = p /\ entry.side # side THEN scored[p] ELSE TopScore

(* The gateway's lookup: the best entry of the namespace. *)
Lookup(space, p, side) ==
  Max({0} \cup {Similarity(p, side, e) : e \in {f \in table : f.space = space}})

Hits(space, p, side) == Lookup(space, p, side) >= CacheThreshold

(* _verdict *)
Verdict(space, p, side) == [hit |-> Hits(space, p, side), best |-> Lookup(space, p, side)]
NoLookup == [hit |-> FALSE, best |-> 0]
NoVerdict == [hit |-> FALSE, best |-> -1]

With(f, x, v) == [y \in DOMAIN f \cup {x} |-> IF y = x THEN v ELSE f[y]]

Stored(space, p, side) == table \cup {[space |-> space, pair |-> p, side |-> side]}

(* One chat with the cache on that comes back with v: served, or answered  *)
(* by the provider and stored.                                             *)
Consults(space, p, side, v) ==
  /\ v = Verdict(space, p, side)
  /\ table' = IF v.hit THEN table ELSE Stored(space, p, side)
  /\ UNCHANGED <<skipped, faults>>

Fault == faults < MaxFaults /\ faults' = faults + 1

(* The provider answers without an embedding: the lookup is skipped, or    *)
(* what missed is not stored.                                              *)
Skips(space, p, side, v) ==
  /\ Fault /\ skipped' = skipped \cup {space}
  /\ \/ v = NoLookup /\ table' \in {table, Stored(space, p, side)}
     \/ v = Verdict(space, p, side) /\ ~v.hit /\ UNCHANGED table

Replies(space, p, side, v) == Consults(space, p, side, v) \/ Skips(space, p, side, v)

(* What a chat may come back with. *)
Verdicts(space, p, side) == {Verdict(space, p, side), NoLookup}

(* The call raises: an HTTP error, a timeout or a lost connection, whether *)
(* the cache would have served it or not; the reply may have been stored.  *)
Fails(space, p, side) ==
  /\ Fault /\ UNCHANGED skipped
  /\ \/ UNCHANGED table
     \/ ~Hits(space, p, side) /\ table' = Stored(space, p, side)

Init ==
  /\ phase = "score" /\ scored = << >> /\ cold = NoPair
  /\ trips = << >> /\ cases = << >> /\ table = Leftover /\ skipped = {} /\ faults = 0
  /\ other \in Rungs

(* _score_pairs *)
Score ==
  /\ phase = "score"
  /\ \E p \in Pairs \ DOMAIN scored, s \in 0..TopScore :
       /\ \A q \in Pairs \ DOMAIN scored : p <= q
       /\ scored' = With(scored, p, s)
       /\ phase' = IF DOMAIN scored' = Pairs THEN "trips" ELSE "score"
  /\ UNCHANGED <<cold, trips, cases, cache>>

(* _round_trip: prompt a, then prompt b; a failed call ends the trip. *)
OnTrip(p) ==
  /\ phase = "trips" /\ p \in Wanted \ DOMAIN trips
  /\ \A q \in Wanted \ DOMAIN trips : p <= q

Cold(p) ==
  /\ OnTrip(p) /\ cold = NoPair
  /\ LET space == Base(RoundTripSystem(p))
     IN  \E v \in Verdicts(space, p, "a") : Replies(space, p, "a", v)
  /\ cold' = p
  /\ UNCHANGED <<phase, scored, trips, cases>>

Warm(p) ==
  /\ OnTrip(p) /\ cold = p
  /\ LET space == Base(RoundTripSystem(p))
     IN  \E v \in Verdicts(space, p, "b") :
           Replies(space, p, "b", v) /\ trips' = With(trips, p, v)
  /\ cold' = NoPair
  /\ UNCHANGED <<phase, scored, cases>>

TripFails(p) ==
  /\ OnTrip(p) /\ cold \in {NoPair, p}
  /\ Fails(Base(RoundTripSystem(p)), p, IF cold = p THEN "b" ELSE "a")
  /\ trips' = With(trips, p, NoVerdict)
  /\ cold' = NoPair
  /\ UNCHANGED <<phase, scored, cases>>

TripsDone ==
  /\ phase = "trips" /\ DOMAIN trips = Wanted
  /\ phase' = "store"
  /\ UNCHANGED <<scored, cold, trips, cases, cache>>

(* The pair of _namespace_isolation: the first of the likeliest ones. *)
Strongest ==
  Min({p \in Positive : \A q \in Positive : scored[q] <= scored[p]})

(* A is stored; a failure here is not caught and ends the measurement. *)
Store ==
  /\ phase = "store"
  /\ LET space == Base(IsolationSystem(Strongest))
     IN  \/ /\ \E v \in Verdicts(space, Strongest, "a") : Replies(space, Strongest, "a", v)
            /\ phase' = "cases"
         \/ Fails(space, Strongest, "a") /\ phase' = "aborted"
  /\ UNCHANGED <<scored, cold, trips, cases>>

\* Mutant of Space: the tenant of the request is not changed.
SpaceWithoutTenant(case) ==
  CASE case = 1 -> Base(IsolationSystem(Strongest))
    [] case = 2 -> Namespace(IsolationSystem(Strongest), other, "tenant")
    [] case = 3 -> Base(CitingSystem(Strongest))
    [] case = 4 -> Base(IsolationSystem(Strongest))

(* The cases: control, other model, other system prompt, other tenant. *)
Space(case) ==
  CASE case = 1 -> Base(IsolationSystem(Strongest))
    [] case = 2 -> Namespace(IsolationSystem(Strongest), other, "tenant")
    [] case = 3 -> Base(CitingSystem(Strongest))
    [] case = 4 -> Namespace(IsolationSystem(Strongest), Model, "other tenant")

(* B is asked in each; here a failed call is a case that did not hit. *)
Case ==
  /\ phase = "cases"
  /\ LET space == Space(Len(cases) + 1)
     IN  \/ \E v \in Verdicts(space, Strongest, "b") :
              Replies(space, Strongest, "b", v) /\ cases' = Append(cases, v)
         \/ /\ Fails(space, Strongest, "b")
            /\ cases' = Append(cases, NoVerdict)
  /\ phase' = IF Len(cases') = 4 THEN "report" ELSE "cases"
  /\ UNCHANGED <<scored, cold, trips>>

Next ==
  /\ \/ Score \/ TripsDone \/ Store \/ Case
     \/ \E p \in Wanted : Cold(p) \/ Warm(p) \/ TripFails(p)
  /\ UNCHANGED other

Spec == Init /\ [][Next]_vars

-----------------------------------------------------------------------------
(* The report. *)
Points == Sweep(scored, Grid)
Safest == Points[Best(Points)]

(* _finding: which sentence the report says, and of which thresholds. *)
Finding ==
  LET split == Separable(scored)
  IN  [says  |-> IF split.separable THEN "separable"
                 ELSE IF Safest.fp = 0 THEN "collision-free" ELSE "least bad",
       above |-> split.highest, below |-> split.lowest, at |-> Safest.threshold]

(* _savings: the positive pairs that were served. *)
Saved == {p \in DOMAIN trips \cap Positive : trips[p].hit}

Reported == phase = "report"

(* "The similarity reported for B is unambiguously B against A and not B   *)
(* against some other pair's prompt left in the shared table by an earlier *)
(* run" (_round_trip), and "a pair hits if and only if its cosine reaches  *)
(* the configured threshold" (_live_checks): whichever calls failed a trip *)
(* that came back never shows another similarity, and it shows B's, unless *)
(* the gateway went without an embedding in this very trip.                *)
WarmIsAgainstCold ==
  \A p \in DOMAIN trips : trips[p] # NoVerdict =>
    LET close == scored[p] >= CacheThreshold
        fresh == [hit |-> close, best |-> scored[p]]
    IN  /\ trips[p] \in {fresh, NoLookup}
        /\ p \in Saved => p \in Positive /\ close
        /\ Base(RoundTripSystem(p)) \notin skipped =>
             trips[p] = fresh /\ (p \in Saved <=> p \in Positive /\ close)

(* "Only the identical namespace may hit" (_namespace_isolation), though   *)
(* the control itself stores B when it misses, and a call that fails may   *)
(* leave its reply behind; the identical namespace is that of the control, *)
(* and of the other model when --tier picked that rung.  A control that    *)
(* came back hits exactly when the pair is close enough, unless the gateway*)
(* went without an embedding in its namespace.                             *)
OnlyTheSameNamespaceHits ==
  LET close == scored[Strongest] >= CacheThreshold
  IN  \A k \in DOMAIN cases :
        /\ cases[k].hit => (k = 1 /\ close) \/ (k = 2 /\ other = Model)
        /\ k = 1 /\ cases[k] # NoVerdict /\ Space(k) \notin skipped =>
             (cases[k].hit <=> close)

(* "Is there ANY threshold that admits every positive and no negative?"    *)
(* (separable): the report says so exactly when there is one, and then the *)
(* thresholds that do are those in the interval it names, and its upper end*)
(* ("A threshold anywhere in ..."); otherwise it says of the swept range   *)
(* "NO threshold ... reaches zero collisions" exactly when none does.      *)
SeparableMeansAThreshold ==
  LET safe(t) == \A p \in Pairs : scored[p] >= t <=> p \in Positive
      collides(t) == \E p \in Pairs \ Positive : scored[p] >= t
  IN  Reported =>
        /\ Finding.says = "separable" <=> \E t \in 0..TopScore : safe(t)
        /\ Finding.says = "separable" =>
             \A t \in 0..TopScore :
               safe(t) <=> t \in (Finding.above + 1)..(Finding.below - 1) \cup {Finding.below}
        /\ Finding.says = "least bad" => \A k \in DOMAIN Grid : collides(Grid[k])
        /\ Finding.says = "collision-free" => ~collides(Finding.at)

(* "Among thresholds with no false positive, the one that catches the most *)
(* paraphrases ... the higher one has more room" (best_operating); and if  *)
(* the pairs can be separated on the grid, it is a point that loses none.  *)
(* Each family by itself allows at least what the whole set allows, and if *)
(* collisions fall anywhere on the grid they fall at the knee.             *)
SafestIsSafe ==
  Reported =>
    /\ (\E k \in DOMAIN Points : Points[k].fp < Points[1].fp) =>
         Points[Knee(Points)].fp < Points[Knee(Points) - 1].fp
    /\ \A k \in DOMAIN Points : Points[k].fp = 0 =>
         /\ Safest.fp = 0 /\ Points[k].tp <= Safest.tp
         /\ Points[k].tp = Safest.tp => Points[k].threshold <= Safest.threshold
    /\ \A f \in Families :
         LET mine == Sweep(OfFamily(scored, f), Grid)
         IN  Safest.fp = 0 => mine[Best(mine)].fp = 0 /\ mine[Best(mine)].tp >= Safest.tp
=============================================================================
