----------------------- MODULE ReleaseResolverProofs -----------------------
(* Proofs about resolve_series for any set of calls.  What a state of the  *)
(* cover search stands for gives exact plans; what the rules can propose   *)
(* gives that the search keeps every strongest cover.                      *)
EXTENDS ReleaseResolver, FiniteSetTheorems, SequenceTheorems, WellFoundedInduction, TLAPS

(* A solution of a search state covers just what the state says.           *)
Sound(solution, covered, used) ==
  Apart(solution) /\ Covered(solution) = covered /\ Feeds(solution) = used

CoverSound(states) ==
  \A s \in DOMAIN states :
    /\ s = <<s[1], s[2]>>
    /\ \A solution \in states[s].solutions : Sound(solution, s[1], s[2])

ExactPlan(t, segs) == Apart(segs) /\ Desired(t) \ Covered(segs) \subseteq S(t).files

IInv ==
  /\ plans = [t \in Seasons |-> plans[t]]
  /\ CoverSound(cover)
  /\ MatchedIsExact
  /\ SourceHasOneSeason

\* Before any segment is taken the search holds the empty solution only.
LEMMA StartIsSound == CoverSound(StartStates)
BY DEF CoverSound, StartStates, Sound, Apart, Covered, Feeds

(* A solution grows by a segment that overlaps neither its episodes nor    *)
(* its sources.                                                            *)
LEMMA Grows ==
  ASSUME NEW solution, NEW item, NEW c, NEW u, Sound(solution, c, u),
         c \cap Destinations(item) = {}, u \cap Sources(item) = {}
  PROVE  Sound(solution \cup {item}, c \cup Destinations(item), u \cup Sources(item))
<1>1. \A seg \in solution : Destinations(seg) \subseteq c /\ Sources(seg) \subseteq u
  BY DEF Sound, Covered, Feeds
<1>2. Apart(solution \cup {item})
  <2> SUFFICES ASSUME NEW a \in solution \cup {item}, NEW b \in solution \cup {item}, a # b
               PROVE  Destinations(a) \cap Destinations(b) = {} /\ Sources(a) \cap Sources(b) = {}
    BY DEF Apart
  <2>1. CASE a \in solution /\ b \in solution
    BY <2>1 DEF Sound, Apart
  <2>2. CASE a = item \/ b = item
    BY <2>2, <1>1
  <2> QED
    BY <2>1, <2>2
<1>3. Covered(solution \cup {item}) = c \cup Destinations(item)
  BY DEF Sound, Covered
<1>4. Feeds(solution \cup {item}) = u \cup Sources(item)
  BY DEF Sound, Feeds
<1> QED
  BY <1>2, <1>3, <1>4 DEF Sound

\* Taking a segment keeps every state true to its solutions.
LEMMA ExtendIsSound ==
  ASSUME NEW states, NEW item, CoverSound(states)
  PROVE  CoverSound(Extend(states, item))
<1> DEFINE new == {<<s[1] \cup Destinations(item), s[2] \cup Sources(item)>> : s \in Open(states, item)}
<1>1. ASSUME NEW s \in new
      PROVE  /\ s = <<s[1], s[2]>>
             /\ \A solution \in Extended(states, item, s).solutions : Sound(solution, s[1], s[2])
  <2>1. PICK o \in Open(states, item) :
          s = <<o[1] \cup Destinations(item), o[2] \cup Sources(item)>>
    BY <1>1
  <2>2. /\ o \in DOMAIN states /\ o = <<o[1], o[2]>>
        /\ o[1] \cap Destinations(item) = {} /\ o[2] \cap Sources(item) = {}
    BY DEF Open, CoverSound
  <2>3. o = <<s[1] \ Destinations(item), s[2] \ Sources(item)>>
    BY <2>1, <2>2
  <2>4. ASSUME NEW solution \in Extended(states, item, s).solutions
        PROVE  Sound(solution, s[1], s[2])
    <3>1. PICK from \in states[o].solutions : solution = from \cup {item}
      BY <2>3, <2>4 DEF Extended
    <3>2. Sound(from, o[1], o[2])
      BY <2>2, <3>1 DEF CoverSound
    <3> QED
      BY <2>1, <2>2, <3>1, <3>2, Grows
  <2> QED
    BY <2>1, <2>4
<1>2. ASSUME NEW a, NEW b, NEW x, x \in Better(a, b).solutions
      PROVE  x \in a.solutions \/ x \in b.solutions
  BY <1>2 DEF Better
<1> SUFFICES ASSUME NEW s \in DOMAIN states \cup new
             PROVE  /\ s = <<s[1], s[2]>>
                    /\ \A solution \in Extend(states, item)[s].solutions : Sound(solution, s[1], s[2])
  BY DEF CoverSound, Extend
<1>3. CASE s \notin new
  BY <1>3 DEF CoverSound, Extend
<1>4. CASE s \in new /\ s \notin DOMAIN states
  BY <1>1, <1>4 DEF Extend
<1>5. CASE s \in new /\ s \in DOMAIN states
  <2>1. Extend(states, item)[s] = Better(states[s], Extended(states, item, s))
    BY <1>5 DEF Extend
  <2> QED
    BY <1>1, <1>2, <1>5, <2>1 DEF CoverSound
<1> QED
  BY <1>3, <1>4, <1>5

\* A completed solution covers all that is wanted, once.
LEMMA CompletedIsExact ==
  ASSUME NEW t, CoverSound(cover), NEW x \in Completed(t)
  PROVE  ExactPlan(t, x)
BY DEF Completed, CoverSound, Sound, ExactPlan

(* What is selected is a completed solution, or one release whose holes    *)
(* Sonarr has files for.                                                   *)
LEMMA SelectedIsExact ==
  ASSUME NEW t, CoverSound(cover), PlanOf(t, Strongest(Completed(t))).status = "matched"
  PROVE  ExactPlan(t, PlanOf(t, Strongest(Completed(t))).segments)
<1> DEFINE solutions == Strongest(Completed(t))
           chosen == Preferred(solutions)
           ready == ReadyItems(t)
           blocked == GapItems(t) \ ready
<1>1. chosen \subseteq Completed(t)
  BY DEF Preferred, Strongest
<1>2. CASE chosen # {}
  <2>1. PlanOf(t, solutions) = Matched(CHOOSE s \in chosen : TRUE)
    BY <1>2 DEF PlanOf
  <2> QED
    BY <1>1, <1>2, <2>1, CompletedIsExact DEF Matched
<1>3. CASE chosen = {} /\ solutions = {} /\ Single(ready)
  <2>1. PlanOf(t, solutions) = Matched(ready)
    BY <1>3 DEF PlanOf
  <2>2. PICK seg \in ready : ready = {seg}
    BY <1>3 DEF Single
  <2>3. Desired(t) \ Destinations(seg) \subseteq S(t).files
    BY <2>2 DEF ReadyItems
  <2>4. Apart(ready) /\ Covered(ready) = Destinations(seg)
    BY <2>2 DEF Apart, Covered
  <2> QED
    BY <2>1, <2>3, <2>4 DEF Matched, ExactPlan
<1>4. CASE chosen = {} /\ ~(solutions = {} /\ Single(ready))
  <2>1. Unselected(t, solutions).status = "needs_review"
    BY DEF Unselected, Review
  <2>2. PlanOf(t, solutions).status = "needs_review"
    BY <1>4, <2>1 DEF PlanOf, Review
  <2> QED
    BY <2>2
<1> QED
  BY <1>2, <1>3, <1>4

\* Recording the plan of a season keeps every matched plan exact.
LEMMA ResolvedIsExact ==
  ASSUME IInv, NEW plan, Resolved(plan), UNCHANGED case,
         plan.status = "matched" => ExactPlan(turn, plan.segments)
  PROVE  plans' = [t \in Seasons |-> plans'[t]] /\ MatchedIsExact' /\ SourceHasOneSeason'
<1>1. plans' = [plans EXCEPT ![turn] = plan] /\ phase' # "done"
  BY DEF Resolved
<1>2. plans' = [t \in Seasons |-> IF t = turn THEN plan ELSE plans[t]]
  BY <1>1 DEF IInv
<1> QED
  BY <1>1, <1>2 DEF IInv, MatchedIsExact, ExactPlan, SourceHasOneSeason, Seasons, S, Desired

(* What the search may hold and what was planned from it, held together.   *)
LEMMA ResolvedSafely == Spec => []IInv
<1>1. Init => IInv
  <2> SUFFICES ASSUME Init PROVE IInv
    OBVIOUS
  <2>1. plans = [t \in Seasons |-> NoPlan] /\ phase # "done" /\ cover = StartStates
    BY DEF Init
  <2>2. \A t \in Seasons : plans[t].status # "matched"
    BY <2>1 DEF NoPlan
  <2> QED
    BY <2>1, <2>2, StartIsSound DEF IInv, MatchedIsExact, SourceHasOneSeason
<1>2. IInv /\ [Next]_vars => IInv'
  <2> SUFFICES ASSUME IInv, [Next]_vars PROVE IInv'
    OBVIOUS
  <2> USE DEF IInv
  <2>1. ASSUME UNCHANGED <<case, plans, cover>>, phase' # "done" PROVE IInv'
    BY <2>1 DEF MatchedIsExact, SourceHasOneSeason, Desired, Seasons, S
  <2>2. CASE Group
    BY <2>1, <2>2 DEF Group
  <2>3. CASE ProposeByRules
    BY <2>1, <2>3 DEF ProposeByRules
  <2>4. CASE ProposeBySeries
    BY <2>1, <2>4 DEF ProposeBySeries
  <2>5. CASE StartCover
    <3>1. CoverSound(cover)'
      BY <2>5, StartIsSound DEF StartCover
    <3> QED
      BY <2>5, <3>1 DEF StartCover, MatchedIsExact, SourceHasOneSeason, Desired, Seasons, S
  <2>6. CASE CoverItem
    <3>1. CoverSound(cover)'
      BY <2>6, ExtendIsSound DEF CoverItem
    <3>2. CASE Held(cover') > StateLimit
      <4>1. Resolved(Review({}, "candidate_overflow")) /\ UNCHANGED case
        BY <2>6, <3>2 DEF CoverItem
      <4>2. Review({}, "candidate_overflow").status # "matched"
        BY DEF Review
      <4>3. plans' = [t \in Seasons |-> plans'[t]] /\ MatchedIsExact' /\ SourceHasOneSeason'
        BY <4>1, <4>2, ResolvedIsExact
      <4> QED
        BY <3>1, <4>1, <4>3 DEF Seasons
    <3>3. CASE ~(Held(cover') > StateLimit)
      <4>1. UNCHANGED <<case, plans, phase>>
        BY <2>6, <3>3 DEF CoverItem
      <4> QED
        BY <3>1, <4>1 DEF MatchedIsExact, SourceHasOneSeason, Desired, Seasons, S, Used
    <3> QED
      BY <3>2, <3>3
  <2>7. CASE Select
    <3>1. Resolved(PlanOf(turn, Strongest(Completed(turn)))) /\ UNCHANGED <<case, cover>>
      BY <2>7 DEF Select
    <3>2. LET plan == PlanOf(turn, Strongest(Completed(turn)))
          IN  plan.status = "matched" => ExactPlan(turn, plan.segments)
      BY SelectedIsExact
    <3>3. plans' = [t \in Seasons |-> plans'[t]] /\ MatchedIsExact' /\ SourceHasOneSeason'
      BY <3>1, <3>2, ResolvedIsExact
    <3> QED
      BY <3>1, <3>3 DEF Seasons
  <2>8. CASE Collide
    <3>1. /\ plans' = [t \in Seasons |-> IF t \in Colliding
                         THEN Review({}, "duplicate_url_across_seasons") ELSE plans[t]]
          /\ UNCHANGED <<case, cover>>
      BY <2>8 DEF Collide
    <3>2. MatchedIsExact'
      <4> SUFFICES ASSUME NEW t \in Seasons, plans'[t].status = "matched"
                   PROVE  plans'[t] = plans[t] /\ plans[t].status = "matched"
        BY <3>1 DEF MatchedIsExact, Desired, Seasons, S
      <4> QED
        BY <3>1 DEF Review
    <3>3. SourceHasOneSeason'
      <4> SUFFICES ASSUME NEW t \in Seasons, NEW u \in Seasons, t # u
                   PROVE  Used(t)' \cap Used(u)' = {}
        BY <3>1 DEF SourceHasOneSeason, Seasons
      <4>1. ASSUME NEW v \in Seasons, v \in Colliding PROVE Used(v)' = {}
        BY <3>1, <4>1 DEF Used, Review
      <4>2. ASSUME NEW v \in Seasons, v \notin Colliding PROVE Used(v)' = Used(v)
        BY <3>1, <4>2 DEF Used
      <4>3. CASE t \notin Colliding /\ u \notin Colliding
        BY <4>2, <4>3 DEF Colliding
      <4> QED
        BY <4>1, <4>3
    <3> QED
      BY <3>1, <3>2, <3>3 DEF Seasons
  <2>9. CASE UNCHANGED vars
    BY <2>9 DEF vars, MatchedIsExact, SourceHasOneSeason, Desired, Seasons, S, Used
  <2> QED
    BY <2>2, <2>3, <2>4, <2>5, <2>6, <2>7, <2>8, <2>9 DEF Next
<1> QED
  BY <1>1, <1>2, PTL DEF Spec

(* At every moment of the search, and whatever the rules propose: the      *)
(* segments of each solution it keeps overlap neither in their episodes    *)
(* nor in their sources, and cover and feed on just what their state says, *)
(* though solutions of other segments were merged into it                  *)
(* (best_exact_covers).                                                    *)
THEOREM StatesAreSound == Spec => []CoverSound(cover)
<1>1. IInv => CoverSound(cover)
  BY DEF IInv
<1> QED
  BY <1>1, ResolvedSafely, PTL

(* Whatever the rules propose, a season is matched only by segments that   *)
(* cover what is wanted, once each (MatchedIsExact).                       *)
THEOREM MatchingIsExact == Spec => []MatchedIsExact
<1>1. IInv => MatchedIsExact
  BY DEF IInv
<1> QED
  BY <1>1, ResolvedSafely, PTL

(* When the call returns no two seasons have a source episode in common    *)
(* (SourceHasOneSeason).                                                   *)
THEOREM SourcesAreNotShared == Spec => []SourceHasOneSeason
<1>1. IInv => SourceHasOneSeason
  BY DEF IInv
<1> QED
  BY <1>1, ResolvedSafely, PTL

-----------------------------------------------------------------------------
(* The search keeps the strongest covers                                   *)

State(x) == <<Covered(x), Feeds(x)>>

Entry(score, solutions) == [score |-> score, solutions |-> solutions]

(* A state of the search stands for solutions made of what was taken, all  *)
(* as strong as its score says.                                            *)
IsEntry(e) == e = Entry(e.score, e.solutions) /\ e.score \in 3 .. 10

Meant(e, taken) ==
  /\ IsEntry(e)
  /\ e.solutions # {}
  /\ \A x \in e.solutions : x \subseteq taken /\ Quality(x) = e.score

Reaching(states, taken) == \A s \in DOMAIN states : Meant(states[s], taken)

Ways(taken) == {x \in SUBSET taken : Apart(x)}

(* Nothing that was taken makes a stronger solution than the state's.      *)
Dominates(states, taken) ==
  \A x \in Ways(taken) : State(x) \in DOMAIN states /\ Quality(x) <= states[State(x)].score

(* Every solution as strong as the state's that later segments may still   *)
(* complete is kept.                                                       *)
KeepsTies(states, taken, t) ==
  \A x \in Ways(taken) :
    Gapless(t, x) /\ Quality(x) = states[State(x)].score => x \in states[State(x)].solutions

(* No episode of b is before the first of a.                               *)
NotAfter(a, b) == \A e \in Destinations(b) : \E d \in Destinations(a) : d <= e
Ordered(taken, rest) == \A a \in taken, b \in rest : NotAfter(a, b)

PartsAgreeAt(t) ==
  \A x, y \in Parts(t) : State(x) = State(y) => Quality(x) = Quality(y)

SearchInv ==
  phase = "cover" =>
    LET taken == Fitting(turn) \ left IN
    /\ left \subseteq Fitting(turn)
    /\ Reaching(cover, taken)
    /\ Dominates(cover, taken)
    /\ Ordered(taken, left)
    /\ PartsAgreeAt(turn) => KeepsTies(cover, taken, turn)

(* The least of some ranks is one of them and below the others.            *)
LEMMA LeastRank ==
  ASSUME NEW ranks \in SUBSET (3 .. 10), ranks # {}
  PROVE  Min(ranks) \in ranks /\ \A r \in ranks : Min(ranks) <= r
<1>1. \E m \in ranks : \A r \in ranks : m <= r
  <2>1. PICK a \in ranks : TRUE
    OBVIOUS
  <2>2. \A i \in 3 .. 10 : i \in ranks => i \in Int
    OBVIOUS
  <2>3. \/ 3 \in ranks
        \/ 3 \notin ranks /\ 4 \in ranks
        \/ {3, 4} \cap ranks = {} /\ 5 \in ranks
        \/ {3, 4, 5} \cap ranks = {} /\ 6 \in ranks
        \/ {3, 4, 5, 6} \cap ranks = {} /\ 7 \in ranks
        \/ {3, 4, 5, 6, 7} \cap ranks = {} /\ 8 \in ranks
        \/ {3, 4, 5, 6, 7, 8} \cap ranks = {} /\ 9 \in ranks
        \/ {3, 4, 5, 6, 7, 8, 9} \cap ranks = {} /\ 10 \in ranks
    BY <2>1
  <2> QED
    BY <2>3
<1> QED
  BY <1>1 DEF Min

\* The ranks of the bases.
LEMMA RankIs == ASSUME NEW basis PROVE Rank(basis) \in 3 .. 6
BY DEF Rank

(* A solution is as strong as its weakest segment.                         *)
LEMMA QualityIs ==
  ASSUME NEW x
  PROVE  /\ Quality(x) \in 3 .. 10
         /\ Quality(x) \in {Rank(seg.basis) : seg \in x} \cup {10}
         /\ \A seg \in x : Quality(x) <= Rank(seg.basis)
<1> DEFINE ranks == {Rank(seg.basis) : seg \in x} \cup {10}
<1>1. ranks \in SUBSET (3 .. 10) /\ ranks # {}
  BY RankIs
<1>2. Quality(x) = Min(ranks)
  BY DEF Quality
<1>3. \A seg \in x : Rank(seg.basis) \in ranks
  OBVIOUS
<1> HIDE DEF ranks
<1>4. Min(ranks) \in ranks /\ \A r \in ranks : Min(ranks) <= r
  BY <1>1, LeastRank
<1> QED
  BY <1>1, <1>2, <1>3, <1>4 DEF ranks

\* One more segment is as weak as the weaker of the two.
LEMMA QualityOfMore ==
  ASSUME NEW x, NEW item
  PROVE  Quality(x \cup {item}) = Min({Quality(x), Rank(item.basis)})
<1> DEFINE more == x \cup {item}
           q == Quality(x)
           r == Rank(item.basis)
<1>1. q \in 3 .. 10 /\ r \in 3 .. 6
  BY QualityIs, RankIs
<1>2. Min({q, r}) \in {q, r} /\ Min({q, r}) <= q /\ Min({q, r}) <= r
  BY <1>1, LeastRank, {q, r} \in SUBSET (3 .. 10), {q, r} # {}
<1>3. /\ Quality(more) \in 3 .. 10
      /\ Quality(more) = 10 \/ \E seg \in more : Quality(more) = Rank(seg.basis)
      /\ \A seg \in more : Quality(more) <= Rank(seg.basis)
  BY QualityIs
<1>4. /\ q = 10 \/ \E seg \in x : q = Rank(seg.basis)
      /\ \A seg \in x : q <= Rank(seg.basis)
  BY QualityIs
<1>5. item \in more /\ \A seg \in more : seg = item \/ seg \in x
  OBVIOUS
<1>6. Quality(more) <= r
  BY <1>3, <1>5
<1>7. Quality(more) <= q
  BY <1>1, <1>3, <1>4
<1>8. Quality(more) >= q \/ Quality(more) >= r
  BY <1>1, <1>3, <1>4, <1>5
<1> QED
  BY <1>1, <1>2, <1>3, <1>6, <1>7, <1>8
-----------------------------------------------------------------------------
(* One more segment                                                        *)

(* The solutions of a state with the segment added.                        *)
Grown(from, item) ==
  Entry(Min({from.score, Rank(item.basis)}), {solution \cup {item} : solution \in from.solutions})

After(s, item) == <<s[1] \cup Destinations(item), s[2] \cup Sources(item)>>

(* The state that grew can be read off the grown one.                      *)
LEMMA ExtendedIsGrown ==
  ASSUME NEW states, NEW item, CoverSound(states), NEW o \in Open(states, item)
  PROVE  Extended(states, item, After(o, item)) = Grown(states[o], item)
<1>1. /\ o = <<o[1], o[2]>>
      /\ o[1] \cap Destinations(item) = {} /\ o[2] \cap Sources(item) = {}
  BY DEF Open, CoverSound
<1>2. o = <<After(o, item)[1] \ Destinations(item), After(o, item)[2] \ Sources(item)>>
  BY <1>1 DEF After
<1> QED
  BY <1>2 DEF Extended, Grown, Entry

(* What a state holds after a segment was taken: what it held, what one    *)
(* open state grew to, or the better of the two.                           *)
LEMMA ExtendAt ==
  ASSUME NEW states, NEW item, CoverSound(states), NEW s \in DOMAIN Extend(states, item)
  PROVE  \/ /\ s \in DOMAIN states /\ Extend(states, item)[s] = states[s]
            /\ \A o \in Open(states, item) : s # After(o, item)
         \/ \E o \in Open(states, item) :
              /\ s = After(o, item)
              /\ \/ s \notin DOMAIN states /\ Extend(states, item)[s] = Grown(states[o], item)
                 \/ /\ s \in DOMAIN states
                    /\ Extend(states, item)[s] = Better(states[s], Grown(states[o], item))
<1> DEFINE new == {After(o, item) : o \in Open(states, item)}
<1>1. Extend(states, item) =
        [x \in DOMAIN states \cup new |->
           IF x \notin new THEN states[x]
           ELSE IF x \in DOMAIN states THEN Better(states[x], Extended(states, item, x))
           ELSE Extended(states, item, x)]
  BY DEF Extend, After
<1>2. CASE s \notin new
  BY <1>1, <1>2
<1>3. CASE s \in new
  <2>1. PICK o \in Open(states, item) : s = After(o, item)
    BY <1>3
  <2>2. Extended(states, item, s) = Grown(states[o], item)
    BY <2>1, ExtendedIsGrown
  <2> QED
    BY <1>1, <1>3, <2>1, <2>2
<1> QED
  BY <1>2, <1>3

\* No state is lost when a segment is taken.
LEMMA ExtendKeepsStates ==
  ASSUME NEW states, NEW item
  PROVE  /\ DOMAIN states \subseteq DOMAIN Extend(states, item)
         /\ \A o \in Open(states, item) : After(o, item) \in DOMAIN Extend(states, item)
BY DEF Extend, After

(* The better of two entries keeps the solutions of the higher score, of   *)
(* both when they are equal.                                               *)
LEMMA BetterIs ==
  ASSUME NEW p \in 3 .. 10, NEW q \in 3 .. 10, NEW xs, NEW ys
  PROVE  LET best == Better(Entry(p, xs), Entry(q, ys)) IN
         \/ p > q /\ best = Entry(p, xs)
         \/ p < q /\ best = Entry(q, ys)
         \/ p = q /\ best = Entry(p, xs \cup ys)
<1> DEFINE a == Entry(p, xs)
           b == Entry(q, ys)
<1>1. a.score = p /\ a.solutions = xs /\ b.score = q /\ b.solutions = ys
  BY DEF Entry
<1>2. p = q => Better(a, b) = Entry(p, xs \cup ys)
  <2>1. p = q => Better(a, b) = [a EXCEPT !.solutions = xs \cup ys]
    BY <1>1 DEF Better
  <2>2. ASSUME NEW zs PROVE [[score |-> p, solutions |-> xs] EXCEPT !.solutions = zs]
                              = [score |-> p, solutions |-> zs]
    OBVIOUS
  <2> QED
    BY <2>1, <2>2 DEF Entry
<1>3. p > q => Better(a, b) = a
  BY <1>1 DEF Better
<1>4. p < q => Better(a, b) = b
  BY <1>1 DEF Better
<1> QED
  BY <1>2, <1>3, <1>4

(* A grown entry is what its name says of its solutions.                   *)
LEMMA GrownIsReached ==
  ASSUME NEW states, NEW taken, NEW item, Reaching(states, taken), NEW s \in DOMAIN states
  PROVE  Meant(Grown(states[s], item), taken \cup {item})
<1> DEFINE score == Min({states[s].score, Rank(item.basis)})
           grown == Grown(states[s], item)
<1>1. states[s].score \in 3 .. 10 /\ Rank(item.basis) \in 3 .. 10
  BY RankIs DEF Reaching, Meant, IsEntry
<1>2. score \in 3 .. 10
  BY <1>1, LeastRank, {states[s].score, Rank(item.basis)} \in SUBSET (3 .. 10)
<1>3. grown.score = score /\ grown.solutions = {x \cup {item} : x \in states[s].solutions}
  BY DEF Grown, Entry
<1>4. grown = Entry(grown.score, grown.solutions)
  BY DEF Grown, Entry
<1>5. ASSUME NEW x \in grown.solutions
      PROVE  x \subseteq taken \cup {item} /\ Quality(x) = score
  <2>1. PICK y \in states[s].solutions : x = y \cup {item}
    BY <1>3
  <2>2. y \subseteq taken /\ Quality(y) = states[s].score
    BY DEF Reaching, Meant, IsEntry
  <2> QED
    BY <2>1, <2>2, QualityOfMore
<1>6. grown.solutions # {}
  <2>1. PICK y \in states[s].solutions : TRUE
    BY DEF Reaching, Meant, IsEntry
  <2>2. y \cup {item} \in grown.solutions
    BY <1>3
  <2> QED
    BY <2>2
<1> QED
  BY <1>2, <1>3, <1>4, <1>5, <1>6 DEF Meant, IsEntry

\* Every state still stands for solutions made of what was taken.
LEMMA ExtendReaching ==
  ASSUME NEW states, NEW taken, NEW item, CoverSound(states), Reaching(states, taken)
  PROVE  Reaching(Extend(states, item), taken \cup {item})
<1> DEFINE next == Extend(states, item)
           Fine(e) == Meant(e, taken \cup {item})
<1>1. \A s \in DOMAIN states : Fine(states[s])
  BY DEF Reaching, Meant
<1>2. \A o \in Open(states, item) : Fine(Grown(states[o], item))
  <2> SUFFICES ASSUME NEW o \in Open(states, item) PROVE Fine(Grown(states[o], item))
    OBVIOUS
  <2>1. o \in DOMAIN states
    BY DEF Open
  <2> QED
    BY <2>1, GrownIsReached
<1>3. ASSUME NEW a, NEW b, Fine(a), Fine(b) PROVE Fine(Better(a, b))
  <2>1. /\ a = Entry(a.score, a.solutions) /\ b = Entry(b.score, b.solutions)
        /\ a.score \in 3 .. 10 /\ b.score \in 3 .. 10
    BY <1>3 DEF Meant, IsEntry
  <2>2. \/ Better(a, b) = a
        \/ Better(a, b) = b
        \/ a.score = b.score /\ Better(a, b) = Entry(a.score, a.solutions \cup b.solutions)
    BY <2>1, BetterIs
  <2>3. CASE a.score = b.score /\ Better(a, b) = Entry(a.score, a.solutions \cup b.solutions)
    <3>1. Better(a, b).score = a.score /\ Better(a, b).solutions = a.solutions \cup b.solutions
      BY <2>3 DEF Entry
    <3> QED
      BY <1>3, <2>3, <3>1 DEF Meant, IsEntry
  <2> QED
    BY <1>3, <2>2, <2>3
<1> SUFFICES ASSUME NEW s \in DOMAIN next PROVE Fine(next[s])
  BY DEF Reaching
<1> HIDE DEF Fine
<1> QED
  BY <1>1, <1>2, <1>3, ExtendAt

(* The way of a state's taken segments, without the one just taken.        *)
LEMMA WayWithout ==
  ASSUME NEW taken, NEW item, NEW x \in Ways(taken \cup {item}), item \in x
  PROVE  /\ x \ {item} \in Ways(taken)
         /\ x = (x \ {item}) \cup {item}
         /\ Covered(x \ {item}) \cap Destinations(item) = {}
         /\ Feeds(x \ {item}) \cap Sources(item) = {}
         /\ State(x) = After(State(x \ {item}), item)
<1>1. x \subseteq taken \cup {item} /\ Apart(x)
  BY DEF Ways
<1>2. x \ {item} \in Ways(taken)
  BY <1>1 DEF Ways, Apart
<1>3. \A seg \in x \ {item} :
        Destinations(seg) \cap Destinations(item) = {} /\ Sources(seg) \cap Sources(item) = {}
  BY <1>1 DEF Apart
<1>4. Covered(x) = Covered(x \ {item}) \cup Destinations(item)
  BY DEF Covered
<1>5. Feeds(x) = Feeds(x \ {item}) \cup Sources(item)
  BY DEF Feeds
<1>6. State(x) = After(State(x \ {item}), item)
  BY <1>4, <1>5 DEF State, After
<1> QED
  BY <1>2, <1>3, <1>6 DEF Covered, Feeds

\* What a way was before its last segment is a state that may take it.
LEMMA WayIsOpen ==
  ASSUME NEW states, NEW taken, NEW item, Dominates(states, taken),
         NEW x \in Ways(taken \cup {item}), item \in x
  PROVE  State(x \ {item}) \in Open(states, item)
<1>. /\ x \ {item} \in Ways(taken)
     /\ Covered(x \ {item}) \cap Destinations(item) = {}
     /\ Feeds(x \ {item}) \cap Sources(item) = {}
  BY WayWithout
<1>1. State(x \ {item}) \in DOMAIN states
  BY DEF Dominates
<1>2. /\ State(x \ {item})[1] = Covered(x \ {item})
      /\ State(x \ {item})[2] = Feeds(x \ {item})
  BY DEF State
<1> QED
  BY <1>1, <1>2 DEF Open

(* What an open state grew to is held, alone or with what was there.       *)
LEMMA ExtendAtGrown ==
  ASSUME NEW states, NEW item, CoverSound(states), NEW o \in Open(states, item)
  PROVE  LET s == After(o, item) IN
         /\ s \in DOMAIN Extend(states, item)
         /\ \/ s \notin DOMAIN states /\ Extend(states, item)[s] = Grown(states[o], item)
            \/ /\ s \in DOMAIN states
               /\ Extend(states, item)[s] = Better(states[s], Grown(states[o], item))
<1> DEFINE s == After(o, item)
<1>1. s \in DOMAIN Extend(states, item)
  BY ExtendKeepsStates
<1>2. ASSUME NEW p \in Open(states, item), s = After(p, item) PROVE p = o
  <2>1. /\ o = <<o[1], o[2]>> /\ p = <<p[1], p[2]>>
        /\ o[1] \cap Destinations(item) = {} /\ o[2] \cap Sources(item) = {}
        /\ p[1] \cap Destinations(item) = {} /\ p[2] \cap Sources(item) = {}
    BY DEF Open, CoverSound
  <2>2. /\ o[1] \cup Destinations(item) = p[1] \cup Destinations(item)
        /\ o[2] \cup Sources(item) = p[2] \cup Sources(item)
    BY <1>2 DEF After
  <2>3. o[1] = p[1]
    BY <2>1, <2>2
  <2>4. o[2] = p[2]
    BY <2>1, <2>2
  <2> QED
    BY <2>1, <2>3, <2>4
<1> QED
  BY <1>1, <1>2, ExtendAt

(* The better of two entries is as strong as either, and keeps the         *)
(* solutions of each that is as strong as it.                              *)
LEMMA BetterKeeps ==
  ASSUME NEW a, NEW b, IsEntry(a), IsEntry(b)
  PROVE  LET best == Better(a, b) IN
         /\ best.score \in 3 .. 10 /\ a.score <= best.score /\ b.score <= best.score
         /\ a.score = best.score => a.solutions \subseteq best.solutions
         /\ b.score = best.score => b.solutions \subseteq best.solutions
<1>1. \/ a.score > b.score /\ Better(a, b) = a
      \/ a.score < b.score /\ Better(a, b) = b
      \/ a.score = b.score /\ Better(a, b) = Entry(a.score, a.solutions \cup b.solutions)
  BY BetterIs DEF IsEntry
<1>2. CASE a.score = b.score /\ Better(a, b) = Entry(a.score, a.solutions \cup b.solutions)
  <2>1. Better(a, b).score = a.score /\ Better(a, b).solutions = a.solutions \cup b.solutions
    BY <1>2 DEF Entry
  <2> QED
    BY <1>2, <2>1 DEF IsEntry
<1> QED
  BY <1>1, <1>2 DEF IsEntry

(* A state that was held is never weaker afterwards, and loses none of its *)
(* solutions while it is as strong as before.                              *)
LEMMA HeldStays ==
  ASSUME NEW states, NEW taken, NEW item, CoverSound(states), Reaching(states, taken),
         NEW s \in DOMAIN states
  PROVE  LET next == Extend(states, item) IN
         /\ s \in DOMAIN next
         /\ next[s].score \in 3 .. 10 /\ states[s].score <= next[s].score
         /\ states[s].score = next[s].score => states[s].solutions \subseteq next[s].solutions
<1> DEFINE next == Extend(states, item)
<1>1. s \in DOMAIN next
  BY ExtendKeepsStates
<1>2. IsEntry(states[s])
  BY DEF Reaching, Meant
<1>3. CASE next[s] = states[s]
  BY <1>1, <1>2, <1>3 DEF IsEntry
<1>4. ASSUME NEW o \in Open(states, item), next[s] = Better(states[s], Grown(states[o], item))
      PROVE  /\ next[s].score \in 3 .. 10 /\ states[s].score <= next[s].score
             /\ states[s].score = next[s].score => states[s].solutions \subseteq next[s].solutions
  <2> DEFINE grown == Grown(states[o], item)
  <2>1. o \in DOMAIN states
    BY DEF Open
  <2>2. IsEntry(grown)
    BY <2>1, GrownIsReached DEF Meant
  <2> HIDE DEF grown
  <2> QED
    BY <1>2, <1>4, <2>2, BetterKeeps DEF grown
<1> QED
  BY <1>1, <1>3, <1>4, ExtendAt

(* The same of what an open state grew to.                                 *)
LEMMA GrownStays ==
  ASSUME NEW states, NEW taken, NEW item, CoverSound(states), Reaching(states, taken),
         NEW o \in Open(states, item)
  PROVE  LET next == Extend(states, item)
             s == After(o, item)
             grown == Grown(states[o], item)
         IN  /\ s \in DOMAIN next
             /\ next[s].score \in 3 .. 10 /\ grown.score <= next[s].score
             /\ grown.score = next[s].score => grown.solutions \subseteq next[s].solutions
<1> DEFINE next == Extend(states, item)
           s == After(o, item)
           grown == Grown(states[o], item)
<1>1. o \in DOMAIN states
  BY DEF Open
<1>2. IsEntry(grown)
  BY <1>1, GrownIsReached DEF Meant
<1>3. /\ s \in DOMAIN next
      /\ \/ next[s] = grown
         \/ s \in DOMAIN states /\ next[s] = Better(states[s], grown)
  BY ExtendAtGrown
<1> HIDE DEF grown, s, next
<1>4. s \in DOMAIN states => IsEntry(states[s])
  BY DEF Reaching, Meant
<1>5. /\ next[s].score \in 3 .. 10 /\ grown.score <= next[s].score
      /\ grown.score = next[s].score => grown.solutions \subseteq next[s].solutions
  <2>1. CASE next[s] = grown
    BY <1>2, <2>1 DEF IsEntry
  <2>2. CASE s \in DOMAIN states /\ next[s] = Better(states[s], grown)
    BY <1>2, <1>4, <2>2, BetterKeeps
  <2> QED
    BY <1>3, <2>1, <2>2
<1> QED
  BY <1>3, <1>5 DEF next, s, grown

(* Two ways that lead to one state differ only in what they are made of:   *)
(* with the segment, the weaker of its rank and theirs decides.            *)
LEMMA ExtendDominates ==
  ASSUME NEW states, NEW taken, NEW item, CoverSound(states), Reaching(states, taken),
         Dominates(states, taken)
  PROVE  Dominates(Extend(states, item), taken \cup {item})
<1> DEFINE next == Extend(states, item)
<1> SUFFICES ASSUME NEW x \in Ways(taken \cup {item})
             PROVE  State(x) \in DOMAIN next /\ Quality(x) <= next[State(x)].score
  BY DEF Dominates
<1>1. CASE item \notin x
  <2>1. x \in Ways(taken)
    BY <1>1 DEF Ways
  <2>2. State(x) \in DOMAIN states /\ Quality(x) <= states[State(x)].score
    BY <2>1 DEF Dominates
  <2>3. /\ State(x) \in DOMAIN next
        /\ next[State(x)].score \in 3 .. 10 /\ states[State(x)].score <= next[State(x)].score
    BY <2>2, HeldStays
  <2>4. states[State(x)].score \in 3 .. 10 /\ Quality(x) \in 3 .. 10
    BY <2>2, QualityIs DEF Reaching, Meant, IsEntry
  <2> QED
    BY <2>2, <2>3, <2>4
<1>2. CASE item \in x
  <2> DEFINE y == x \ {item}
             o == State(y)
             r == Rank(item.basis)
  <2>1. y \in Ways(taken) /\ x = y \cup {item} /\ State(x) = After(o, item)
    BY <1>2, WayWithout
  <2>2. o \in Open(states, item)
    BY <1>2, WayIsOpen
  <2>3. o \in DOMAIN states /\ Quality(y) <= states[o].score
    BY <2>1 DEF Dominates
  <2>4. /\ State(x) \in DOMAIN next
        /\ next[State(x)].score \in 3 .. 10
        /\ Grown(states[o], item).score <= next[State(x)].score
    BY <2>1, <2>2, GrownStays
  <2>5. Grown(states[o], item).score = Min({states[o].score, r})
    BY DEF Grown, Entry
  <2>6. Quality(x) = Min({Quality(y), r})
    BY <2>1, QualityOfMore
  <2>7. states[o].score \in 3 .. 10 /\ Quality(y) \in 3 .. 10 /\ r \in 3 .. 10
    BY <2>3, QualityIs, RankIs DEF Reaching, Meant, IsEntry
  <2> HIDE DEF y, o, r
  <2>8. /\ Min({states[o].score, r}) \in {states[o].score, r}
        /\ Min({Quality(y), r}) <= Quality(y) /\ Min({Quality(y), r}) <= r
        /\ Min({Quality(y), r}) \in 3 .. 10
    BY <2>7, LeastRank, {states[o].score, r} \in SUBSET (3 .. 10), {Quality(y), r} \in SUBSET (3 .. 10)
  <2>9. Min({Quality(y), r}) <= Min({states[o].score, r})
    BY <2>3, <2>7, <2>8
  <2> QED
    BY <2>4, <2>5, <2>6, <2>7, <2>8, <2>9
<1> QED
  BY <1>1, <1>2

(* The search takes the segments in the order of their first episodes.     *)
LEMMA PrecedesIs ==
  ASSUME NEW a, NEW b, Precedes(a, b), Destinations(a) # {},
         Destinations(a) \subseteq Int, Destinations(b) \subseteq Int
  PROVE  NotAfter(a, b)
<1>1. ASSUME NEW seg
      PROVE  /\ \A x \in Ends(seg) : x[1] \in Destinations(seg)
             /\ \A e \in Destinations(seg) : \E x \in Ends(seg) : x[1] = e
  <2>1. ASSUME NEW x \in Ends(seg) PROVE x[1] \in Destinations(seg)
    <3>1. PICK l \in seg.links : x = <<l[3], l[1]>>
      BY DEF Ends
    <3> QED
      BY <3>1 DEF Destinations
  <2>2. ASSUME NEW e \in Destinations(seg) PROVE \E x \in Ends(seg) : x[1] = e
    <3>1. PICK l \in seg.links : e = l[3]
      BY DEF Destinations
    <3>2. <<l[3], l[1]>> \in Ends(seg)
      BY <3>1 DEF Ends
    <3> QED
      BY <3>1, <3>2
  <2> QED
    BY <2>1, <2>2
<1>2. PICK first \in Ends(a) : TRUE
  BY <1>1
<1>3. \A x \in Ends(a), y \in Ends(b) : PairLess(x, y) => x[1] <= y[1]
  BY <1>1 DEF PairLess
<1>4. \A y \in Ends(b) : y \in Ends(a) \/ \E x \in Ends(a) : PairLess(x, y)
  BY <1>2 DEF Precedes
<1> SUFFICES ASSUME NEW e \in Destinations(b) PROVE \E d \in Destinations(a) : d <= e
  BY DEF NotAfter
<1>5. PICK y \in Ends(b) : y[1] = e
  BY <1>1
<1>6. \E x \in Ends(a) : x[1] <= e
  BY <1>1, <1>3, <1>4, <1>5
<1> QED
  BY <1>1, <1>6

(* What leads to a part with the segment taken last leaves nothing out     *)
(* before the first episode of any of its segments.                        *)
LEMMA GaplessWithout ==
  ASSUME NEW t, NEW taken, NEW item, NEW x, NEW z \in SUBSET taken,
         \A seg \in taken \cup {item} : Destinations(seg) \subseteq Desired(t),
         \A seg \in taken : NotAfter(seg, item),
         item \in x, Gapless(t, x), Covered(z) = Covered(x \ {item})
  PROVE  Gapless(t, z)
<1> SUFFICES ASSUME NEW seg \in z, NEW e \in Desired(t), e \notin Covered(z)
             PROVE  \E d \in Destinations(seg) : d < e
  BY DEF Gapless
<1>1. \A e1 \in Desired(t) : e1 \in Int
  BY DEF Desired
<1>2. /\ Destinations(seg) \subseteq Desired(t) /\ Destinations(item) \subseteq Desired(t)
      /\ NotAfter(seg, item) /\ Destinations(seg) \subseteq Covered(z)
  BY DEF Covered
<1>3. Covered(x) = Covered(x \ {item}) \cup Destinations(item)
  BY DEF Covered
<1>4. CASE e \in Destinations(item)
  <2>1. PICK d \in Destinations(seg) : d <= e
    BY <1>2, <1>4 DEF NotAfter
  <2>2. d # e
    BY <1>2, <2>1
  <2> QED
    BY <1>1, <1>2, <2>1, <2>2
<1>5. CASE e \notin Destinations(item)
  <2>1. PICK d \in Destinations(item) : d < e
    BY <1>3, <1>5 DEF Gapless
  <2>2. PICK c \in Destinations(seg) : c <= d
    BY <1>2, <2>1 DEF NotAfter
  <2> QED
    BY <1>1, <1>2, <2>1, <2>2
<1> QED
  BY <1>4, <1>5

(* If the ways to an open state are equally strong, no tie is lost.        *)
LEMMA ExtendKeepsTies ==
  ASSUME NEW t, NEW states, NEW taken, NEW item, CoverSound(states), Reaching(states, taken),
         Dominates(states, taken), KeepsTies(states, taken, t),
         \A seg \in taken \cup {item} : Destinations(seg) \subseteq Desired(t),
         \A seg \in taken : NotAfter(seg, item),
         \A x, y \in Ways(taken) :
           Gapless(t, x) /\ Gapless(t, y) /\ State(x) = State(y) /\ State(x) \in Open(states, item)
             => Quality(x) = Quality(y)
  PROVE  KeepsTies(Extend(states, item), taken \cup {item}, t)
<1> DEFINE next == Extend(states, item)
<1> SUFFICES ASSUME NEW x \in Ways(taken \cup {item}), Gapless(t, x), Quality(x) = next[State(x)].score
             PROVE  x \in next[State(x)].solutions
  BY DEF KeepsTies
<1>1. CASE item \notin x
  <2>1. x \in Ways(taken)
    BY <1>1 DEF Ways
  <2>2. State(x) \in DOMAIN states /\ Quality(x) <= states[State(x)].score
    BY <2>1 DEF Dominates
  <2>3. /\ next[State(x)].score \in 3 .. 10 /\ states[State(x)].score <= next[State(x)].score
        /\ states[State(x)].score = next[State(x)].score
             => states[State(x)].solutions \subseteq next[State(x)].solutions
    BY <2>2, HeldStays
  <2>4. states[State(x)].score \in 3 .. 10
    BY <2>2 DEF Reaching, Meant, IsEntry
  <2>5. Quality(x) = states[State(x)].score /\ states[State(x)].score = next[State(x)].score
    BY <2>2, <2>3, <2>4
  <2> QED
    BY <2>1, <2>3, <2>5 DEF KeepsTies
<1>2. CASE item \in x
  <2> DEFINE y == x \ {item}
             o == State(y)
             r == Rank(item.basis)
  <2>1. y \in Ways(taken) /\ x = y \cup {item} /\ State(x) = After(o, item)
    BY <1>2, WayWithout
  <2>2. o \in Open(states, item)
    BY <1>2, WayIsOpen
  <2>3. o \in DOMAIN states
    BY <2>2 DEF Open
  <2>10. \A z \in Ways(taken) : State(z) = o => Gapless(t, z)
    <3>1. \A z : State(z) = o => Covered(z) = Covered(x \ {item})
      BY DEF State
    <3>2. \A z \in Ways(taken) : z \in SUBSET taken
      BY DEF Ways
    <3> HIDE DEF o
    <3> QED
      BY <1>2, <3>1, <3>2, GaplessWithout
  <2>4. Quality(y) = states[o].score
    <3>1. PICK z \in states[o].solutions : TRUE
      BY <2>3 DEF Reaching, Meant
    <3>2. z \subseteq taken /\ Quality(z) = states[o].score
      BY <2>3 DEF Reaching, Meant
    <3>3. Sound(z, o[1], o[2]) /\ o = <<o[1], o[2]>>
      BY <2>3 DEF CoverSound
    <3>4. z \in Ways(taken) /\ State(z) = o
      BY <3>2, <3>3 DEF Ways, Sound, State
    <3> QED
      BY <2>1, <2>2, <2>10, <3>2, <3>4
  <2>5. y \in states[o].solutions
    BY <2>1, <2>4, <2>10 DEF KeepsTies
  <2>6. /\ Grown(states[o], item).score = Min({states[o].score, r})
        /\ x \in Grown(states[o], item).solutions
    BY <2>1, <2>5 DEF Grown, Entry
  <2>7. Quality(x) = Grown(states[o], item).score
    <3>1. Quality(y \cup {item}) = Min({Quality(y), r})
      BY QualityOfMore
    <3>2. x = y \cup {item}
      BY <2>1
    <3> HIDE DEF y, r, o
    <3> QED
      BY <2>4, <2>6, <3>1, <3>2
  <2>8. Grown(states[o], item).score = next[State(x)].score
             => Grown(states[o], item).solutions \subseteq next[State(x)].solutions
    BY <2>1, <2>2, GrownStays
  <2> QED
    BY <2>6, <2>7, <2>8
<1> QED
  BY <1>1, <1>2

-----------------------------------------------------------------------------
(* The whole search                                                        *)

(* The search starts with nothing taken and the empty solution.            *)
LEMMA StartIsComplete ==
  ASSUME NEW t
  PROVE  Reaching(StartStates, {}) /\ Dominates(StartStates, {}) /\ KeepsTies(StartStates, {}, t)
<1> DEFINE first == <<{}, {}>>
           e == Entry(10, {{}})
<1>1. \A s : s \in DOMAIN StartStates <=> s = first
  BY DEF StartStates
<1>2. StartStates[first] = e
  BY DEF StartStates, Entry
<1>3. e.score = 10 /\ e.solutions = {{}}
  BY DEF Entry
<1>4. Quality({}) = 10
  BY QualityIs
<1>5. \A x : x \in Ways({}) <=> x = {}
  BY DEF Ways, Apart
<1>6. State({}) = first
  BY DEF State, Covered, Feeds
<1>7. Meant(e, {})
  <2>1. IsEntry(e)
    <3>1. Entry(e.score, e.solutions) = e
      BY <1>3
    <3> QED
      BY <1>3, <3>1 DEF IsEntry
  <2>2. e.solutions # {} /\ \A x \in e.solutions : x = {}
    BY <1>3
  <2> QED
    BY <1>3, <1>4, <2>1, <2>2 DEF Meant
<1> HIDE DEF first, e
<1>8. Reaching(StartStates, {})
  BY <1>1, <1>2, <1>7 DEF Reaching
<1>9. Dominates(StartStates, {})
  <2>1. State({}) \in DOMAIN StartStates
    BY <1>1, <1>6
  <2>2. StartStates[State({})].score = 10
    BY <1>2, <1>3, <1>6
  <2> QED
    <3> SUFFICES ASSUME NEW x \in Ways({})
                 PROVE  State(x) \in DOMAIN StartStates /\ Quality(x) <= StartStates[State(x)].score
      BY DEF Dominates
    <3>1. x = {}
      BY <1>5
    <3>2. Quality({}) <= StartStates[State({})].score
      BY <1>4, <2>2
    <3> QED
      BY <2>1, <3>1, <3>2
<1>10. KeepsTies(StartStates, {}, t)
  <2>1. {} \in StartStates[State({})].solutions
    BY <1>2, <1>3, <1>6
  <2> QED
    BY <1>5, <2>1 DEF KeepsTies
<1> QED
  BY <1>8, <1>9, <1>10

\* What the search works on is read from the case and the proposals.
LEMMA FittingKept ==
  ASSUME UNCHANGED <<case, choices, turn>>
  PROVE  /\ Fitting(turn)' = Fitting(turn) /\ Desired(turn)' = Desired(turn)
         /\ Parts(turn)' = Parts(turn)
         /\ PartsAgreeAt(turn)' <=> PartsAgreeAt(turn)
<1>1. Desired(turn)' = Desired(turn)
  BY DEF Desired, S
<1>2. Available(turn)' = Available(turn)
  BY DEF Available, Signature
<1>3. Fitting(turn)' = Fitting(turn)
  BY <1>1, <1>2 DEF Fitting
<1>4. Parts(turn)' = Parts(turn)
  BY <1>1, <1>3 DEF Parts, Gapless
<1> QED
  BY <1>1, <1>3, <1>4 DEF PartsAgreeAt

\* What counts as a part is read from the case.
LEMMA TiesKept ==
  ASSUME NEW states, NEW taken, UNCHANGED <<case, turn>>, KeepsTies(states, taken, turn),
         cover' = states, (Fitting(turn) \ left)' = taken
  PROVE  KeepsTies(cover, Fitting(turn) \ left, turn)'
<1>1. \A x : Gapless(turn, x)' <=> Gapless(turn, x)
  BY DEF Gapless, Desired, S
<1> QED
  BY <1>1 DEF KeepsTies

(* Taking a segment keeps what the search stands for.                      *)
LEMMA SearchStep ==
  ASSUME CoverSound(cover), SearchInv, CoverItem, phase' = "cover"
  PROVE  SearchInv'
<1> DEFINE taken == Fitting(turn) \ left
<1>1. phase = "cover" /\ left \subseteq Fitting(turn)
  BY DEF CoverItem, SearchInv
<1>2. PICK item \in left :
        /\ \A other \in left : Precedes(item, other)
        /\ cover' = Extend(cover, item) /\ left' = left \ {item}
  BY DEF CoverItem
<1>3. UNCHANGED <<case, choices, turn>>
  BY DEF CoverItem, Resolved
<1>4. /\ Fitting(turn)' = Fitting(turn)
      /\ (PartsAgreeAt(turn)' <=> PartsAgreeAt(turn)) /\ turn' = turn
  BY <1>3, FittingKept
<1>5. (Fitting(turn) \ left)' = taken \cup {item}
  BY <1>1, <1>2, <1>4
<1>6. Reaching(cover, taken) /\ Dominates(cover, taken)
      /\ (PartsAgreeAt(turn) => KeepsTies(cover, taken, turn))
      /\ Ordered(taken, left)
  BY <1>1 DEF SearchInv
<1>10. \A seg \in taken \cup {item} :
         Destinations(seg) # {} /\ Destinations(seg) \subseteq Desired(turn)
  BY <1>1, <1>2 DEF Fitting
<1>11. \A b \in left : NotAfter(item, b)
  <2>1. \A b \in left : Destinations(b) \subseteq Int
    BY <1>1 DEF Fitting, Desired
  <2> QED
    BY <1>2, <1>10, <2>1, PrecedesIs
<1>7. Reaching(cover', taken \cup {item}) /\ Dominates(cover', taken \cup {item})
  BY <1>2, <1>6, ExtendReaching, ExtendDominates
<1>15. \A seg \in taken : NotAfter(seg, item)
  BY <1>2, <1>6 DEF Ordered
<1>8. ASSUME PartsAgreeAt(turn) PROVE KeepsTies(cover', taken \cup {item}, turn)
  <2>1. ASSUME NEW x \in Ways(taken), NEW y \in Ways(taken), Gapless(turn, x), Gapless(turn, y),
               State(x) = State(y), State(x) \in Open(cover, item)
        PROVE  Quality(x) = Quality(y)
    <3>1. Covered(x) \cap Destinations(item) = {} /\ Covered(y) = Covered(x)
      BY <2>1 DEF State, Open
    <3>2. Destinations(item) # {} /\ Destinations(item) \subseteq Desired(turn)
      BY <1>1, <1>2 DEF Fitting
    <3>3. Covered(x) # Desired(turn) /\ Covered(y) # Desired(turn)
      BY <3>1, <3>2
    <3>4. x \in Parts(turn) /\ y \in Parts(turn)
      BY <2>1, <3>3 DEF Parts, Ways
    <3> QED
      BY <1>8, <2>1, <3>4 DEF PartsAgreeAt
  <2> HIDE DEF taken
  <2> QED
    BY <1>2, <1>6, <1>8, <1>10, <1>15, <2>1, ExtendKeepsTies
<1>9. left' \subseteq Fitting(turn)'
  BY <1>1, <1>2, <1>4
<1> HIDE DEF taken
<1>12. Ordered(taken \cup {item}, left')
  BY <1>2, <1>6, <1>11 DEF Ordered
<1>13. PartsAgreeAt(turn)' => KeepsTies(cover, Fitting(turn) \ left, turn)'
  BY <1>3, <1>4, <1>5, <1>8, TiesKept
<1> QED
  BY <1>5, <1>7, <1>9, <1>12, <1>13 DEF SearchInv

\* What the search holds, at every step.
LEMMA SearchInvariance == Spec => []SearchInv
<1>1. Init => SearchInv
  BY DEF Init, SearchInv
<1>2. IInv /\ SearchInv /\ [Next]_vars => SearchInv'
  <2> SUFFICES ASSUME IInv, SearchInv, [Next]_vars, phase' = "cover" PROVE SearchInv'
    BY DEF SearchInv
  <2>1. CASE StartCover
    <3>1. /\ UNCHANGED <<case, choices, turn>>
          /\ left' = Fitting(turn) /\ cover' = StartStates
      BY <2>1 DEF StartCover
    <3>2. Fitting(turn)' = Fitting(turn)
      BY <3>1, FittingKept
    <3>3. (Fitting(turn) \ left)' = {}
      BY <3>1, <3>2
    <3> QED
      <4>1. KeepsTies(StartStates, {}, turn)
        BY StartIsComplete
      <4>2. KeepsTies(cover, Fitting(turn) \ left, turn)'
        BY <3>1, <3>3, <4>1, TiesKept
      <4> QED
        BY <3>1, <3>2, <3>3, <4>2, StartIsComplete DEF SearchInv, Ordered
  <2>2. CASE CoverItem
    BY <2>2, SearchStep DEF IInv
  <2>3. CASE UNCHANGED vars
    <3>1. UNCHANGED <<case, choices, turn, left, cover, phase>>
      BY <2>3 DEF vars
    <3>2. Fitting(turn)' = Fitting(turn) /\ turn' = turn /\ (PartsAgreeAt(turn)' <=> PartsAgreeAt(turn))
      BY <3>1, FittingKept
    <3>3. (Fitting(turn) \ left)' = Fitting(turn) \ left
      BY <3>1, <3>2
    <3> QED
      <4>1. KeepsTies(cover, Fitting(turn) \ left, turn)
              => KeepsTies(cover, Fitting(turn) \ left, turn)'
        BY <3>1, <3>3, TiesKept
      <4> QED
        BY <3>1, <3>2, <3>3, <4>1 DEF SearchInv
  <2> QED
    BY <2>1, <2>2, <2>3
       DEF Next, Group, ProposeByRules, ProposeBySeries, Select, Resolved, Collide
<1> QED
  BY <1>1, <1>2, ResolvedSafely, PTL DEF Spec

(* The search loses no cover for lack of room, order or luck: when every   *)
(* segment was taken, it has completed a cover exactly if there is one,    *)
(* and its strongest are among the strongest there are.                    *)
CoverIsFound ==
  phase = "cover" /\ left = {} =>
    /\ Completed(turn) = {} <=> ExactCovers(turn) = {}
    /\ Strongest(Completed(turn)) \subseteq Strongest(ExactCovers(turn))

(* The exact covers are the ways through the segments that cover it all.   *)
LEMMA CoversAreWays ==
  ASSUME NEW t, NEW x \in ExactCovers(t)
  PROVE  x \in Ways(Fitting(t)) /\ x # {} /\ Covered(x) = Desired(t) /\ Desired(t) # {}
<1>1. /\ x \subseteq {seg \in Available(t) : Destinations(seg) # {}}
      /\ x # {} /\ Apart(x) /\ Covered(x) = Desired(t)
  BY DEF ExactCovers
<1>2. \A seg \in x : Destinations(seg) \subseteq Desired(t)
  BY <1>1 DEF Covered
<1>3. x \subseteq Fitting(t)
  BY <1>1, <1>2 DEF Fitting
<1>4. PICK seg \in x : Destinations(seg) # {}
  BY <1>1
<1> QED
  BY <1>1, <1>2, <1>3, <1>4 DEF Ways

\* What is completed when all is taken is an exact cover.
LEMMA CompletedAreCovers ==
  ASSUME CoverSound(cover), Reaching(cover, Fitting(turn)), NEW x \in Completed(turn)
  PROVE  x \in ExactCovers(turn)
<1>1. PICK s \in DOMAIN cover : s[1] = Desired(turn) /\ x \in cover[s].solutions /\ x # {}
  BY DEF Completed
<1>2. x \subseteq Fitting(turn) /\ Apart(x) /\ Covered(x) = Desired(turn)
  BY <1>1 DEF Reaching, Meant, CoverSound, Sound
<1> QED
  BY <1>1, <1>2 DEF ExactCovers, Fitting

(* For each exact cover the search has completed one at least as strong.   *)
LEMMA CoverIsMatched ==
  ASSUME CoverSound(cover), Reaching(cover, Fitting(turn)), Dominates(cover, Fitting(turn)),
         NEW x \in ExactCovers(turn)
  PROVE  /\ State(x) \in DOMAIN cover
         /\ cover[State(x)].solutions \subseteq Completed(turn)
         /\ \E y \in cover[State(x)].solutions : Quality(x) <= Quality(y)
         /\ \A y \in cover[State(x)].solutions : Quality(y) = cover[State(x)].score
<1> DEFINE s == State(x)
<1>1. x \in Ways(Fitting(turn)) /\ Covered(x) = Desired(turn) /\ Desired(turn) # {}
  BY CoversAreWays
<1>2. s \in DOMAIN cover /\ Quality(x) <= cover[s].score
  BY <1>1 DEF Dominates
<1>3. s[1] = Desired(turn)
  BY <1>1 DEF State
<1>4. /\ cover[s].solutions # {}
      /\ \A y \in cover[s].solutions : Quality(y) = cover[s].score
  BY <1>2 DEF Reaching, Meant
<1>5. \A y \in cover[s].solutions : Covered(y) = Desired(turn)
  BY <1>2, <1>3 DEF CoverSound, Sound
<1>6. \A y \in cover[s].solutions : y # {}
  BY <1>1, <1>5 DEF Covered
<1>7. cover[s].solutions \subseteq Completed(turn)
  BY <1>2, <1>3, <1>6 DEF Completed
<1> QED
  BY <1>2, <1>4, <1>7

\* When all is taken the search has found a cover if there is one, and all
\* of the strongest if parts agree.
LEMMA SearchFinds ==
  ASSUME CoverSound(cover), SearchInv, phase = "cover", left = {}
  PROVE  /\ CoverIsFound
         /\ PartsAgreeAt(turn) => CoverIsBest
<1>1. /\ Reaching(cover, Fitting(turn)) /\ Dominates(cover, Fitting(turn))
      /\ PartsAgreeAt(turn) => KeepsTies(cover, Fitting(turn), turn)
  <2>1. Fitting(turn) \ left = Fitting(turn)
    OBVIOUS
  <2> QED
    BY <2>1 DEF SearchInv
<1>2. Completed(turn) \subseteq ExactCovers(turn)
  BY <1>1, CompletedAreCovers
<1>3. \A x \in ExactCovers(turn) : \E y \in Completed(turn) : Quality(x) <= Quality(y)
  BY <1>1, CoverIsMatched
<1>4. \A x : Quality(x) \in 3 .. 10
  BY QualityIs
<1>5. Strongest(Completed(turn)) \subseteq Strongest(ExactCovers(turn))
  <2> SUFFICES ASSUME NEW x \in Strongest(Completed(turn)), NEW r \in ExactCovers(turn)
               PROVE  x \in ExactCovers(turn) /\ Quality(r) <= Quality(x)
    <3>1. ExactCovers(turn) # {} \/ Strongest(Completed(turn)) = {}
      BY <1>2 DEF Strongest
    <3> QED
      BY <3>1 DEF Strongest
  <2>1. x \in Completed(turn) /\ \A y \in Completed(turn) : Quality(y) <= Quality(x)
    BY DEF Strongest
  <2>2. PICK y \in Completed(turn) : Quality(r) <= Quality(y)
    BY <1>3
  <2>3. Quality(y) <= Quality(x)
    BY <2>1
  <2>4. Quality(r) \in 3 .. 10 /\ Quality(y) \in 3 .. 10 /\ Quality(x) \in 3 .. 10
    BY <1>4
  <2> QED
    BY <1>2, <2>1, <2>2, <2>3, <2>4
<1>6. ASSUME PartsAgreeAt(turn)
      PROVE  Strongest(ExactCovers(turn)) \subseteq Strongest(Completed(turn))
  <2> SUFFICES ASSUME NEW x \in Strongest(ExactCovers(turn)) PROVE x \in Strongest(Completed(turn))
    OBVIOUS
  <2>1. x \in ExactCovers(turn) /\ \A r \in ExactCovers(turn) : Quality(r) <= Quality(x)
    BY DEF Strongest
  <2>2. /\ cover[State(x)].solutions \subseteq Completed(turn)
        /\ \A y \in cover[State(x)].solutions : Quality(y) = cover[State(x)].score
    BY <1>1, <2>1, CoverIsMatched
  <2>3. PICK y \in cover[State(x)].solutions : Quality(x) <= Quality(y)
    BY <1>1, <2>1, CoverIsMatched
  <2>4. Quality(y) <= Quality(x)
    BY <1>2, <2>1, <2>2, <2>3
  <2>5. Quality(x) = cover[State(x)].score
    BY <1>4, <2>2, <2>3, <2>4
  <2>6. x \in cover[State(x)].solutions
    <3>1. x \in Ways(Fitting(turn)) /\ Gapless(turn, x)
      BY <2>1, CoversAreWays DEF Gapless
    <3> QED
      BY <1>1, <1>6, <2>5, <3>1 DEF KeepsTies
  <2> QED
    BY <1>2, <2>1, <2>2, <2>6 DEF Strongest
<1>7. Completed(turn) = {} <=> ExactCovers(turn) = {}
  BY <1>2, <1>3
<1> QED
  BY <1>5, <1>6, <1>7 DEF CoverIsFound, CoverIsBest

(* For any proposals: the search finds a cover if there is one, and what   *)
(* it offers to the selection are strongest covers.                        *)
THEOREM CoversAreFound == Spec => []CoverIsFound
<1>1. IInv /\ SearchInv => CoverIsFound
  BY SearchFinds DEF IInv, CoverIsFound
<1> QED
  BY <1>1, ResolvedSafely, SearchInvariance, PTL

(***************************************************************************)
(* Numbers, and what is computed one number after another.                 *)
(***************************************************************************)
\* < as a set of pairs.
Less == {ss \in Nat \X Nat : ss[1] < ss[2]}

\* Every set of numbers that goes down ends.
LEMMA LessIsWellFounded == IsWellFoundedOn(Less, Nat)
<1>1. OpToRel(<, Nat) = Less
  BY DEF OpToRel, Less
<1> QED BY <1>1, NatLessThanWellFounded

\* Min is the least number of a set that has one.
LEMMA MinIs ==
  ASSUME NEW set \in SUBSET Nat, set # {}
  PROVE  Min(set) \in set /\ \A j \in set : Min(set) <= j
<1>1. PICK x \in set : \A y \in set : <<y, x>> \notin Less
  BY LessIsWellFounded, WFMin
<1>2. ASSUME NEW y \in set PROVE x <= y
  <2>1. x \in Nat /\ y \in Nat /\ <<y, x>> \notin Less
    BY <1>1
  <2>2. ~(y < x)
    BY <2>1 DEF Less
  <2> QED BY <2>1, <2>2
<1> QED BY <1>2 DEF Min

\* Induction over the numbers, for a set instead of a predicate.
LEMMA SetInduction ==
  ASSUME NEW set \in SUBSET Nat, 0 \in set, \A n \in set : n + 1 \in set
  PROVE  set = Nat
<1> SUFFICES ASSUME Nat \ set # {} PROVE FALSE
  OBVIOUS
<1> DEFINE x == Min(Nat \ set)
<1>1. x \in Nat \ set /\ \A y \in Nat \ set : x <= y
  BY MinIs
<1> HIDE DEF x
<1>2. x - 1 \in Nat /\ x - 1 < x /\ (x - 1) + 1 = x
  BY <1>1
<1>3. x - 1 \in set
  BY <1>1, <1>2
<1> QED BY <1>1, <1>2, <1>3

\* What holds of 0, and of a number when it holds of the one before, up to a bound.
LEMMA Upto ==
  ASSUME NEW size \in Nat, NEW set, 0 \in set,
         \A n \in 1 .. size : n - 1 \in set => n \in set
  PROVE  0 .. size \subseteq set
<1> DEFINE reached == {n \in Nat : n <= size => n \in set}
<1>1. 0 \in reached
  OBVIOUS
<1>2. ASSUME NEW n \in reached PROVE n + 1 \in reached
  <2>1. n \in Nat /\ (n <= size => n \in set)
    OBVIOUS
  <2>2. ASSUME n + 1 <= size PROVE n + 1 \in set
    <3>1. n + 1 \in 1 .. size /\ (n + 1) - 1 = n /\ n <= size
      BY <2>1, <2>2
    <3> QED BY <2>1, <3>1
  <2> QED BY <2>1, <2>2
<1>3. reached = Nat
  <2>1. reached \in SUBSET Nat
    OBVIOUS
  <2> HIDE DEF reached
  <2> QED BY <1>1, <1>2, <2>1, SetInduction
<1> QED BY <1>3

\* A function that goes on from each value to the next.
Runs(f, first, size, step) ==
  f[0] = first /\ \A n \in 1 .. size : f[n] = step[<<f[n - 1], n>>]

\* There is one for every first value and every step.
LEMMA Recursion ==
  ASSUME NEW values, NEW first \in values, NEW size \in Nat, NEW step \in [values \X (1 .. size) -> values]
  PROVE  \E f \in [0 .. size -> values] : Runs(f, first, size, step)
<1> DEFINE Follows(f, n) == Runs(f, first, n, step)
           reached == {n \in 0 .. size : \E f \in [0 .. n -> values] : Follows(f, n)}
<1>1. 0 \in reached
  <2> DEFINE f == [k \in 0 .. 0 |-> first]
  <2>1. f \in [0 .. 0 -> values] /\ Follows(f, 0)
    BY DEF Runs
  <2> HIDE DEF Follows
  <2> QED BY <2>1
<1>2. ASSUME NEW n \in 1 .. size, n - 1 \in reached PROVE n \in reached
  <2>1. PICK f \in [0 .. (n - 1) -> values] : Follows(f, n - 1)
    <3> HIDE DEF Follows
    <3> QED BY <1>2
  <2> DEFINE g == [k \in 0 .. n |-> IF k = n THEN step[<<f[n - 1], n>>] ELSE f[k]]
  <2>2. n - 1 \in 0 .. (n - 1) /\ n \in 0 .. n /\ 0 \in 0 .. (n - 1) /\ 0 # n
    OBVIOUS
  <2>3. step[<<f[n - 1], n>>] \in values
    <3>1. <<f[n - 1], n>> \in values \X (1 .. size)
      BY <2>1, <2>2
    <3> QED BY <3>1
  <2>4. g \in [0 .. n -> values]
    <3>1. ASSUME NEW k \in 0 .. n, k # n PROVE f[k] \in values
      <4>1. k \in 0 .. (n - 1)
        BY <3>1
      <4> QED BY <2>1, <4>1
    <3> QED BY <2>3, <3>1
  <2>5. ASSUME NEW k \in 1 .. n PROVE g[k] = step[<<g[k - 1], k>>]
    <3>1. CASE k = n
      <4>1. g[k - 1] = f[n - 1] /\ g[k] = step[<<f[n - 1], n>>]
        BY <2>2, <3>1
      <4> HIDE DEF g
      <4> QED BY <3>1, <4>1
    <3>2. CASE k # n
      <4>1. k \in 1 .. (n - 1) /\ g[k] = f[k] /\ g[k - 1] = f[k - 1]
        BY <3>2
      <4>2. f[k] = step[<<f[k - 1], k>>]
        BY <2>1, <4>1 DEF Runs
      <4> HIDE DEF g
      <4> QED BY <4>1, <4>2
    <3> QED BY <3>1, <3>2
  <2>6. g[0] = first
    BY <2>1, <2>2 DEF Runs
  <2>7. Follows(g, n)
    <3> HIDE DEF g
    <3> QED BY <2>5, <2>6 DEF Runs
  <2> HIDE DEF Follows, g
  <2>8. n \in 0 .. size
    OBVIOUS
  <2> QED BY <2>4, <2>7, <2>8
<1>3. size \in reached
  <2> HIDE DEF reached
  <2>1. 0 .. size \subseteq reached
    BY <1>1, <1>2, Upto
  <2> QED BY <2>1
<1> QED BY <1>3

\* A function that goes on like this as long as its values are in a set.
RunsWithin(values, f, first, size, step) ==
  /\ f = [n \in 0 .. size |-> f[n]] /\ f[0] = first
  /\ \A n \in 1 .. size : f[n - 1] \in values => f[n] = step[<<f[n - 1], n>>]

\* They never leave it.
LEMMA Followed ==
  ASSUME NEW values, NEW first \in values, NEW size \in Nat, NEW step \in [values \X (1 .. size) -> values],
         NEW f, RunsWithin(values, f, first, size, step)
  PROVE  f \in [0 .. size -> values] /\ Runs(f, first, size, step)
<1> DEFINE set == {n \in 0 .. size : f[n] \in values}
<1>1. 0 \in set
  BY DEF RunsWithin
<1>2. ASSUME NEW n \in 1 .. size, n - 1 \in set PROVE n \in set
  <2>1. f[n - 1] \in values /\ n \in 0 .. size
    BY <1>2
  <2>2. f[n] = step[<<f[n - 1], n>>] /\ <<f[n - 1], n>> \in values \X (1 .. size)
    BY <2>1 DEF RunsWithin
  <2> QED BY <2>1, <2>2
<1>3. \A n \in 0 .. size : f[n] \in values
  <2> HIDE DEF set
  <2>1. 0 .. size \subseteq set
    BY <1>1, <1>2, Upto
  <2> QED BY <2>1 DEF set
<1>4. \A n \in 1 .. size : n - 1 \in 0 .. size
  OBVIOUS
<1> QED BY <1>3, <1>4 DEF Runs, RunsWithin

\* A function on a finite set has a bound.
LEMMA BoundIs ==
  ASSUME NEW set, IsFiniteSet(set), NEW value \in [set -> Nat]
  PROVE  \E m \in Nat : \A x \in set : value[x] <= m
<1>1. PICK n \in Nat : ExistsBijection(1 .. n, set)
  BY FS_NatBijection
<1>2. PICK f \in Bijection(1 .. n, set) : TRUE
  BY <1>1 DEF ExistsBijection
<1>3. f \in [1 .. n -> set] /\ \A x \in set : \E i \in 1 .. n : f[i] = x
  BY DEF Bijection, Injection, Surjection
<1> DEFINE Bounds(m, k) == \A i \in 1 .. k : value[f[i]] <= m
           bounded == {k \in 0 .. n : \E m \in Nat : Bounds(m, k)}
<1>4. 0 \in bounded
  <2>1. Bounds(0, 0)
    OBVIOUS
  <2> HIDE DEF Bounds
  <2> QED BY <2>1
<1>5. ASSUME NEW k \in 1 .. n, k - 1 \in bounded PROVE k \in bounded
  <2>1. PICK m \in Nat : Bounds(m, k - 1)
    <3> HIDE DEF Bounds
    <3> QED BY <1>5
  <2>2. value[f[k]] \in Nat
    BY <1>3
  <2>3. PICK l \in Nat : m <= l /\ value[f[k]] <= l
    BY <2>2
  <2>4. Bounds(l, k)
    <3>1. ASSUME NEW i \in 1 .. k PROVE value[f[i]] <= l
      <4>1. i = k \/ i \in 1 .. (k - 1)
        OBVIOUS
      <4>2. i \in 1 .. n /\ value[f[i]] \in Nat
        BY <1>3
      <4> QED BY <2>1, <2>3, <4>1, <4>2
    <3> QED BY <3>1
  <2> HIDE DEF Bounds
  <2>5. k \in 0 .. n
    OBVIOUS
  <2> QED BY <2>4, <2>5
<1>6. n \in bounded
  <2> HIDE DEF bounded
  <2>1. 0 .. n \subseteq bounded
    BY <1>4, <1>5, Upto
  <2> QED BY <2>1
<1>7. PICK m \in Nat : Bounds(m, n)
  <2> HIDE DEF Bounds
  <2> QED BY <1>6
<1> QED BY <1>3, <1>7

\* Max is the greatest number of a bounded set that has one.
LEMMA MaxIs ==
  ASSUME NEW set \in SUBSET Nat, set # {}, NEW m \in Nat, \A j \in set : j <= m
  PROVE  Max(set) \in set /\ \A j \in set : j <= Max(set)
<1> DEFINE above == {k \in Nat : m - k \in set}
           least == Min(above)
<1>2. above \in SUBSET Nat /\ above # {}
  <2>1. PICK j \in set : TRUE
    OBVIOUS
  <2>2. j \in Nat /\ j <= m
    OBVIOUS
  <2>3. m - j \in Nat /\ m - (m - j) = j
    BY <2>2
  <2> QED BY <2>3
<1>3. least \in above /\ \A k \in above : least <= k
  <2> HIDE DEF above
  <2> QED BY <1>2, MinIs
<1> HIDE DEF least
<1>4. ASSUME NEW j \in set PROVE j <= m - least
  <2>1. j \in Nat /\ j <= m
    OBVIOUS
  <2>2. m - j \in Nat /\ m - (m - j) = j
    BY <2>1
  <2>3. least <= m - j /\ least \in Nat
    BY <1>3, <2>2
  <2> QED BY <2>1, <2>3
<1>5. \E x \in set : \A y \in set : x >= y
  <2>1. m - least \in set /\ m - least \in Int /\ \A y \in set : y \in Int
    BY <1>3
  <2> QED BY <1>4, <2>1
<1>6. Max(set) \in set /\ \A y \in set : Max(set) >= y
  BY <1>5 DEF Max
<1> QED BY <1>6

\* The empty list is one of anything.
LEMMA NoListIs == \A X : <<>> \in Seq(X)
OBVIOUS

Flattening(f, lists) ==
  f = [i \in 1 .. Len(lists) |-> IF i = 1 THEN lists[i] ELSE f[i - 1] \o lists[i]]

\* FlattenSeq puts lists one after another.
LEMMA FlattenIs ==
  ASSUME NEW X, NEW lists \in Seq(Seq(X))
  PROVE  FlattenSeq(lists) \in Seq(X)
<1> DEFINE n == Len(lists)
<1>1. n \in Nat /\ \A i \in 1 .. n : lists[i] \in Seq(X)
  OBVIOUS
<1>2. CASE n = 0
  <2>1. lists = <<>> /\ FlattenSeq(lists) = <<>>
    BY <1>1, <1>2 DEF FlattenSeq
  <2>2. <<>> \in Seq(X)
    BY NoListIs
  <2> QED BY <2>1, <2>2, Zenon
<1>3. CASE n # 0
  <2> DEFINE f == CHOOSE f : Flattening(f, lists)
             Then(s, i) == s \o lists[i]
             step == [p \in Seq(X) \X (1 .. n) |-> Then(p[1], p[2])]
  <2>1. FlattenSeq(lists) = f[n]
    BY <1>3 DEF FlattenSeq, Flattening
  <2> HIDE DEF n
  <2>2. ASSUME NEW s \in Seq(X), NEW i \in 1 .. n PROVE Then(s, i) \in Seq(X)
    BY <1>1, ConcatProperties
  <2>3. step \in [Seq(X) \X (1 .. n) -> Seq(X)]
    <3> HIDE DEF Then
    <3> QED BY <2>2
  <2>4. \A s \in Seq(X), i \in 1 .. n : step[<<s, i>>] = Then(s, i)
    <3> HIDE DEF Then
    <3> QED OBVIOUS
  <2> HIDE DEF step
  <2>5. <<>> \in Seq(X)
    BY NoListIs
  <2>6. PICK g \in [0 .. n -> Seq(X)] : Runs(g, <<>>, n, step)
    BY <1>1, <2>3, <2>5, Recursion
  <2>7. \E h : Flattening(h, lists)
    <3> DEFINE h == [i \in 1 .. n |-> g[i]]
    <3>1. ASSUME NEW i \in 1 .. n
          PROVE  g[i] = IF i = 1 THEN lists[i] ELSE h[i - 1] \o lists[i]
      <4>1. i - 1 \in 0 .. n /\ g[i - 1] \in Seq(X) /\ g[i] = g[i - 1] \o lists[i]
        <5>1. i - 1 \in 0 .. n /\ g[i - 1] \in Seq(X)
          BY <1>1, <2>6
        <5>2. g[i] = step[<<g[i - 1], i>>]
          BY <2>6 DEF Runs
        <5> QED BY <2>4, <5>1, <5>2
      <4>2. CASE i = 1
        <5>1. g[i - 1] = <<>>
          BY <2>6, <4>2 DEF Runs
        <5>2. <<>> \o lists[i] = lists[i]
          BY <1>1
        <5> QED BY <4>1, <4>2, <5>1, <5>2
      <4>3. CASE i # 1
        <5>1. i - 1 \in 1 .. n
          BY <1>1, <4>3
        <5>2. h[i - 1] = g[i - 1]
          BY <5>1
        <5> QED BY <4>1, <4>3, <5>2
      <4> QED BY <4>2, <4>3
    <3>2. h = [i \in 1 .. n |-> IF i = 1 THEN lists[i] ELSE h[i - 1] \o lists[i]]
      BY <3>1
    <3>3. Flattening(h, lists)
      <4> HIDE DEF h
      <4> QED BY <3>2 DEF Flattening, n
    <3> QED BY <3>3
  <2>8. Flattening(f, lists)
    BY <2>7
  <2> HIDE DEF f
  <2>9. f = [i \in 1 .. n |-> IF i = 1 THEN lists[i] ELSE f[i - 1] \o lists[i]]
    BY <2>8 DEF Flattening, n
  <2> DEFINE flat == {i \in 0 .. n : i = 0 \/ f[i] \in Seq(X)}
  <2>10. 0 \in flat
    BY <1>1
  <2>11. ASSUME NEW i \in 1 .. n, i - 1 \in flat PROVE i \in flat
    <3>1. f[i] = IF i = 1 THEN lists[i] ELSE f[i - 1] \o lists[i]
      BY <2>9
    <3>2. i = 1 \/ f[i - 1] \in Seq(X)
      BY <2>11
    <3>3. f[i] \in Seq(X)
      <4>1. CASE i = 1
        BY <1>1, <3>1, <4>1
      <4>2. CASE i # 1
        <5>1. f[i - 1] \in Seq(X) /\ lists[i] \in Seq(X)
          BY <1>1, <3>2, <4>2
        <5> QED BY <3>1, <4>2, <5>1, ConcatProperties
      <4> QED BY <4>1, <4>2
    <3>4. i \in 0 .. n
      OBVIOUS
    <3> QED BY <3>3, <3>4
  <2>12. n \in flat
    <3> HIDE DEF flat
    <3>1. 0 .. n \subseteq flat
      BY <1>1, <2>10, <2>11, Upto
    <3> QED BY <1>1, <3>1
  <2> QED BY <1>3, <2>1, <2>12
<1> QED BY <1>2, <1>3

(***************************************************************************)
(* The releases of a call.                                                 *)
(***************************************************************************)
CaseIs == case \in Cases
Indices == DOMAIN case.candidate
Groupings == Seq(Seq(Indices) \ {<<>>})
GroupsAre == groups \in Groupings

\* The candidates of a call.
LEMMA CandidatesAre ==
  ASSUME CaseIs
  PROVE  /\ Len(case.candidate) \in Nat /\ Indices = 1 .. Len(case.candidate)
         /\ \A i \in Indices : case.candidate[i].shape \in ShapeData
<1> DEFINE candidates == [shape : ShapeData, names : SUBSET STRING, audio : STRING]
<1>1. case.candidate \in Seq(candidates)
  BY CasesAssumption DEF CaseIs
<1>2. \A x \in candidates : x.shape \in ShapeData
  OBVIOUS
<1> HIDE DEF candidates
<1>3. /\ Len(case.candidate) \in Nat /\ DOMAIN case.candidate = 1 .. Len(case.candidate)
      /\ \A i \in DOMAIN case.candidate : case.candidate[i] \in candidates
  BY <1>1
<1> QED BY <1>2, <1>3 DEF Indices

\* A candidate joins a group or opens one.
LEMMA JoinedIs ==
  ASSUME CaseIs, NEW gs \in Groupings, NEW i \in Indices
  PROVE  Joined(gs, i) \in Groupings
<1> DEFINE fits == {g \in DOMAIN gs : \A j \in ToSet(gs[g]) : Compatible(i, j)}
           first == Min(fits)
           Group1 == Seq(Indices) \ {<<>>}
<1>1. Joined(gs, i) = IF fits = {} THEN Append(gs, <<i>>)
                      ELSE [gs EXCEPT ![first] = Append(@, i)]
  BY DEF Joined
<1>2. Len(gs) \in Nat /\ DOMAIN gs = 1 .. Len(gs) /\ \A g \in 1 .. Len(gs) : gs[g] \in Group1
  BY DEF Groupings
<1>3. CASE fits = {}
  <2>1. <<i>> \in Group1
    OBVIOUS
  <2> HIDE DEF Group1, fits
  <2>2. gs \in Seq(Group1)
    BY DEF Groupings, Group1
  <2> QED BY <1>1, <1>3, <2>1, <2>2, AppendProperties DEF Groupings, Group1
<1>4. CASE fits # {}
  <2>1. first \in fits
    <3>1. fits \in SUBSET Nat
      BY <1>2
    <3> HIDE DEF fits
    <3> QED BY <1>4, <3>1, MinIs
  <2>2. first \in 1 .. Len(gs)
    BY <1>2, <2>1
  <2> HIDE DEF first, fits
  <2>3. Append(gs[first], i) \in Group1
    <3>1. gs[first] \in Seq(Indices)
      BY <1>2, <2>2
    <3> QED BY <3>1, AppendProperties
  <2> HIDE DEF Group1
  <2>4. gs \in Seq(Group1)
    BY DEF Groupings, Group1
  <2>5. [gs EXCEPT ![first] = Append(@, i)] \in Seq(Group1)
    BY <2>2, <2>3, <2>4
  <2> QED BY <1>1, <1>4, <2>5 DEF Groupings, Group1
<1> QED BY <1>3, <1>4

Grouping(f) ==
  f = [n \in 0 .. Len(case.candidate) |-> IF n = 0 THEN <<>> ELSE Joined(f[n - 1], n)]

\* The releases are groups of candidates.
LEMMA GroupReleasesIs ==
  ASSUME CaseIs
  PROVE  GroupReleases \in Groupings
<1> DEFINE size == Len(case.candidate)
           step == [p \in Groupings \X (1 .. size) |-> Joined(p[1], p[2])]
           made == CHOOSE f : Grouping(f)
<1>1. size \in Nat /\ Indices = 1 .. size
  BY CandidatesAre
<1>2. GroupReleases = made[size]
  BY DEF GroupReleases, Grouping
<1>3. \A f : Grouping(f) <=> f = [n \in 0 .. size |-> IF n = 0 THEN <<>> ELSE Joined(f[n - 1], n)]
  BY DEF Grouping
<1>4. <<>> \in Groupings
  BY NoListIs DEF Groupings
<1> HIDE DEF size
<1>5. \A gs \in Groupings, n \in 1 .. size : Joined(gs, n) \in Groupings
  BY <1>1, JoinedIs
<1>6. step \in [Groupings \X (1 .. size) -> Groupings]
  BY <1>5
<1>7. \A gs \in Groupings, n \in 1 .. size : step[<<gs, n>>] = Joined(gs, n)
  OBVIOUS
<1> HIDE DEF step
<1>8. PICK f \in [0 .. size -> Groupings] : Runs(f, <<>>, size, step)
  BY <1>1, <1>4, <1>6, Recursion
<1>9. Grouping(f)
  <2>1. ASSUME NEW n \in 0 .. size
        PROVE  f[n] = IF n = 0 THEN <<>> ELSE Joined(f[n - 1], n)
    <3>1. n = 0 \/ (n \in 1 .. size /\ n - 1 \in 0 .. size)
      BY <1>1
    <3> QED BY <1>7, <1>8, <3>1 DEF Runs
  <2>2. f = [n \in 0 .. size |-> f[n]]
    BY <1>8
  <2> QED BY <1>3, <2>1, <2>2
<1>10. Grouping(made)
  BY <1>9
<1> HIDE DEF made
<1>11. RunsWithin(Groupings, made, <<>>, size, step)
  <2>1. \A n \in 0 .. size : made[n] = IF n = 0 THEN <<>> ELSE Joined(made[n - 1], n)
    BY <1>3, <1>10
  <2>2. made = [n \in 0 .. size |-> made[n]]
    BY <1>3, <1>10
  <2>3. 0 \in 0 .. size /\ \A n \in 1 .. size : n \in 0 .. size /\ n # 0
    BY <1>1
  <2> QED BY <1>7, <2>1, <2>2, <2>3 DEF RunsWithin
<1>12. made \in [0 .. size -> Groupings]
  BY <1>1, <1>4, <1>6, <1>11, Followed
<1> QED BY <1>1, <1>2, <1>12

\* What a release is.
ReleaseIs(g) == Shape(g) \in ShapeData

\* The releases, and what is known of one.
LEMMA ReleasesAre ==
  ASSUME CaseIs, GroupsAre
  PROVE  /\ Len(groups) \in Nat /\ Releases = 1 .. Len(groups)
         /\ \A g \in Releases : ReleaseIs(g)
<1>1. Len(groups) \in Nat /\ DOMAIN groups = 1 .. Len(groups)
  BY DEF GroupsAre, Groupings
<1>2. ASSUME NEW g \in Releases PROVE ReleaseIs(g)
  <2>1. groups[g] \in Seq(Indices) /\ groups[g] # <<>>
    BY <1>2 DEF GroupsAre, Groupings, Releases
  <2>2. groups[g][1] \in Indices
    BY <2>1
  <2> QED BY <2>2, CandidatesAre DEF ReleaseIs, Shape, Lead
<1> QED BY <1>1, <1>2 DEF Releases

\* The episode numbers and the label of a release.
LEMMA ReleaseNumbers ==
  ASSUME NEW g, ReleaseIs(g)
  PROVE  /\ Nums(g) \in Seq(Nat) /\ Len(Nums(g)) \in Nat /\ DOMAIN Nums(g) = 1 .. Len(Nums(g))
         /\ Shape(g).number \in Nat /\ Shape(g).declared \in Nat
<1>1. Shape(g).nums \in Seq(Nat) /\ Shape(g).number \in Nat /\ Shape(g).declared \in Nat
  BY DEF ReleaseIs, ShapeData
<1> QED BY <1>1 DEF Nums

(***************************************************************************)
(* The seasons of a call.                                                  *)
(***************************************************************************)
SeasonIs(t) == t \in Nat /\ S(t) \in SeasonData

\* The seasons, and what is known of one.
LEMMA SeasonsAre ==
  ASSUME CaseIs
  PROVE  /\ Seasons \in SUBSET Nat /\ Seasons # {} /\ IsFiniteSet(Seasons)
         /\ \A t \in Seasons : SeasonIs(t) /\ case.offsets[t] \in SUBSET SUBSET PieceData
BY CasesAssumption DEF CaseIs, Seasons, SeasonIs, S

\* The rows and the counts of a season.
LEMMA SeasonNumbers ==
  ASSUME NEW t, SeasonIs(t)
  PROVE  /\ t \in Nat /\ Rows(t) \in Nat /\ S(t).first \in Nat /\ S(t).count \in Nat
         /\ S(t).absolute \in Int /\ S(t).scene \in Nat
         /\ Len(S(t).official) \in Nat /\ Len(S(t).alternate) \in Nat
<1>1. /\ S(t).listed \in Nat /\ S(t).first \in Nat /\ S(t).count \in Nat /\ S(t).absolute \in Int
      /\ S(t).scene \in Nat /\ S(t).official \in Seq(Seq(STRING)) /\ S(t).alternate \in Seq(Seq(STRING))
  BY DEF SeasonIs, SeasonData
<1>2. Rows(t) \in Nat
  BY <1>1 DEF Rows
<1> QED BY <1>1, <1>2 DEF SeasonIs

(***************************************************************************)
(* What the rules propose.                                                 *)
(***************************************************************************)
\* A segment that puts all episodes of its release behind the first rows.
Placed(seg, t, at) == seg = Linked(seg.release, t, Nums(seg.release), at, seg.basis)

\* All of the season, if it is taken at all.
Entire(t, seg) ==
  Destinations(seg) # {} /\ Destinations(seg) \subseteq Desired(t) => Destinations(seg) = Desired(t)

\* A part of it, of the weakest rank.
Piece(t, seg) == Rank(seg.basis) = 3 /\ \E at \in Nat : Placed(seg, t, at)

\* One of the two releases that are all of the season.
Half(t, seg, at) ==
  /\ Placed(seg, t, at) /\ Contiguous(Nums(seg.release)) /\ Len(Nums(seg.release)) < Rows(t)
  /\ at = 0 \/ at + Len(Nums(seg.release)) = Rows(t)
Continuing(t, seg) == ReleaseIs(seg.release) /\ Counted(t) /\ \E at \in Nat : Half(t, seg, at)

\* What a release that runs through several seasons has of this one.
SpanRows(seg, t) == {k \in 1 .. Rows(t) : S(t).absolute + k \in ToSet(Nums(seg.release))}
Spanned(t, seg) ==
  /\ Rank(seg.basis) = 3 /\ S(t).absolute \in Nat
  /\ seg.links = {<<S(t).absolute + k, t, Episode(t, k)>> : k \in SpanRows(seg, t)}

Proposal(t, seg) == Entire(t, seg) \/ Piece(t, seg) \/ Continuing(t, seg) \/ Spanned(t, seg)

Offers(t, list) == list \in Seq(ToSet(list)) /\ \A seg \in ToSet(list) : Proposal(t, seg)


\* Lists of proposals.
LEMMA OffersIs ==
  ASSUME NEW t, NEW set, \A seg \in set : Proposal(t, seg), NEW list \in Seq(set)
  PROVE  Offers(t, list)
<1>1. Len(list) \in Nat /\ DOMAIN list = 1 .. Len(list) /\ \A i \in 1 .. Len(list) : list[i] \in set
  OBVIOUS
<1>2. ToSet(list) = {list[i] : i \in 1 .. Len(list)}
  BY <1>1 DEF ToSet
<1>3. \A i \in 1 .. Len(list) : list[i] \in ToSet(list)
  BY <1>2
<1>4. list \in Seq(ToSet(list))
  <2> DEFINE all == ToSet(list)
  <2>1. \A i \in 1 .. Len(list) : list[i] \in all
    BY <1>3
  <2>2. list = [i \in 1 .. Len(list) |-> list[i]]
    OBVIOUS
  <2> HIDE DEF all
  <2>3. list \in Seq(all)
    BY <1>1, <2>1, <2>2
  <2> QED BY <2>3 DEF all
<1>5. ToSet(list) \subseteq set
  BY <1>1, <1>2
<1> HIDE DEF Proposal
<1> QED BY <1>4, <1>5 DEF Offers

\* No proposal, and one.
LEMMA OffersNone == \A t : Offers(t, <<>>)
<1> SUFFICES ASSUME NEW t PROVE Offers(t, <<>>)
  OBVIOUS
<1>1. <<>> \in Seq({})
  BY NoListIs
<1> QED BY <1>1, OffersIs

\* A list of one proposal.
LEMMA OffersOne ==
  ASSUME NEW t, NEW seg, Proposal(t, seg)
  PROVE  Offers(t, <<seg>>)
<1>1. <<seg>> \in Seq({seg})
  OBVIOUS
<1> HIDE DEF Proposal
<1>2. \A x \in {seg} : Proposal(t, x)
  OBVIOUS
<1> QED BY <1>1, <1>2, OffersIs

\* One list after another.
LEMMA OffersMore ==
  ASSUME NEW t, NEW a, NEW b, Offers(t, a), Offers(t, b)
  PROVE  Offers(t, a \o b)
<1> DEFINE all == ToSet(a) \cup ToSet(b)
<1>1. a \in Seq(ToSet(a)) /\ b \in Seq(ToSet(b)) /\ \A seg \in all : Proposal(t, seg)
  BY DEF Offers
<1>2. a \in Seq(all) /\ b \in Seq(all)
  <2>1. ToSet(a) \subseteq all /\ ToSet(b) \subseteq all
    OBVIOUS
  <2> HIDE DEF all
  <2> QED BY <1>1, <2>1
<1> HIDE DEF all
<1>3. a \o b \in Seq(all)
  BY <1>2, ConcatProperties
<1> QED BY <1>1, <1>3, OffersIs

\* Lists of lists of proposals.
LEMMA OffersAll ==
  ASSUME NEW t, NEW size \in Nat, NEW lists, lists = [i \in 1 .. size |-> lists[i]],
         \A i \in 1 .. size : Offers(t, lists[i])
  PROVE  Offers(t, FlattenSeq(lists))
<1> DEFINE all == UNION {ToSet(lists[i]) : i \in 1 .. size}
<1>1. \A seg \in all : Proposal(t, seg)
  BY DEF Offers
<1>2. ASSUME NEW i \in 1 .. size PROVE lists[i] \in Seq(all)
  <2>1. lists[i] \in Seq(ToSet(lists[i])) /\ ToSet(lists[i]) \subseteq all
    BY DEF Offers
  <2> HIDE DEF all
  <2> QED BY <2>1
<1> HIDE DEF all
<1>3. lists \in Seq(Seq(all))
  BY <1>2
<1>4. FlattenSeq(lists) \in Seq(all)
  BY <1>3, FlattenIs
<1> QED BY <1>1, <1>4, OffersIs

(***************************************************************************)
(* Releases one after another.                                             *)
(***************************************************************************)
IsChain(gs) == gs \in Seq(Releases)

Summing(f, gs) ==
  f = [n \in 0 .. Len(gs) |-> IF n = 0 THEN 0 ELSE f[n - 1] + Len(Nums(gs[n]))]

\* A release stands behind the ones before it.
LEMMA BeforeIs ==
  ASSUME CaseIs, GroupsAre, NEW gs, IsChain(gs)
  PROVE  /\ Before(gs, 1) = 0
         /\ \A n \in 1 .. Len(gs) :
              /\ Before(gs, n) \in Nat
              /\ Before(gs, n + 1) = Before(gs, n) + Len(Nums(gs[n]))
<1> DEFINE size == Len(gs)
           Then(s, n) == s + Len(Nums(gs[n]))
           step == [p \in Nat \X (1 .. size) |-> Then(p[1], p[2])]
           sum == CHOOSE f : Summing(f, gs)
<1>1. size \in Nat /\ 0 \in Nat /\ \A n \in 1 .. size : Len(Nums(gs[n])) \in Nat
  <2>1. gs \in Seq(Releases)
    BY DEF IsChain
  <2>2. size \in Nat /\ \A n \in 1 .. size : gs[n] \in Releases
    BY <2>1
  <2> QED BY <2>2, ReleasesAre, ReleaseNumbers
<1>2. ASSUME NEW s \in Nat, NEW n \in 1 .. size PROVE Then(s, n) \in Nat
  BY <1>1
<1>3. \A i : Before(gs, i) = sum[i - 1]
  BY DEF Before, Summing
<1>4. \A f : Summing(f, gs) <=>
             f = [n \in 0 .. size |-> IF n = 0 THEN 0 ELSE Then(f[n - 1], n)]
  BY DEF Summing
<1> HIDE DEF size
<1>5. step \in [Nat \X (1 .. size) -> Nat]
  <2> HIDE DEF Then
  <2> QED BY <1>2
<1>6. \A s \in Nat, n \in 1 .. size : step[<<s, n>>] = Then(s, n)
  <2> HIDE DEF Then
  <2> QED OBVIOUS
<1> HIDE DEF step, Then
<1>7. PICK f \in [0 .. size -> Nat] : Runs(f, 0, size, step)
  BY <1>1, <1>5, Recursion
<1>8. Summing(f, gs)
  <2>1. ASSUME NEW n \in 0 .. size
        PROVE  f[n] = IF n = 0 THEN 0 ELSE Then(f[n - 1], n)
    <3>1. n = 0 \/ (n \in 1 .. size /\ n - 1 \in 0 .. size)
      BY <1>1
    <3> QED BY <1>6, <1>7, <3>1 DEF Runs
  <2>2. f = [n \in 0 .. size |-> f[n]]
    BY <1>7
  <2> QED BY <1>4, <2>1, <2>2
<1>9. Summing(sum, gs)
  BY <1>8
<1> HIDE DEF sum
<1>10. /\ sum[0] = 0 /\ sum = [n \in 0 .. size |-> sum[n]]
       /\ \A n \in 1 .. size : sum[n] = Then(sum[n - 1], n)
  <2>1. \A n \in 0 .. size : sum[n] = IF n = 0 THEN 0 ELSE Then(sum[n - 1], n)
    BY <1>4, <1>9
  <2>2. sum = [n \in 0 .. size |-> sum[n]]
    BY <1>4, <1>9
  <2>3. 0 \in 0 .. size /\ \A n \in 1 .. size : n \in 0 .. size /\ n # 0
    BY <1>1
  <2> QED BY <2>1, <2>2, <2>3
<1>11. RunsWithin(Nat, sum, 0, size, step)
  BY <1>6, <1>10 DEF RunsWithin
<1>12. sum \in [0 .. size -> Nat]
  BY <1>1, <1>5, <1>11, Followed
<1>13. ASSUME NEW n \in 1 .. size
       PROVE  Before(gs, n) \in Nat /\ Before(gs, n + 1) = Before(gs, n) + Len(Nums(gs[n]))
  <2>1. (n + 1) - 1 = n /\ n - 1 \in 0 .. size
    BY <1>1
  <2>2. Before(gs, n) = sum[n - 1] /\ Before(gs, n + 1) = sum[n]
    BY <1>3, <2>1
  <2> QED BY <1>10, <1>12, <2>1, <2>2 DEF Then
<1>14. Before(gs, 1) = 0
  <2>1. Before(gs, 1) = sum[1 - 1] /\ 1 - 1 = 0
    BY <1>3
  <2> QED BY <1>10, <2>1
<1> QED BY <1>13, <1>14 DEF size

\* What a link of a chain is.
IsLink(seg, gs, i, t, basis) ==
  seg.release = gs[i] /\ seg.basis = basis /\ Placed(seg, t, Before(gs, i))

\* A segment of all numbers of a release is placed.
LEMMA LinkedIs ==
  ASSUME NEW g, NEW t, NEW nums, NEW at, NEW basis
  PROVE  /\ Linked(g, t, nums, at, basis).release = g
         /\ Linked(g, t, nums, at, basis).basis = basis
         /\ nums = Nums(g) => Placed(Linked(g, t, nums, at, basis), t, at)
BY DEF Linked, Placed

\* A chain offers what all its links are.
LEMMA ChainOffers ==
  ASSUME CaseIs, GroupsAre, NEW gs, IsChain(gs), NEW t, NEW basis,
         \A i \in 1 .. Len(gs) : \A seg : IsLink(seg, gs, i, t, basis) => Proposal(t, seg)
  PROVE  Offers(t, Chain(gs, t, basis))
<1> DEFINE of(i) == Linked(gs[i], t, Nums(gs[i]), Before(gs, i), basis)
           all == {of(i) : i \in 1 .. Len(gs)}
<1>1. Len(gs) \in Nat /\ DOMAIN gs = 1 .. Len(gs)
  BY DEF IsChain
<1>2. Chain(gs, t, basis) = [i \in 1 .. Len(gs) |-> of(i)]
  BY <1>1 DEF Chain
<1>3. ASSUME NEW i \in 1 .. Len(gs) PROVE Proposal(t, of(i))
  <2>1. IsLink(of(i), gs, i, t, basis)
    BY LinkedIs DEF IsLink
  <2> HIDE DEF of, Proposal
  <2> QED BY <2>1
<1> HIDE DEF of
<1>4. \A seg \in all : Proposal(t, seg)
  <2> HIDE DEF Proposal
  <2> QED BY <1>3
<1>5. \A i \in 1 .. Len(gs) : of(i) \in all
  OBVIOUS
<1> HIDE DEF all
<1>6. [i \in 1 .. Len(gs) |-> of(i)] \in Seq(all)
  BY <1>1, <1>5
<1> QED BY <1>2, <1>4, <1>6, OffersIs

(***************************************************************************)
(* The rules of one release and one season.                                *)
(***************************************************************************)
IsList(nums) == Len(nums) \in Nat /\ DOMAIN nums = 1 .. Len(nums)

\* The episodes that a run of links reaches.
LEMMA LinkedDestinations ==
  ASSUME NEW g, NEW t, NEW nums, NEW at, NEW basis
  PROVE  Destinations(Linked(g, t, nums, at, basis)) =
           {Episode(t, at + k) : k \in {j \in DOMAIN nums : at + j <= Rows(t)}}
<1> DEFINE fits == {j \in DOMAIN nums : at + j <= Rows(t)}
           link(k) == <<nums[k], t, Episode(t, at + k)>>
<1>1. Linked(g, t, nums, at, basis).links = {link(k) : k \in fits}
  BY DEF Linked
<1>2. ASSUME NEW k PROVE link(k)[3] = Episode(t, at + k)
  OBVIOUS
<1> HIDE DEF fits, link
<1>3. Destinations(Linked(g, t, nums, at, basis)) = {l[3] : l \in {link(k) : k \in fits}}
  BY <1>1 DEF Destinations
<1>4. {l[3] : l \in {link(k) : k \in fits}} = {link(k)[3] : k \in fits}
  OBVIOUS
<1>5. {link(k)[3] : k \in fits} = {Episode(t, at + k) : k \in fits}
  BY <1>2
<1> QED BY <1>3, <1>4, <1>5 DEF fits

\* A list as long as the season covers it.
LEMMA EntireLinked ==
  ASSUME NEW t, SeasonIs(t), Complete(t), NEW g, NEW nums, IsList(nums), S(t).count <= Len(nums),
         NEW basis
  PROVE  Entire(t, Linked(g, t, nums, 0, basis))
<1>1. Rows(t) = S(t).count /\ S(t).first = 1 /\ Rows(t) \in Nat
  BY SeasonNumbers DEF Complete, Counted
<1>2. {j \in DOMAIN nums : 0 + j <= Rows(t)} = 1 .. Rows(t)
  BY <1>1 DEF IsList
<1>3. \A k \in 1 .. Rows(t) : Episode(t, 0 + k) = k
  BY <1>1 DEF Episode
<1>4. Destinations(Linked(g, t, nums, 0, basis)) = {Episode(t, 0 + k) : k \in 1 .. Rows(t)}
  BY <1>2, LinkedDestinations
<1>5. {Episode(t, 0 + k) : k \in 1 .. Rows(t)} = 1 .. Rows(t)
  BY <1>3
<1> QED BY <1>1, <1>4, <1>5 DEF Entire, Desired

Keeping(f, g) ==
  f = [k \in 0 .. Len(Nums(g)) |->
         IF k = 0 THEN <<>>
         ELSE IF Nums(g)[k] \in Shape(g).recap THEN f[k - 1] ELSE Append(f[k - 1], Nums(g)[k])]

\* What is left of a release without its recaps is a list of numbers.
LEMMA KeptNumbersAre ==
  ASSUME NEW g, ReleaseIs(g)
  PROVE  KeptNumbers(g) \in Seq(Nat)
<1> DEFINE size == Len(Nums(g))
           Then(s, k) == IF Nums(g)[k] \in Shape(g).recap THEN s ELSE Append(s, Nums(g)[k])
           step == [p \in Seq(Nat) \X (1 .. size) |-> Then(p[1], p[2])]
           kept == CHOOSE f : Keeping(f, g)
<1>1. size \in Nat /\ <<>> \in Seq(Nat) /\ \A k \in 1 .. size : Nums(g)[k] \in Nat
  BY NoListIs, ReleaseNumbers
<1>2. ASSUME NEW s \in Seq(Nat), NEW k \in 1 .. size PROVE Then(s, k) \in Seq(Nat)
  BY <1>1, AppendProperties
<1>3. KeptNumbers(g) = kept[size]
  BY DEF KeptNumbers, Keeping
<1>4. \A f : Keeping(f, g) <=>
             f = [k \in 0 .. size |-> IF k = 0 THEN <<>> ELSE Then(f[k - 1], k)]
  BY DEF Keeping
<1> HIDE DEF size
<1>5. step \in [Seq(Nat) \X (1 .. size) -> Seq(Nat)]
  <2> HIDE DEF Then
  <2> QED BY <1>2
<1>6. \A s \in Seq(Nat), k \in 1 .. size : step[<<s, k>>] = Then(s, k)
  <2> HIDE DEF Then
  <2> QED OBVIOUS
<1> HIDE DEF step, Then
<1>7. PICK f \in [0 .. size -> Seq(Nat)] : Runs(f, <<>>, size, step)
  BY <1>1, <1>5, Recursion
<1>8. Keeping(f, g)
  <2>1. ASSUME NEW k \in 0 .. size
        PROVE  f[k] = IF k = 0 THEN <<>> ELSE Then(f[k - 1], k)
    <3>1. k = 0 \/ (k \in 1 .. size /\ k - 1 \in 0 .. size)
      BY <1>1
    <3> QED BY <1>6, <1>7, <3>1 DEF Runs
  <2>2. f = [k \in 0 .. size |-> f[k]]
    BY <1>7
  <2> QED BY <1>4, <2>1, <2>2
<1>9. Keeping(kept, g)
  BY <1>8
<1> HIDE DEF kept
<1>10. RunsWithin(Seq(Nat), kept, <<>>, size, step)
  <2>1. \A k \in 0 .. size : kept[k] = IF k = 0 THEN <<>> ELSE Then(kept[k - 1], k)
    BY <1>4, <1>9
  <2>2. kept = [k \in 0 .. size |-> kept[k]]
    BY <1>4, <1>9
  <2>3. 0 \in 0 .. size /\ \A k \in 1 .. size : k \in 0 .. size /\ k # 0
    BY <1>1
  <2> QED BY <1>6, <2>1, <2>2, <2>3 DEF RunsWithin
<1>11. kept \in [0 .. size -> Seq(Nat)]
  BY <1>1, <1>5, <1>10, Followed
<1> QED BY <1>1, <1>3, <1>11

\* Where the titles of a compact order may end.
Hits(compact, expanded, end, i) ==
  {e \in end + 1 .. Len(expanded) : FlattenSeq(SubSeq(expanded, end + 1, e)) = compact[i]}
EndAfter(compact, expanded, end, i) ==
  IF end < 0 \/ Cardinality(Hits(compact, expanded, end, i)) # 1 THEN -1
  ELSE CHOOSE e \in Hits(compact, expanded, end, i) : TRUE
Ending(f, compact, expanded) ==
  f = [i \in 0 .. Len(compact) |->
         IF i = 0 THEN 0 ELSE EndAfter(compact, expanded, f[i - 1], i)]
Places == Nat \cup {-1}

\* Where the next title ends.
LEMMA EndAfterIs ==
  ASSUME NEW compact, NEW expanded, Len(expanded) \in Nat, NEW end \in Places, NEW i
  PROVE  \/ EndAfter(compact, expanded, end, i) = -1
         \/ /\ end \in Nat /\ EndAfter(compact, expanded, end, i) \in Nat
            /\ end < EndAfter(compact, expanded, end, i)
<1> DEFINE hits == Hits(compact, expanded, end, i)
<1>1. CASE end < 0 \/ Cardinality(hits) # 1
  BY <1>1 DEF EndAfter
<1>2. CASE ~(end < 0 \/ Cardinality(hits) # 1)
  <2>1. hits # {}
    <3> HIDE DEF hits
    <3>1. hits = {} => Cardinality(hits) = 0
      BY FS_EmptySet
    <3> QED BY <1>2, <3>1
  <2>2. EndAfter(compact, expanded, end, i) \in hits
    <3>1. EndAfter(compact, expanded, end, i) = CHOOSE e \in hits : TRUE
      BY <1>2 DEF EndAfter
    <3> HIDE DEF hits
    <3> QED BY <2>1, <3>1
  <2>3. end \in Nat
    BY <1>2 DEF Places
  <2>4. hits \subseteq end + 1 .. Len(expanded)
    BY DEF Hits
  <2> HIDE DEF hits
  <2>5. EndAfter(compact, expanded, end, i) \in end + 1 .. Len(expanded)
    BY <2>2, <2>4
  <2> QED BY <2>3, <2>5
<1> QED BY <1>1, <1>2

\* The ends go up until there is none.
LEMMA EndsAre ==
  ASSUME NEW compact, NEW expanded, Len(compact) \in Nat, Len(expanded) \in Nat
  PROVE  LET ends == PartitionEnds(compact, expanded) IN
         /\ ends[0] = 0
         /\ \A i \in 1 .. Len(compact) :
              ends[i] = -1 \/ (ends[i - 1] \in Nat /\ ends[i] \in Nat /\ ends[i - 1] < ends[i])
<1> DEFINE size == Len(compact)
           Then(p, i) == EndAfter(compact, expanded, p, i)
           step == [p \in Places \X (1 .. size) |-> Then(p[1], p[2])]
           ends == CHOOSE f : Ending(f, compact, expanded)
<1>1. size \in Nat /\ 0 \in Places
  BY DEF Places
<1>2. ASSUME NEW p \in Places, NEW i \in 1 .. size PROVE Then(p, i) \in Places
  BY EndAfterIs DEF Places
<1>3. PartitionEnds(compact, expanded) = ends
  BY DEF PartitionEnds, Ending, EndAfter, Hits
<1>4. \A f : Ending(f, compact, expanded) <=>
             f = [i \in 0 .. size |-> IF i = 0 THEN 0 ELSE Then(f[i - 1], i)]
  BY DEF Ending
<1>5. \A p \in Places : \A i : Then(p, i) = -1 \/ (p \in Nat /\ Then(p, i) \in Nat /\ p < Then(p, i))
  BY EndAfterIs
<1> HIDE DEF size
<1>6. step \in [Places \X (1 .. size) -> Places]
  <2> HIDE DEF Then
  <2> QED BY <1>2
<1>7. \A p \in Places, i \in 1 .. size : step[<<p, i>>] = Then(p, i)
  <2> HIDE DEF Then
  <2> QED OBVIOUS
<1> HIDE DEF step, Then
<1>8. PICK f \in [0 .. size -> Places] : Runs(f, 0, size, step)
  BY <1>1, <1>6, Recursion
<1>9. Ending(f, compact, expanded)
  <2>1. ASSUME NEW i \in 0 .. size
        PROVE  f[i] = IF i = 0 THEN 0 ELSE Then(f[i - 1], i)
    <3>1. i = 0 \/ (i \in 1 .. size /\ i - 1 \in 0 .. size)
      BY <1>1
    <3> QED BY <1>7, <1>8, <3>1 DEF Runs
  <2>2. f = [i \in 0 .. size |-> f[i]]
    BY <1>8
  <2> QED BY <1>4, <2>1, <2>2
<1>10. Ending(ends, compact, expanded)
  BY <1>9
<1> HIDE DEF ends
<1>11. /\ ends[0] = 0 /\ ends = [i \in 0 .. size |-> ends[i]]
       /\ \A i \in 1 .. size : ends[i] = Then(ends[i - 1], i)
  <2>1. \A i \in 0 .. size : ends[i] = IF i = 0 THEN 0 ELSE Then(ends[i - 1], i)
    BY <1>4, <1>10
  <2>2. ends = [i \in 0 .. size |-> ends[i]]
    BY <1>4, <1>10
  <2>3. 0 \in 0 .. size /\ \A i \in 1 .. size : i \in 0 .. size /\ i # 0
    BY <1>1
  <2> QED BY <2>1, <2>2, <2>3
<1>12. RunsWithin(Places, ends, 0, size, step)
  BY <1>7, <1>11 DEF RunsWithin
<1>13. ends \in [0 .. size -> Places]
  BY <1>1, <1>6, <1>12, Followed
<1>14. ASSUME NEW i \in 1 .. size
       PROVE  ends[i] = -1 \/ (ends[i - 1] \in Nat /\ ends[i] \in Nat /\ ends[i - 1] < ends[i])
  <2>1. i - 1 \in 0 .. size /\ ends[i - 1] \in Places
    BY <1>1, <1>13
  <2> QED BY <1>5, <1>11, <2>1
<1> QED BY <1>3, <1>11, <1>14 DEF size

\* The episodes a title of the compact order stands for.
Between(ends, i) == ends[i - 1] + 1 .. ends[i]

\* A compact order that ends where the season does covers it.
LEMMA BetweenIs ==
  ASSUME NEW compact, NEW expanded, Len(compact) \in Nat, Len(expanded) \in Nat,
         NEW ends, ends = PartitionEnds(compact, expanded),
         ends[Len(compact)] = Len(expanded)
  PROVE  UNION {Between(ends, i) : i \in 1 .. Len(compact)} = 1 .. Len(expanded)
<1> DEFINE size == Len(compact)
           Behind(i) == UNION {Between(ends, j) : j \in 1 .. i}
           Right(i) == ends[i] = -1 \/ (ends[i] \in Nat /\ Behind(i) = 1 .. ends[i])
           set == {i \in 0 .. size : Right(i)}
<1>1. /\ ends[0] = 0
      /\ \A i \in 1 .. size :
           ends[i] = -1 \/ (ends[i - 1] \in Nat /\ ends[i] \in Nat /\ ends[i - 1] < ends[i])
  BY EndsAre
<1>2. 0 \in set
  <2>1. Behind(0) = {} /\ 1 .. 0 = {}
    OBVIOUS
  <2> HIDE DEF Behind
  <2>2. Right(0)
    BY <1>1, <2>1
  <2> HIDE DEF Right
  <2> QED BY <2>2
<1>3. ASSUME NEW i \in 1 .. size, i - 1 \in set PROVE i \in set
  <2>1. CASE ends[i] = -1
    BY <2>1
  <2>2. CASE ends[i - 1] \in Nat /\ ends[i] \in Nat /\ ends[i - 1] < ends[i]
    <3>1. Behind(i - 1) = 1 .. ends[i - 1]
      BY <1>3, <2>2
    <3>2. Behind(i) = Behind(i - 1) \cup Between(ends, i)
      <4>1. 1 .. i = (1 .. (i - 1)) \cup {i}
        OBVIOUS
      <4> HIDE DEF size
      <4> QED BY <4>1
    <3> HIDE DEF Behind
    <3>3. (1 .. ends[i - 1]) \cup Between(ends, i) = 1 .. ends[i]
      BY <2>2 DEF Between
    <3>4. Behind(i) = 1 .. ends[i]
      BY <3>1, <3>2, <3>3
    <3> QED BY <2>2, <3>4
  <2> QED BY <1>1, <2>1, <2>2
<1>4. size \in set
  <2> HIDE DEF set
  <2>1. 0 .. size \subseteq set
    BY <1>2, <1>3, Upto
  <2> QED BY <2>1
<1>5. Right(size)
  <2> HIDE DEF Right
  <2> QED BY <1>4
<1> HIDE DEF Behind
<1>6. Behind(size) = 1 .. Len(expanded)
  BY <1>5
<1> QED BY <1>6 DEF Behind

\* A compact order covers all of the season it partitions.
LEMMA MappedIsEntire ==
  ASSUME NEW t, SeasonIs(t), NEW g, Segmented(g, t)
  PROVE  Entire(t, MappedSegment(g, t))
<1> DEFINE compact == S(t).alternate
           official == S(t).official
           ends == PartitionEnds(compact, official)
           set(i) == {<<i, t, e>> : e \in Between(ends, i)}
<1>1. /\ Len(compact) \in Nat /\ DOMAIN compact = 1 .. Len(compact) /\ Len(official) \in Nat
  <2>1. compact \in Seq(Seq(STRING)) /\ official \in Seq(Seq(STRING))
    BY DEF SeasonIs, SeasonData
  <2> HIDE DEF compact, official
  <2> QED BY <2>1
<1>2. ends[Len(compact)] = Len(official) /\ Len(official) = S(t).count
  BY DEF Segmented
<1>3. MappedSegment(g, t).links = UNION {set(i) : i \in 1 .. Len(compact)}
  BY <1>1 DEF MappedSegment, Between
<1> HIDE DEF compact, official, ends
<1>4. UNION {Between(ends, i) : i \in 1 .. Len(compact)} = 1 .. Len(official)
  BY <1>1, <1>2, BetweenIs DEF ends
<1>5. Destinations(MappedSegment(g, t)) = UNION {Between(ends, i) : i \in 1 .. Len(compact)}
  <2>1. \A d : d \in Destinations(MappedSegment(g, t)) <=> \E l \in MappedSegment(g, t).links : l[3] = d
    BY DEF Destinations
  <2>2. ASSUME NEW i, NEW d
        PROVE  (\E l \in set(i) : l[3] = d) <=> d \in Between(ends, i)
    <3>1. ASSUME NEW l \in set(i) PROVE l[3] \in Between(ends, i)
      OBVIOUS
    <3>2. ASSUME d \in Between(ends, i) PROVE <<i, t, d>> \in set(i) /\ <<i, t, d>>[3] = d
      BY <3>2
    <3> HIDE DEF set
    <3> QED BY <3>1, <3>2
  <2> HIDE DEF set
  <2> QED BY <1>3, <2>1, <2>2
<1> QED BY <1>2, <1>4, <1>5 DEF Entire, Desired

\* A rule that applies gives proposals.
Fitted(t, rule) == rule.when => Offers(t, rule.gives)

\* A rule fits when what it gives are proposals whenever it applies.
LEMMA RuleFits ==
  ASSUME NEW t, NEW when, NEW gives, when => Offers(t, gives)
  PROVE  Fitted(t, [when |-> when, gives |-> gives])
<1> DEFINE rule == [when |-> when, gives |-> gives]
<1>1. rule.when = when /\ rule.gives = gives
  OBVIOUS
<1> HIDE DEF rule
<1> QED BY <1>1, Zenon DEF Fitted

\* A rule that gives a list as long as the season.
LEMMA LinkedFits ==
  ASSUME NEW t, SeasonIs(t), NEW g, NEW nums, NEW when, NEW basis,
         when /\ Complete(t) => IsList(nums) /\ S(t).count <= Len(nums)
  PROVE  Fitted(t, [when |-> Complete(t) /\ when, gives |-> <<Linked(g, t, nums, 0, basis)>>])
<1> DEFINE seg == Linked(g, t, nums, 0, basis)
<1>1. ASSUME Complete(t) /\ when PROVE Offers(t, <<seg>>)
  <2>1. Entire(t, seg)
    BY <1>1, EntireLinked
  <2> HIDE DEF seg
  <2> QED BY <2>1, OffersOne DEF Proposal
<1> DEFINE applies == Complete(t) /\ when
<1>2. applies => Offers(t, <<seg>>)
  BY <1>1
<1> HIDE DEF seg, applies
<1>3. Fitted(t, [when |-> applies, gives |-> <<seg>>])
  BY <1>2, RuleFits
<1> QED BY <1>3 DEF seg, applies

\* The first so many of a list.
LEMMA TakeIs ==
  ASSUME NEW X, NEW s \in Seq(X), NEW n \in Nat, n <= Len(s)
  PROVE  IsList(Take(s, n)) /\ Len(Take(s, n)) = n
<1>1. Len(s) \in Nat
  OBVIOUS
<1>2. Min({n, Len(s)}) = n
  <2>1. Min({n, Len(s)}) \in {n, Len(s)} /\ Min({n, Len(s)}) <= n
    BY <1>1, MinIs
  <2> QED BY <1>1, <2>1
<1>3. Take(s, n) = SubSeq(s, 1, n)
  BY <1>2 DEF Take
<1>4. SubSeq(s, 1, n) = [i \in 1 .. n |-> s[i]]
  BY <1>1
<1> QED BY <1>3, <1>4 DEF IsList

\* The rules that admit or exclude a release.
LEMMA AdmissionFits ==
  ASSUME NEW t, SeasonIs(t), NEW g
  PROVE  Len(Admission(g, t)) = 5 /\ \A i \in 1 .. 5 : Fitted(t, Admission(g, t)[i])
<1> DEFINE rules == Admission(g, t)
           live == Linked(g, t, Nums(g), 0, "airing_prefix")
           moved == Linked(g, t, TailNumbers(g, t), 0, "relocated_special")
<1>1. Len(rules) = 5
  BY DEF Admission
<1>2. Fitted(t, rules[1])
  <2>1. rules[1] = [when |-> LivePrefix(g, t), gives |-> <<live>>]
    BY DEF Admission
  <2>2. Piece(t, live)
    <3>1. live.basis = "airing_prefix" /\ Placed(live, t, 0)
      BY LinkedIs
    <3> HIDE DEF live
    <3> QED BY <3>1 DEF Piece, Rank
  <2> HIDE DEF rules, live
  <2>3. LivePrefix(g, t) => Offers(t, <<live>>)
    BY <2>2, OffersOne DEF Proposal
  <2> QED BY <2>1, <2>3, RuleFits
<1>3. Fitted(t, rules[2]) /\ Fitted(t, rules[3]) /\ Fitted(t, rules[5])
  <2>1. rules[2].gives = <<>> /\ rules[3].gives = <<>> /\ rules[5].gives = <<>>
    BY DEF Admission
  <2> HIDE DEF rules
  <2> QED BY <2>1, OffersNone DEF Fitted
<1>4. Fitted(t, rules[4])
  <2>1. rules[4] = [when |-> Complete(t) /\ Relocated(g, t),
                    gives |-> IF Relocated(g, t) THEN <<moved>> ELSE <<>>]
    BY DEF Admission
  <2>2. ASSUME Complete(t), Relocated(g, t) PROVE Entire(t, moved)
    <3>1. RelocatedFrom(g, t) # {}
      <4> DEFINE from == RelocatedFrom(g, t)
      <4>1. Cardinality(from) = 1
        BY <2>2 DEF Relocated
      <4>2. from = {} => Cardinality(from) = 0
        BY FS_EmptySet
      <4> QED BY <4>1, <4>2
    <3>2. t = 0 /\ Len(S(0).official) = S(0).count
      BY <3>1 DEF RelocatedFrom
    <3>3. IsList(TailNumbers(g, t)) /\ Len(TailNumbers(g, t)) = S(t).count
      <4>1. Len(S(0).official) \in Nat
        BY <3>2, SeasonNumbers
      <4> QED BY <3>2, <4>1 DEF TailNumbers, IsList
    <3>4. S(t).count <= Len(TailNumbers(g, t))
      BY <3>3, SeasonNumbers
    <3> QED BY <2>2, <3>3, <3>4, EntireLinked
  <2> HIDE DEF rules, moved
  <2>3. Complete(t) /\ Relocated(g, t)
          => Offers(t, IF Relocated(g, t) THEN <<moved>> ELSE <<>>)
    BY <2>2, OffersOne DEF Proposal
  <2> QED BY <2>1, <2>3, RuleFits
<1> HIDE DEF rules
<1>5. \A i \in 1 .. 5 : i = 1 \/ i = 2 \/ i = 3 \/ i = 4 \/ i = 5
  OBVIOUS
<1> QED BY <1>1, <1>2, <1>3, <1>4, <1>5 DEF rules

\* The rules for a release that is the season.
LEMMA WholeSeasonFits ==
  ASSUME NEW t, SeasonIs(t), NEW g, ReleaseIs(g)
  PROVE  Len(WholeSeason(g, t)) = 15 /\ \A i \in 1 .. 15 : Fitted(t, WholeSeason(g, t)[i])
<1> DEFINE f == Fact(g, t)
           n == Rows(t)
           same == Len(Nums(g)) = n
           dated == PremieresAt(g, t, 1)
           Line(when, nums, basis) == [when |-> Complete(t) /\ when,
                                       gives |-> <<Linked(g, t, nums, 0, basis)>>]
           All(when, basis) == Line(same /\ when, Nums(g), basis)
           Prefix(when, basis) == Line(Contiguous(Nums(g)) /\ when, Take(Nums(g), n), basis)
           rules == WholeSeason(g, t)
<1>1. rules =
       << Line("scoped" \in f /\ ExclusionProjection(g, t), KeptNumbers(g), "exclusion_projection"),
          All(Exact(g, t) /\ dated, "whole_target_identity"),
          All("article" \in f /\ dated, "article_identity"),
          [when |-> Complete(t) /\ Segmented(g, t) /\ dated, gives |-> <<MappedSegment(g, t)>>],
          All("mal" \in f /\ Shape(g).declared = S(t).count, "provider_mal_identity"),
          Prefix("scoped" \in f /\ "alias_count" \in f /\ Len(Nums(g)) > n, "identity_prefix"),
          Prefix(Exact(g, t) /\ OrderingPrefix(g, t) /\ "mal" \in f, "ordering_prefix_with_identity"),
          Prefix(Exact(g, t) /\ OrderingPrefix(g, t), "ordering_prefix"),
          Prefix(Exact(g, t) /\ SeriesSpan(g, t) /\ dated, "series_span_prefix"),
          All("named_season" \in f, "named_season"),
          All(Exact(g, t) /\ case.independent /\ Structured(t) /\ "season_premiere" \in f,
              "independent_premiere"),
          All("scoped" \in f /\ "year" \in f, "scoped_alias_year"),
          All("scoped_named" \in f, "scoped_alias"),
          All("ordinal" \in f /\ Structured(t), "ordinal_with_structure"),
          All("root" \in f /\ dated, "series_prefix_date") >>
  BY DEF WholeSeason
<1>2. /\ Nums(g) \in Seq(Nat) /\ Len(Nums(g)) \in Nat /\ IsList(Nums(g))
      /\ n \in Nat /\ S(t).count \in Nat /\ Shape(g).declared \in Nat
  BY ReleaseNumbers, SeasonNumbers DEF IsList
<1>3. Complete(t) => n = S(t).count
  BY DEF Complete, Counted
<1>4. ASSUME NEW when, NEW basis PROVE Fitted(t, All(when, basis))
  BY <1>2, <1>3, LinkedFits
<1>5. ASSUME NEW when, NEW basis, when /\ Complete(t) => n <= Len(Nums(g))
      PROVE  Fitted(t, Prefix(when, basis))
  <2>1. when /\ Complete(t) => IsList(Take(Nums(g), n)) /\ S(t).count <= Len(Take(Nums(g), n))
    BY <1>2, <1>3, <1>5, TakeIs
  <2> QED BY <2>1, LinkedFits
<1>6. Fitted(t, rules[1])
  <2>1. KeptNumbers(g) \in Seq(Nat)
    BY KeptNumbersAre
  <2>2. IsList(KeptNumbers(g))
    BY <2>1 DEF IsList
  <2>3. ExclusionProjection(g, t) => S(t).count <= Len(KeptNumbers(g))
    BY <1>2 DEF ExclusionProjection
  <2> QED BY <1>1, <2>2, <2>3, LinkedFits
<1>7. Fitted(t, rules[4])
  <2>1. Segmented(g, t) => Offers(t, <<MappedSegment(g, t)>>)
    BY MappedIsEntire, OffersOne DEF Proposal
  <2> DEFINE applies == Complete(t) /\ Segmented(g, t) /\ dated
  <2>2. applies => Offers(t, <<MappedSegment(g, t)>>)
    BY <2>1
  <2>3. rules[4] = [when |-> applies, gives |-> <<MappedSegment(g, t)>>]
    BY <1>1
  <2> HIDE DEF rules, applies
  <2> QED BY <2>2, <2>3, RuleFits
<1>8. OrderingPrefix(g, t) /\ Complete(t) => n <= Len(Nums(g))
  BY <1>2, <1>3 DEF OrderingPrefix
<1>9. SeriesSpan(g, t) /\ Complete(t) => n <= Len(Nums(g))
  <2>1. SeriesSpan(g, t) => Len(Nums(g)) = Shape(g).declared /\ Shape(g).declared > S(t).count
    BY <1>2 DEF SeriesSpan
  <2> QED BY <1>2, <1>3, <2>1
<1> HIDE DEF n, f, dated, same
<1>10. Fitted(t, rules[6]) /\ Fitted(t, rules[7]) /\ Fitted(t, rules[8]) /\ Fitted(t, rules[9])
  <2> HIDE DEF Prefix, All, Line
  <2>1. Len(Nums(g)) > n => n <= Len(Nums(g))
    BY <1>2
  <2>2. /\ rules[6] = Prefix("scoped" \in f /\ "alias_count" \in f /\ Len(Nums(g)) > n, "identity_prefix")
        /\ rules[7] = Prefix(Exact(g, t) /\ OrderingPrefix(g, t) /\ "mal" \in f, "ordering_prefix_with_identity")
        /\ rules[8] = Prefix(Exact(g, t) /\ OrderingPrefix(g, t), "ordering_prefix")
        /\ rules[9] = Prefix(Exact(g, t) /\ SeriesSpan(g, t) /\ dated, "series_span_prefix")
    BY <1>1
  <2> QED BY <1>5, <1>8, <1>9, <2>1, <2>2
<1>11. \A i \in {2, 3, 5, 10, 11, 12, 13, 14, 15} : Fitted(t, rules[i])
  <2> HIDE DEF Prefix, All, Line
  <2> QED BY <1>1, <1>4
<1>12. Len(rules) = 15
  BY <1>1
<1> HIDE DEF rules
<1>13. \A i \in 1 .. 15 : i \in {1, 4, 6, 7, 8, 9} \/ i \in {2, 3, 5, 10, 11, 12, 13, 14, 15}
  OBVIOUS
<1> QED BY <1>6, <1>7, <1>10, <1>11, <1>12, <1>13 DEF rules

\* The parts of a season split by scene numbering.
LEMMA SceneOffers ==
  ASSUME NEW t, SeasonIs(t), NEW g
  PROVE  Offers(t, SceneSegments(g, t))
<1> DEFINE b == S(t).scene
           part(s) == IF s = 1 THEN [at |-> 0, size |-> b] ELSE [at |-> b, size |-> Rows(t) - b]
           holds(s) ==
             /\ Complete(t) /\ b > 0 /\ part(s).size > 0
             /\ (IF s = 1 THEN "scene1" ELSE "scene2") \in Fact(g, t) \/ (s = 1 /\ Exact(g, t))
             /\ Nums(g) = [k \in 1 .. part(s).size |-> k]
             /\ PremieresAt(g, t, part(s).at + 1)
           seg(s) == Linked(g, t, Nums(g), part(s).at, "scene_coordinates")
           of(s) == IF holds(s) THEN <<seg(s)>> ELSE <<>>
<1>1. SceneSegments(g, t) = of(1) \o of(2)
  BY DEF SceneSegments
<1>2. ASSUME NEW s \in {1, 2} PROVE Offers(t, of(s))
  <2>1. part(s).at \in Nat
    BY SeasonNumbers
  <2> HIDE DEF part
  <2>3. seg(s).release = g /\ seg(s).basis = "scene_coordinates" /\ Placed(seg(s), t, part(s).at)
    BY LinkedIs
  <2> HIDE DEF holds, seg
  <2>4. Piece(t, seg(s))
    BY <2>1, <2>3 DEF Piece, Rank
  <2> QED BY <2>4, OffersNone, OffersOne DEF Proposal
<1> HIDE DEF of
<1>3. Offers(t, of(1)) /\ Offers(t, of(2))
  BY <1>2
<1> QED BY <1>1, <1>3, OffersMore

\* The rules of a release and a season give proposals.
LEMMA RuledOffers ==
  ASSUME NEW t, SeasonIs(t), NEW g, ReleaseIs(g)
  PROVE  Offers(t, Ruled(g, t))
<1> DEFINE rules == Admission(g, t) \o WholeSeason(g, t)
           hits == {i \in DOMAIN rules : rules[i].when}
<1>1. Ruled(g, t) = IF hits = {} THEN SceneSegments(g, t) ELSE rules[Min(hits)].gives
  BY DEF Ruled
<1>2. /\ Len(Admission(g, t)) = 5 /\ Len(WholeSeason(g, t)) = 15
      /\ \A i \in 1 .. 5 : Fitted(t, Admission(g, t)[i])
      /\ \A i \in 1 .. 15 : Fitted(t, WholeSeason(g, t)[i])
  BY AdmissionFits, WholeSeasonFits
<1>3. rules = [i \in 1 .. 20 |-> IF i <= 5 THEN Admission(g, t)[i] ELSE WholeSeason(g, t)[i - 5]]
  <2> DEFINE a == Admission(g, t)
             w == WholeSeason(g, t)
             all == {a[i] : i \in 1 .. 5} \cup {w[i] : i \in 1 .. 15}
  <2>1. a = [i \in 1 .. 5 |-> a[i]]
    BY DEF Admission
  <2>2. w = [i \in 1 .. 15 |-> w[i]]
    BY DEF WholeSeason
  <2>3. (\A i \in 1 .. 5 : a[i] \in all) /\ \A i \in 1 .. 15 : w[i] \in all
    OBVIOUS
  <2> HIDE DEF a, w, all
  <2>4. a \in Seq(all) /\ w \in Seq(all)
    BY <2>1, <2>2, <2>3
  <2>5. Len(a) = 5 /\ Len(w) = 15
    BY <1>2 DEF a, w
  <2>6. a \o w = [i \in 1 .. 20 |-> IF i <= 5 THEN a[i] ELSE w[i - 5]]
    <3> DEFINE both == a \o w
    <3>1. /\ both \in Seq(all) /\ Len(both) = Len(a) + Len(w)
          /\ \A i \in 1 .. Len(a) + Len(w) : both[i] = IF i <= Len(a) THEN a[i] ELSE w[i - Len(a)]
      BY <2>4, ConcatProperties
    <3> HIDE DEF both
    <3>2. Len(both) = 20
      BY <2>5, <3>1
    <3>3. both = [i \in 1 .. 20 |-> both[i]]
      <4>1. both \in Seq(all)
        BY <3>1
      <4>2. both \in [1 .. Len(both) -> all]
        BY <4>1
      <4> QED BY <3>2, <4>2
    <3>4. \A i \in 1 .. 20 : both[i] = IF i <= 5 THEN a[i] ELSE w[i - 5]
      BY <2>5, <3>1
    <3> QED BY <3>3, <3>4 DEF both
  <2> QED BY <2>6 DEF a, w
<1>4. DOMAIN rules = 1 .. 20 /\ \A i \in 1 .. 20 : Fitted(t, rules[i])
  <2>1. ASSUME NEW i \in 1 .. 20 PROVE Fitted(t, rules[i])
    <3>1. CASE i <= 5
      <4>1. rules[i] = Admission(g, t)[i] /\ i \in 1 .. 5
        BY <1>3, <3>1
      <4> HIDE DEF rules
      <4> QED BY <1>2, <4>1
    <3>2. CASE ~(i <= 5)
      <4>1. rules[i] = WholeSeason(g, t)[i - 5] /\ i - 5 \in 1 .. 15
        BY <1>3, <3>2
      <4> HIDE DEF rules
      <4> QED BY <1>2, <4>1
    <3> QED BY <3>1, <3>2
  <2>2. DOMAIN rules = 1 .. 20
    BY <1>3
  <2> HIDE DEF rules
  <2> QED BY <2>1, <2>2
<1> HIDE DEF rules
<1>5. CASE hits # {}
  <2>1. hits \in SUBSET Nat
    BY <1>4
  <2>2. Min(hits) \in hits
    <3> HIDE DEF hits
    <3> QED BY <1>5, <2>1, MinIs
  <2>3. Min(hits) \in 1 .. 20 /\ rules[Min(hits)].when
    BY <1>4, <2>2
  <2> QED BY <1>1, <1>4, <1>5, <2>3 DEF Fitted
<1> QED BY <1>1, <1>5, SceneOffers

(***************************************************************************)
(* What is composed of several releases.                                   *)
(***************************************************************************)
\* A chain of the weakest rank offers pieces of the season.
LEMMA PiecesOffers ==
  ASSUME CaseIs, GroupsAre, NEW gs, IsChain(gs), NEW t, NEW basis, Rank(basis) = 3
  PROVE  Offers(t, Chain(gs, t, basis))
<1>1. ASSUME NEW i \in 1 .. Len(gs), NEW seg, IsLink(seg, gs, i, t, basis) PROVE Piece(t, seg)
  <2>1. Before(gs, i) \in Nat
    BY BeforeIs
  <2> QED BY <1>1, <2>1 DEF Piece, IsLink
<1> QED BY <1>1, ChainOffers DEF Proposal

\* Two releases are a chain.
LEMMA PairIs ==
  ASSUME NEW a \in Releases, NEW b \in Releases
  PROVE  /\ IsChain(<<a, b>>) /\ Len(<<a, b>>) = 2 /\ <<a, b>>[1] = a /\ <<a, b>>[2] = b
         /\ DOMAIN <<a, b>> = {1, 2}
BY DEF IsChain

\* A season and what supplements it.
LEMMA SupplementOffers ==
  ASSUME CaseIs, GroupsAre, NEW t
  PROVE  Offers(t, SupplementSegments(t))
<1> DEFINE pair(b, e) == IF Supplemented(b, e, t) THEN Chain(<<b, e>>, t, "supplemental_suffix") ELSE <<>>
           size == Len(groups)
           row(b) == [e \in Releases |-> pair(b, e)]
           rows == [b \in Releases |-> FlattenSeq(row(b))]
<1>1. SupplementSegments(t) = IF Complete(t) THEN FlattenSeq(rows) ELSE <<>>
  BY DEF SupplementSegments
<1>2. size \in Nat /\ Releases = 1 .. size
  BY ReleasesAre
<1>3. ASSUME NEW b \in Releases, NEW e \in Releases PROVE Offers(t, pair(b, e))
  <2>1. CASE Supplemented(b, e, t)
    <3> DEFINE gs == <<b, e>>
    <3>1. IsChain(gs) /\ Len(gs) = 2 /\ gs[1] = b /\ gs[2] = e /\ DOMAIN gs = {1, 2}
      BY PairIs
    <3> HIDE DEF gs
    <3>6. Offers(t, Chain(gs, t, "supplemental_suffix"))
      BY <3>1, PiecesOffers DEF Rank
    <3> QED BY <2>1, <3>6 DEF gs
  <2>2. CASE ~Supplemented(b, e, t)
    BY <2>2, OffersNone
  <2> QED BY <2>1, <2>2
<1> HIDE DEF pair, size
<1>4. ASSUME NEW b \in Releases PROVE Offers(t, FlattenSeq(row(b)))
  <2>1. \A e \in 1 .. size : Offers(t, row(b)[e])
    BY <1>2, <1>3
  <2>2. row(b) = [e \in 1 .. size |-> row(b)[e]]
    BY <1>2
  <2> HIDE DEF row
  <2> QED BY <1>2, <2>1, <2>2, OffersAll
<1> HIDE DEF row
<1>5. Offers(t, FlattenSeq(rows))
  <2>1. \A b \in 1 .. size : Offers(t, rows[b])
    BY <1>2, <1>4
  <2>2. rows = [b \in 1 .. size |-> rows[b]]
    BY <1>2
  <2> HIDE DEF rows
  <2> QED BY <1>2, <2>1, <2>2, OffersAll
<1> QED BY <1>1, <1>5, OffersNone

\* The releases an independent source puts at offsets of the season.
LEMMA OffsetOffers ==
  ASSUME CaseIs, GroupsAre, NEW t \in Seasons
  PROVE  Offers(t, OffsetSegments(t))
<1> DEFINE fits(g, e) == /\ e.name \in Names(g) /\ Whole(g) /\ Len(Nums(g)) = e.size
                         /\ PremieresAt(g, t, e.at + 1)
           slots(e) == e.at + 1 .. e.at + e.size
           valid(es) ==
             /\ Cardinality(es) >= 2
             /\ \A e \in es : Cardinality({g \in Releases : fits(g, e)}) = 1
             /\ \A e, d \in es : e = d \/ slots(e) \cap slots(d) = {}
             /\ UNION {slots(e) : e \in es} = 1 .. Rows(t)
           chosen(e) == CHOOSE g \in Releases : fits(g, e)
           piece(e) == Linked(chosen(e), t, [k \in 1 .. e.size |-> k], e.at,
                           "episode_offset_composition")
           pieces == UNION OffsetChains(t)
           starting(k) == {seg \in pieces : Min(Destinations(seg)) = k}
           first(k) == CHOOSE seg \in starting(k) : TRUE
           list(k) == IF starting(k) = {} THEN <<>> ELSE <<first(k)>>
           lists == [k \in 1 .. Rows(t) |-> list(k)]
<1>1. OffsetChains(t) = {{piece(e) : e \in es} : es \in {x \in case.offsets[t] : valid(x)}}
  BY DEF OffsetChains
<1>2. OffsetSegments(t) = IF Complete(t) /\ Cardinality(OffsetChains(t)) = 1
                          THEN FlattenSeq(lists) ELSE <<>>
  BY DEF OffsetSegments
<1>3. case.offsets[t] \in SUBSET SUBSET PieceData /\ SeasonIs(t)
  BY SeasonsAre
<1>4. ASSUME NEW es \in case.offsets[t], valid(es), NEW e \in es PROVE Piece(t, piece(e))
  <2>1. e.size \in Nat /\ e.at \in Nat
    BY <1>3, <1>4 DEF PieceData
  <2>2. fits(chosen(e), e) /\ chosen(e) \in Releases
    <3> DEFINE some == {g \in Releases : fits(g, e)}
    <3>1. Cardinality(some) = 1
      BY <1>4
    <3> HIDE DEF fits
    <3>2. some # {}
      <4> HIDE DEF some
      <4>1. some = {} => Cardinality(some) = 0
        BY FS_EmptySet
      <4> QED BY <3>1, <4>1
    <3>3. \E g \in Releases : fits(g, e)
      BY <3>2
    <3> QED BY <3>3
  <2> HIDE DEF chosen
  <2>3. Nums(chosen(e)) = [k \in 1 .. e.size |-> k]
    <3>1. Nums(chosen(e)) \in Seq(Nat)
      BY <2>2, ReleasesAre, ReleaseNumbers
    <3>2. DOMAIN Nums(chosen(e)) = 1 .. e.size
      BY <2>2, <3>1
    <3> QED BY <2>2, <3>2 DEF Whole, Contiguous
  <2>4. /\ piece(e).release = chosen(e) /\ piece(e).basis = "episode_offset_composition"
        /\ Placed(piece(e), t, e.at)
    <3> DEFINE nums == [k \in 1 .. e.size |-> k]
    <3>1. nums = Nums(chosen(e))
      BY <2>3
    <3> HIDE DEF nums
    <3>2. LET seg == Linked(chosen(e), t, nums, e.at, "episode_offset_composition") IN
          seg.release = chosen(e) /\ seg.basis = "episode_offset_composition" /\ Placed(seg, t, e.at)
      BY <3>1, LinkedIs
    <3> QED BY <3>2 DEF nums
  <2> HIDE DEF piece
  <2> QED BY <2>1, <2>4 DEF Piece, Rank
<1>5. \A seg \in pieces : Proposal(t, seg)
  <2> HIDE DEF valid, piece
  <2>1. ASSUME NEW seg \in pieces PROVE Piece(t, seg)
    <3>1. PICK es \in case.offsets[t] : valid(es) /\ seg \in {piece(e) : e \in es}
      BY <1>1
    <3>2. PICK e \in es : seg = piece(e)
      BY <3>1
    <3> QED BY <1>4, <3>1, <3>2
  <2> QED BY <2>1 DEF Proposal
<1> HIDE DEF pieces
<1>6. ASSUME NEW k PROVE Offers(t, list(k))
  <2>1. starting(k) # {} => first(k) \in pieces
    OBVIOUS
  <2> HIDE DEF starting, first
  <2> QED BY <1>5, <2>1, OffersNone, OffersOne
<1> HIDE DEF list
<1>7. Offers(t, FlattenSeq(lists))
  <2>1. Rows(t) \in Nat
    BY <1>3, SeasonNumbers
  <2>2. lists = [k \in 1 .. Rows(t) |-> lists[k]] /\ \A k \in 1 .. Rows(t) : Offers(t, lists[k])
    BY <1>6
  <2> HIDE DEF lists
  <2> QED BY <2>1, <2>2, OffersAll
<1> QED BY <1>2, <1>7, OffersNone

\* The releases of a family, in the order of their numbers.
LEMMA FamilyIs ==
  ASSUME CaseIs, GroupsAre, NEW set \in SUBSET Releases, set # {}, NEW number \in [set -> Nat],
         NEW f, f = Family(number), Consecutive(f)
  PROVE  IsChain(InOrder(f))
<1> DEFINE low == Min(DOMAIN f)
           high == Max(DOMAIN f)
           of(n) == {g \in set : number[g] = n}
           gs == InOrder(f)
<1>1. DOMAIN f = {number[g] : g \in set}
  BY DEF Family, Range
<1>2. \A n \in DOMAIN f : f[n] = Max(of(n))
  BY <1>1 DEF Family, Range
<1>3. IsFiniteSet(set) /\ Len(groups) \in Nat /\ set \in SUBSET Nat /\ \A g \in set : g <= Len(groups)
  <2>1. Len(groups) \in Nat /\ Releases = 1 .. Len(groups)
    BY ReleasesAre
  <2>2. IsFiniteSet(Releases)
    BY <2>1, FS_Interval
  <2>3. IsFiniteSet(set)
    BY <2>2, FS_Subset
  <2> QED BY <2>1, <2>3
<1>4. low \in Nat /\ high \in Nat /\ low < high /\ DOMAIN f = low .. high
  <2>1. DOMAIN f \in SUBSET Nat /\ DOMAIN f # {}
    BY <1>1
  <2>2. PICK m \in Nat : \A g \in set : number[g] <= m
    BY <1>3, BoundIs
  <2>3. \A n \in DOMAIN f : n <= m
    BY <1>1, <2>2
  <2>4. low \in DOMAIN f /\ high \in DOMAIN f
    BY <2>1, <2>3, MinIs, MaxIs
  <2> QED BY <2>1, <2>4 DEF Consecutive
<1>5. ASSUME NEW n \in DOMAIN f PROVE f[n] \in of(n)
  <2>1. of(n) \in SUBSET Nat /\ of(n) # {} /\ \A g \in of(n) : g <= Len(groups)
    BY <1>1, <1>3
  <2> HIDE DEF of
  <2>2. Max(of(n)) \in of(n)
    BY <1>3, <2>1, MaxIs
  <2> QED BY <1>2, <2>2
<1>6. gs = [i \in 1 .. high - low + 1 |-> f[low + i - 1]]
  BY DEF InOrder
<1> HIDE DEF low, high, gs
<1>7. Len(gs) = high - low + 1
  BY <1>4, <1>6
<1>8. ASSUME NEW i \in 1 .. Len(gs)
      PROVE  gs[i] \in set
  <2>1. gs[i] = f[low + i - 1] /\ low + i - 1 \in DOMAIN f
    BY <1>4, <1>6, <1>7
  <2>2. gs[i] \in of(low + i - 1)
    BY <1>5, <2>1
  <2> QED BY <2>2
<1>9. IsChain(gs)
  <2>1. \A i \in 1 .. Len(gs) : gs[i] \in Releases
    BY <1>8
  <2>2. gs = [i \in 1 .. Len(gs) |-> gs[i]] /\ Len(gs) \in Nat
    BY <1>4, <1>6, <1>7
  <2> HIDE DEF Releases
  <2>3. gs \in Seq(Releases)
    BY <2>1, <2>2
  <2> QED BY <2>3 DEF IsChain
<1> QED BY <1>9 DEF gs

\* Cours labelled Part 1, Part 2, ...
LEMMA PartOffers ==
  ASSUME CaseIs, GroupsAre, NEW t
  PROVE  Offers(t, PartSegments(t))
<1> DEFINE kin(g) == {h \in Releases : Whole(h) /\ PartBase(h) = PartBase(g)}
           number(g) == [h \in kin(g) |-> PartNumber(h)]
           of(g) == IF Whole(g) /\ \A h \in kin(g) : g <= h THEN PartChain(Family(number(g)), t) ELSE <<>>
           lists == [g \in Releases |-> of(g)]
<1>1. PartSegments(t) = IF Complete(t) THEN FlattenSeq(lists) ELSE <<>>
  BY DEF PartSegments
<1>2. Len(groups) \in Nat /\ Releases = 1 .. Len(groups)
  BY ReleasesAre
<1>3. ASSUME NEW g \in Releases, Whole(g) PROVE Offers(t, PartChain(Family(number(g)), t))
  <2> DEFINE f == Family(number(g))
             gs == InOrder(f)
  <2>1. kin(g) \in SUBSET Releases /\ kin(g) # {}
    BY <1>3
  <2>2. number(g) \in [kin(g) -> Nat]
    <3>1. \A h \in Releases : PartNumber(h) \in Nat
      BY ReleasesAre, ReleaseNumbers DEF PartNumber
    <3> QED BY <3>1
  <2> HIDE DEF f
  <2>3. PartChain(f, t) = IF ~(Consecutive(f) /\ Min(DOMAIN f) = 1) THEN <<>>
                          ELSE IF "title" \notin Fact(gs[1], t) \/ ~Fills(gs, t) THEN <<>>
                          ELSE IF Anchored(gs, t) THEN Chain(gs, t, "part_label_with_boundary")
                          ELSE IF "scoped" \in Fact(gs[1], t) THEN Chain(gs, t, "part_labels_scoped")
                          ELSE <<>>
    BY DEF PartChain
  <2>4. ASSUME Consecutive(f) /\ Min(DOMAIN f) = 1 PROVE Offers(t, PartChain(f, t))
    <3>1. IsChain(gs)
      <4> DEFINE kinsOf == kin(g)
                 numberOf == number(g)
      <4>1. kinsOf \in SUBSET Releases /\ kinsOf # {} /\ numberOf \in [kinsOf -> Nat] /\ f = Family(numberOf)
        BY <2>1, <2>2 DEF f
      <4> HIDE DEF kinsOf, numberOf
      <4> QED BY <2>4, <4>1, FamilyIs
    <3> HIDE DEF gs, kin, number
    <3>3. Offers(t, Chain(gs, t, "part_label_with_boundary"))
      BY <3>1, PiecesOffers DEF Rank
    <3>4. Offers(t, Chain(gs, t, "part_labels_scoped"))
      BY <3>1, PiecesOffers DEF Rank
    <3> QED BY <2>3, <2>4, <3>3, <3>4, OffersNone
  <2>5. Offers(t, PartChain(f, t))
    BY <2>3, <2>4, OffersNone
  <2> QED BY <2>5 DEF f
<1>4. ASSUME NEW g \in Releases PROVE Offers(t, of(g))
  <2> HIDE DEF kin, number
  <2> QED BY <1>3, OffersNone
<1> HIDE DEF of
<1>5. Offers(t, FlattenSeq(lists))
  <2>1. lists = [g \in 1 .. Len(groups) |-> lists[g]] /\ \A g \in 1 .. Len(groups) : Offers(t, lists[g])
    BY <1>2, <1>4
  <2> HIDE DEF lists
  <2> QED BY <1>2, <2>1, OffersAll
<1> QED BY <1>1, <1>5, OffersNone

\* Numbered releases a scoped alias binds to one season.
LEMMA SequentialOffers ==
  ASSUME CaseIs, GroupsAre, NEW t
  PROVE  Offers(t, SequentialSegments(t))
<1> DEFINE kin(g) == {h \in Releases : /\ Sequential(h, t)
                                       /\ Shape(h).family = Shape(g).family /\ Shape(h).label = Shape(g).label}
           number(g) == [h \in kin(g) |-> Shape(h).number]
           of(g) == IF Sequential(g, t) /\ \A h \in kin(g) : g <= h
                    THEN SequentialChain(Family(number(g)), t) ELSE <<>>
           lists == [g \in Releases |-> of(g)]
<1>1. SequentialSegments(t) = IF Counted(t) THEN FlattenSeq(lists) ELSE <<>>
  BY DEF SequentialSegments
<1>2. Len(groups) \in Nat /\ Releases = 1 .. Len(groups)
  BY ReleasesAre
<1>3. ASSUME NEW g \in Releases, Sequential(g, t) PROVE Offers(t, SequentialChain(Family(number(g)), t))
  <2> DEFINE f == Family(number(g))
             gs == InOrder(f)
             kinsOf == kin(g)
             numberOf == number(g)
  <2>1. kinsOf \in SUBSET Releases /\ kinsOf # {}
    BY <1>3
  <2>2. numberOf \in [kinsOf -> Nat]
    <3>1. \A h \in Releases : Shape(h).number \in Nat
      BY ReleasesAre, ReleaseNumbers
    <3> QED BY <3>1
  <2> HIDE DEF kinsOf, numberOf
  <2>3. f = Family(numberOf)
    BY DEF numberOf
  <2> HIDE DEF f
  <2>4. SequentialChain(f, t) = IF ~Consecutive(f) THEN <<>>
                                ELSE IF Fills(gs, t) /\ Anchored(gs, t)
                                     THEN Chain(gs, t, "scoped_sequential_seasons") ELSE <<>>
    BY DEF SequentialChain
  <2>5. Consecutive(f) => IsChain(gs)
    BY <2>1, <2>2, <2>3, FamilyIs
  <2> HIDE DEF gs
  <2>6. Consecutive(f) => Offers(t, Chain(gs, t, "scoped_sequential_seasons"))
    BY <2>5, PiecesOffers DEF Rank
  <2>7. Offers(t, SequentialChain(f, t))
    BY <2>4, <2>6, OffersNone
  <2> QED BY <2>7 DEF f
<1>4. ASSUME NEW g \in Releases PROVE Offers(t, of(g))
  <2> HIDE DEF kin, number
  <2> QED BY <1>3, OffersNone
<1> HIDE DEF of
<1>5. Offers(t, FlattenSeq(lists))
  <2>1. lists = [g \in 1 .. Len(groups) |-> lists[g]] /\ \A g \in 1 .. Len(groups) : Offers(t, lists[g])
    BY <1>2, <1>4
  <2> HIDE DEF lists
  <2> QED BY <1>2, <2>1, OffersAll
<1> QED BY <1>1, <1>5, OffersNone

\* A release and the one that continues it.
LEMMA ContinuationOffers ==
  ASSUME CaseIs, GroupsAre, NEW t
  PROVE  Offers(t, ContinuationSegments(t))
<1> DEFINE basis(a) == IF Scoped(a, t) THEN "numbered_continuation" ELSE "series_prefix_continuation"
           of(a, b) == IF Continued(a, b, t) THEN Chain(<<a, b>>, t, basis(a)) ELSE <<>>
           row(b) == [a \in Releases |-> of(a, b)]
           rows == [b \in Releases |-> FlattenSeq(row(b))]
<1>1. ContinuationSegments(t) = IF Counted(t) THEN FlattenSeq(rows) ELSE <<>>
  BY DEF ContinuationSegments
<1>2. Len(groups) \in Nat /\ Releases = 1 .. Len(groups)
  BY ReleasesAre
<1>3. ASSUME Counted(t), NEW a \in Releases, NEW b \in Releases, Continued(a, b, t)
      PROVE  Offers(t, Chain(<<a, b>>, t, basis(a)))
  <2> DEFINE gs == <<a, b>>
  <2>1. IsChain(gs) /\ Len(gs) = 2 /\ gs[1] = a /\ gs[2] = b
    BY PairIs
  <2> HIDE DEF gs
  <2>3. CASE Scoped(a, t)
    <3>1. Offers(t, Chain(gs, t, "numbered_continuation"))
      BY <2>1, PiecesOffers DEF Rank
    <3>2. basis(a) = "numbered_continuation"
      BY <2>3
    <3> QED BY <3>1, <3>2 DEF gs
  <2>4. CASE ~Scoped(a, t)
    <3> DEFINE kind == "series_prefix_continuation"
    <3>1. ReleaseIs(a) /\ ReleaseIs(b)
      BY ReleasesAre
    <3>2. Contiguous(Nums(a)) /\ Contiguous(Nums(b)) /\ Fills(gs, t)
      BY <1>3 DEF Continued, gs
    <3>3. Before(gs, 1) = 0 /\ Before(gs, 2) = Len(Nums(a)) /\ Rows(t) = Len(Nums(a)) + Len(Nums(b))
      <4>1. /\ Before(gs, 1) = 0 /\ Before(gs, 1 + 1) = Before(gs, 1) + Len(Nums(a))
            /\ Before(gs, 2 + 1) = Before(gs, 2) + Len(Nums(b))
        BY <2>1, BeforeIs
      <4>2. Len(Nums(a)) \in Nat /\ Len(Nums(b)) \in Nat
        BY <3>1, ReleaseNumbers
      <4> QED BY <2>1, <3>2, <4>1, <4>2 DEF Fills
    <3>4. 0 < Len(Nums(a)) /\ 0 < Len(Nums(b)) /\ Len(Nums(a)) \in Nat /\ Len(Nums(b)) \in Nat
      BY <3>1, <3>2, ReleaseNumbers DEF Contiguous
    <3>5. ASSUME NEW i \in 1 .. Len(gs), NEW seg, IsLink(seg, gs, i, t, kind)
          PROVE  Continuing(t, seg)
      <4>1. i = 1 \/ i = 2
        BY <2>1
      <4>2. Placed(seg, t, Before(gs, i)) /\ seg.release = gs[i]
        BY <3>5 DEF IsLink
      <4>3. CASE i = 1
        <5>1. Half(t, seg, 0)
          BY <2>1, <3>2, <3>3, <3>4, <4>2, <4>3 DEF Half
        <5> QED BY <1>3, <2>1, <3>1, <4>2, <4>3, <5>1 DEF Continuing
      <4>4. CASE i = 2
        <5>1. Half(t, seg, Len(Nums(a)))
          BY <2>1, <3>2, <3>3, <3>4, <4>2, <4>4 DEF Half
        <5> QED BY <1>3, <2>1, <3>1, <3>4, <4>2, <4>4, <5>1 DEF Continuing
      <4> QED BY <4>1, <4>3, <4>4
    <3>6. Offers(t, Chain(gs, t, kind))
      <4> HIDE DEF kind
      <4> QED BY <2>1, <3>5, ChainOffers DEF Proposal
    <3>7. basis(a) = kind
      BY <2>4
    <3> QED BY <3>6, <3>7 DEF gs
  <2> QED BY <2>3, <2>4
<1>4. ASSUME Counted(t), NEW a \in Releases, NEW b \in Releases PROVE Offers(t, of(a, b))
  <2> HIDE DEF basis
  <2> QED BY <1>3, <1>4, OffersNone
<1> HIDE DEF of
<1>5. ASSUME Counted(t), NEW b \in Releases PROVE Offers(t, FlattenSeq(row(b)))
  <2>1. \A a \in 1 .. Len(groups) : Offers(t, row(b)[a])
    BY <1>2, <1>4, <1>5
  <2>2. row(b) = [a \in 1 .. Len(groups) |-> row(b)[a]]
    BY <1>2
  <2> HIDE DEF row
  <2> QED BY <1>2, <2>1, <2>2, OffersAll
<1> HIDE DEF row
<1>6. ASSUME Counted(t) PROVE Offers(t, FlattenSeq(rows))
  <2>1. \A b \in 1 .. Len(groups) : Offers(t, rows[b])
    BY <1>2, <1>5, <1>6
  <2>2. rows = [b \in 1 .. Len(groups) |-> rows[b]]
    BY <1>2
  <2> HIDE DEF rows
  <2> QED BY <1>2, <2>1, <2>2, OffersAll
<1> QED BY <1>1, <1>6, OffersNone

\* The rows of a season that the numbers of a release reach.
LEMMA SpanRowsAre ==
  ASSUME NEW t, SeasonIs(t), NEW seg, ReleaseIs(seg.release), NEW mapped, mapped # {},
         mapped = {k \in 1 .. Rows(t) : Absolute(t, k) \in ToSet(Nums(seg.release))}
  PROVE  /\ S(t).absolute \in Nat /\ mapped = SpanRows(seg, t)
         /\ \A k \in mapped : Absolute(t, k) = S(t).absolute + k
<1>1. ToSet(Nums(seg.release)) \subseteq Nat
  BY ReleaseNumbers DEF ToSet
<1>2. -1 \notin ToSet(Nums(seg.release))
  BY <1>1
<1>3. S(t).absolute \in Int /\ Rows(t) \in Nat
  BY SeasonNumbers
<1>4. ~(S(t).absolute < 0)
  BY <1>2 DEF Absolute
<1>5. \A k : Absolute(t, k) = S(t).absolute + k
  BY <1>4 DEF Absolute
<1>6. mapped = SpanRows(seg, t)
  BY <1>5 DEF SpanRows
<1> QED BY <1>3, <1>4, <1>5, <1>6

\* All rows of a season are all of it.
LEMMA AllRowsAreEntire ==
  ASSUME NEW t, SeasonIs(t), Counted(t), NEW seg, Destinations(seg) = {Episode(t, k) : k \in 1 .. Rows(t)}
  PROVE  Entire(t, seg)
<1>1. Rows(t) = S(t).count /\ Rows(t) \in Nat /\ S(t).first \in Nat
  BY SeasonNumbers DEF Counted
<1> SUFFICES ASSUME Destinations(seg) # {}, Destinations(seg) \subseteq Desired(t)
             PROVE  Destinations(seg) = Desired(t)
  BY DEF Entire
<1>2. 1 \in 1 .. Rows(t) /\ Rows(t) \in 1 .. Rows(t)
  BY <1>1
<1>3. Episode(t, 1) \in 1 .. Rows(t) /\ Episode(t, Rows(t)) \in 1 .. Rows(t)
  BY <1>1, <1>2 DEF Desired
<1>4. S(t).first = 1
  BY <1>1, <1>3 DEF Episode
<1>5. \A k \in 1 .. Rows(t) : Episode(t, k) = k
  BY <1>1, <1>4 DEF Episode
<1>6. Destinations(seg) = {k : k \in 1 .. Rows(t)}
  BY <1>5
<1> QED BY <1>1, <1>6 DEF Desired

\* A release that runs through several seasons.
LEMMA SpanOffers ==
  ASSUME CaseIs, GroupsAre, NEW t, NEW g \in Releases, NEW ts
  PROVE  Offers(t, SpanSegment(g, t, ts))
<1> DEFINE declared == 1 .. Shape(g).declared
           size == MapThenSumSet(Rows, ts)
           start(u) == MapThenSumSet(Rows, {v \in ts : v < u})
           first == Min(ts)
           gaps == declared \ ToSet(Nums(g))
           independent == case.independent /\ \A u \in ts : Structured(u)
           mapped == {k \in 1 .. Rows(t) : Absolute(t, k) \in ToSet(Nums(g))}
           missing == (1 .. Rows(t)) \ mapped
           basis == IF missing = {} THEN IF gaps # {} THEN "absolute_with_gap"
                                         ELSE IF independent THEN "independent_structure"
                                         ELSE "absolute_sequence"
                    ELSE IF {Episode(t, k) : k \in missing} \subseteq S(t).files THEN "existing_file_gap"
                    ELSE "provider_gap"
           Holds == /\ ts \subseteq Seasons /\ t \in ts /\ Cardinality(ts) >= 2
                    /\ Nums(g) # <<>> /\ Shape(g).trusted /\ Shape(g).finished
                    /\ ToSet(Nums(g)) \subseteq declared
                    /\ \A u \in ts : Counted(u)
                    /\ size = Shape(g).declared
                    /\ \A u \in ts : \A k \in 1 .. Rows(u) : Absolute(u, k) = start(u) + k
                    /\ "same_series" \in Fact(g, first) /\ PremieresAt(g, first, 1)
                    /\ (gaps = {} /\ independent) \/ (first = 1 /\ Cardinality(ts) >= 3)
           link(k) == <<Absolute(t, k), t, Episode(t, k)>>
           seg == [release |-> g, basis |-> basis, links |-> {link(k) : k \in mapped}]
<1>1. SpanSegment(g, t, ts) = IF Holds /\ mapped # {} THEN <<seg>> ELSE <<>>
  BY DEF SpanSegment
<1>2. Holds => ts \subseteq Seasons /\ t \in ts /\ Counted(t)
  OBVIOUS
<1>3. missing # {} => Rank(basis) = 3
  BY DEF Rank
<1>4. seg.release = g /\ seg.basis = basis /\ seg.links = {link(k) : k \in mapped}
  OBVIOUS
<1>5. ASSUME Holds, mapped # {} PROVE Proposal(t, seg)
  <2> HIDE DEF Holds, basis, seg, link
  <2>1. SeasonIs(t) /\ Counted(t) /\ ReleaseIs(g)
    BY <1>2, <1>5, SeasonsAre, ReleasesAre
  <2>3. /\ S(t).absolute \in Nat /\ mapped = SpanRows(seg, t)
        /\ \A k \in mapped : Absolute(t, k) = S(t).absolute + k
    BY <1>4, <1>5, <2>1, SpanRowsAre
  <2> HIDE DEF mapped
  <2>4. CASE missing = {}
    <3>1. mapped = 1 .. Rows(t)
      BY <2>4 DEF mapped
    <3>2. Destinations(seg) = {link(k)[3] : k \in mapped}
      <4> HIDE DEF link
      <4>1. Destinations(seg) = {l[3] : l \in {link(k) : k \in mapped}}
        BY <1>4 DEF Destinations
      <4> QED BY <4>1
    <3>3. Destinations(seg) = {Episode(t, k) : k \in 1 .. Rows(t)}
      BY <3>1, <3>2 DEF link
    <3> QED BY <2>1, <3>3, AllRowsAreEntire DEF Proposal
  <2>5. CASE missing # {}
    <3> HIDE DEF missing
    <3>1. {link(k) : k \in mapped} = {<<S(t).absolute + k, t, Episode(t, k)>> : k \in mapped}
      BY <2>3 DEF link
    <3>2. seg.links = {<<S(t).absolute + k, t, Episode(t, k)>> : k \in SpanRows(seg, t)}
      BY <1>4, <2>3, <3>1
    <3>3. Rank(seg.basis) = 3
      BY <1>3, <1>4, <2>5
    <3>4. Spanned(t, seg)
      BY <2>3, <3>2, <3>3 DEF Spanned
    <3> QED BY <3>4 DEF Proposal
  <2> QED BY <2>4, <2>5
<1> HIDE DEF seg, Holds
<1>6. Holds /\ mapped # {} => Offers(t, <<seg>>)
  BY <1>5, OffersOne
<1> HIDE DEF mapped
<1> QED BY <1>1, <1>6, OffersNone

\* All such releases.
LEMMA SpansOffer ==
  ASSUME CaseIs, GroupsAre, NEW t
  PROVE  Offers(t, SpanSegments(t))
<1> DEFINE last == Max(Seasons)
           of(g, a, b) == SpanSegment(g, t, a .. b)
           ends(g, a) == [b \in 1 .. last |-> of(g, a, b)]
           from(g, a) == FlattenSeq(ends(g, a))
           starts(g) == [a \in 1 .. last + 1 |-> from(g, a - 1)]
           lists == [g \in Releases |-> FlattenSeq(starts(g))]
<1>1. SpanSegments(t) = FlattenSeq(lists)
  BY DEF SpanSegments
<1>2. Len(groups) \in Nat /\ Releases = 1 .. Len(groups)
  BY ReleasesAre
<1>3. last \in Nat
  <2> DEFINE value == [u \in Seasons |-> u]
  <2>1. Seasons \in SUBSET Nat /\ Seasons # {} /\ IsFiniteSet(Seasons)
    BY SeasonsAre
  <2> HIDE DEF Seasons
  <2>2. value \in [Seasons -> Nat]
    BY <2>1
  <2>3. PICK m \in Nat : \A u \in Seasons : value[u] <= m
    <3> HIDE DEF value
    <3> QED BY <2>1, <2>2, BoundIs
  <2>4. \A u \in Seasons : u <= m
    BY <2>3
  <2> QED BY <2>1, <2>4, MaxIs
<1> HIDE DEF last
<1>4. ASSUME NEW g \in Releases, NEW a PROVE Offers(t, from(g, a))
  <2>1. \A b : Offers(t, of(g, a, b))
    BY SpanOffers
  <2> HIDE DEF of
  <2>2. ends(g, a) = [b \in 1 .. last |-> ends(g, a)[b]] /\ \A b \in 1 .. last : Offers(t, ends(g, a)[b])
    BY <2>1
  <2> HIDE DEF ends
  <2> QED BY <1>3, <2>2, OffersAll
<1> HIDE DEF from
<1>5. ASSUME NEW g \in Releases PROVE Offers(t, FlattenSeq(starts(g)))
  <2>1. /\ starts(g) = [a \in 1 .. last + 1 |-> starts(g)[a]]
        /\ \A a \in 1 .. last + 1 : Offers(t, starts(g)[a])
    BY <1>4
  <2>2. last + 1 \in Nat
    BY <1>3
  <2> HIDE DEF starts
  <2> QED BY <2>1, <2>2, OffersAll
<1> HIDE DEF starts
<1>6. Offers(t, FlattenSeq(lists))
  <2>1. lists = [g \in 1 .. Len(groups) |-> lists[g]] /\ \A g \in 1 .. Len(groups) : Offers(t, lists[g])
    BY <1>2, <1>5
  <2> HIDE DEF lists
  <2> QED BY <1>2, <2>1, OffersAll
<1> QED BY <1>1, <1>6

\* What the call holds is read from the case and the releases only.
LEMMA ProposalKept ==
  ASSUME UNCHANGED <<case, groups>>, NEW t, NEW seg
  PROVE  Proposal(t, seg)' <=> Proposal(t, seg)
<1>1. /\ Seasons' = Seasons /\ S(t)' = S(t) /\ Rows(t)' = Rows(t) /\ Desired(t)' = Desired(t)
      /\ \A k : Episode(t, k)' = Episode(t, k)
  BY DEF Seasons, S, Rows, Desired, Episode
<1>2. \A g : Shape(g)' = Shape(g) /\ Nums(g)' = Nums(g)
  BY DEF Shape, Nums, Lead
<1>3. \A at : (Placed(seg, t, at)' <=> Placed(seg, t, at)) /\ (Half(t, seg, at)' <=> Half(t, seg, at))
  BY <1>1, <1>2 DEF Placed, Linked, Half
<1>4. (Counted(t)' <=> Counted(t)) /\ (ReleaseIs(seg.release)' <=> ReleaseIs(seg.release))
  BY <1>1, <1>2 DEF Counted, ReleaseIs
<1>5. SpanRows(seg, t)' = SpanRows(seg, t)
  BY <1>1, <1>2 DEF SpanRows
<1>6. Entire(t, seg)' <=> Entire(t, seg)
  BY <1>1 DEF Entire
<1>7. Piece(t, seg)' <=> Piece(t, seg)
  BY <1>3 DEF Piece
<1>8. Continuing(t, seg)' <=> Continuing(t, seg)
  BY <1>3, <1>4 DEF Continuing
<1>9. Spanned(t, seg)' <=> Spanned(t, seg)
  BY <1>1, <1>5 DEF Spanned
<1> QED BY <1>6, <1>7, <1>8, <1>9 DEF Proposal

\* The releases of every season's list are proposals of the rules.
ProposalsInv ==
  /\ CaseIs /\ turn \in Seasons
  /\ phase \in {"group", "rules"} => \A t \in Seasons : choices[t] = <<>>
  /\ phase # "group" => GroupsAre
  /\ \A t \in Seasons : Offers(t, choices[t])

\* The first and the second part of what a season is offered.
LEMMA ByRules ==
  ASSUME CaseIs, GroupsAre, NEW t \in Seasons
  PROVE  Offers(t, FlattenSeq([g \in Releases |-> Ruled(g, t)])
                     \o OffsetSegments(t) \o SupplementSegments(t) \o PartSegments(t))
<1> DEFINE lists == [g \in Releases |-> Ruled(g, t)]
<1>1. SeasonIs(t)
  BY SeasonsAre
<1>2. Len(groups) \in Nat /\ Releases = 1 .. Len(groups) /\ \A g \in Releases : ReleaseIs(g)
  BY ReleasesAre
<1>3. \A g \in Releases : Offers(t, Ruled(g, t))
  BY <1>1, <1>2, RuledOffers
<1>4. Offers(t, FlattenSeq(lists))
  <2>1. lists = [g \in 1 .. Len(groups) |-> lists[g]] /\ \A g \in 1 .. Len(groups) : Offers(t, lists[g])
    BY <1>2, <1>3
  <2> HIDE DEF lists
  <2> QED BY <1>2, <2>1, OffersAll
<1>5. Offers(t, OffsetSegments(t)) /\ Offers(t, SupplementSegments(t)) /\ Offers(t, PartSegments(t))
  BY OffsetOffers, SupplementOffers, PartOffers
<1> HIDE DEF lists
<1>6. Offers(t, FlattenSeq(lists) \o OffsetSegments(t))
  BY <1>4, <1>5, OffersMore
<1>7. Offers(t, FlattenSeq(lists) \o OffsetSegments(t) \o SupplementSegments(t))
  BY <1>5, <1>6, OffersMore
<1>8. Offers(t, FlattenSeq(lists) \o OffsetSegments(t) \o SupplementSegments(t) \o PartSegments(t))
  BY <1>5, <1>7, OffersMore
<1> QED BY <1>8 DEF lists

\* What several releases of the series add to it.
LEMMA BySeries ==
  ASSUME CaseIs, GroupsAre, NEW t, NEW list, Offers(t, list)
  PROVE  Offers(t, list \o SequentialSegments(t) \o ContinuationSegments(t) \o SpanSegments(t))
<1>1. Offers(t, list \o SequentialSegments(t))
  BY SequentialOffers, OffersMore
<1>2. Offers(t, list \o SequentialSegments(t) \o ContinuationSegments(t))
  BY <1>1, ContinuationOffers, OffersMore
<1> QED BY <1>2, SpansOffer, OffersMore

\* The search goes from season to season.
LEMMA TurnsAreSeasons ==
  ASSUME CaseIs, turn \in Seasons, NEW plan, Resolved(plan), UNCHANGED case
  PROVE  turn' \in Seasons' /\ phase' \in {"collide", "start"}
<1>1. SeasonAfter(turn) # {} => Min(SeasonAfter(turn)) \in SeasonAfter(turn)
  <2>1. SeasonAfter(turn) \in SUBSET Nat
    BY SeasonsAre DEF SeasonAfter
  <2> QED BY <2>1, MinIs
<1>2. turn' \in Seasons
  BY <1>1 DEF Resolved, SeasonAfter
<1> QED BY <1>2 DEF Resolved, Seasons

\* Every list of choices holds proposals of the rules, at every step.
LEMMA ProposalsInvariance == Spec => []ProposalsInv
<1>1. Init => ProposalsInv
  <2> SUFFICES ASSUME Init PROVE ProposalsInv
    OBVIOUS
  <2>1. CaseIs
    BY DEF Init, CaseIs
  <2>2. turn \in Seasons
    BY <2>1, SeasonsAre, MinIs DEF Init
  <2>3. \A t \in Seasons : choices[t] = <<>>
    BY DEF Init
  <2>4. phase = "group"
    BY DEF Init
  <2> QED BY <2>1, <2>2, <2>3, <2>4, OffersNone DEF ProposalsInv
<1>2. ProposalsInv /\ [Next]_vars => ProposalsInv'
  <2> SUFFICES ASSUME ProposalsInv, [Next]_vars PROVE ProposalsInv'
    OBVIOUS
  <2>1. CaseIs /\ turn \in Seasons /\ \A t \in Seasons : Offers(t, choices[t])
    BY DEF ProposalsInv
  <2>2. case' = case
    BY DEF Next, Group, ProposeByRules, ProposeBySeries, StartCover, CoverItem, Select, Collide, vars
  <2>3. CaseIs' /\ Seasons' = Seasons /\ (groups' = groups => (GroupsAre' <=> GroupsAre))
    BY <2>1, <2>2 DEF CaseIs, Seasons, GroupsAre, Groupings, Indices
  <2>4. CASE Group
    <3>1. UNCHANGED <<choices, turn>> /\ groups' = GroupReleases /\ phase = "group" /\ phase' = "rules"
      BY <2>4 DEF Group
    <3>2. GroupsAre'
      <4>1. GroupReleases \in Groupings /\ Groupings' = Groupings
        BY <2>1, <2>2, GroupReleasesIs DEF Groupings, Indices
      <4> QED BY <3>1, <4>1 DEF GroupsAre
    <3>3. \A t \in Seasons' : choices'[t] = <<>>
      BY <2>3, <3>1 DEF ProposalsInv
    <3>4. \A t : Offers(t, <<>>)'
      BY NoListIs DEF Offers, ToSet
    <3>5. \A t \in Seasons' : Offers(t, choices[t])'
      BY <3>3, <3>4 DEF Offers
    <3> QED BY <2>1, <2>3, <3>1, <3>2, <3>3, <3>5 DEF ProposalsInv
  <2>5. CASE ProposeByRules
    <3>1. UNCHANGED <<case, groups, turn>> /\ phase = "rules" /\ phase' = "series"
      BY <2>5 DEF ProposeByRules
    <3>2. GroupsAre
      BY <3>1 DEF ProposalsInv
    <3>3. ASSUME NEW t \in Seasons PROVE Offers(t, choices'[t])
      <4>1. choices'[t] = FlattenSeq([g \in Releases |-> Ruled(g, t)])
                            \o OffsetSegments(t) \o SupplementSegments(t) \o PartSegments(t)
        BY <2>5 DEF ProposeByRules
      <4> QED BY <2>1, <3>2, <4>1, ByRules
    <3>4. ASSUME NEW t \in Seasons PROVE Offers(t, choices[t])'
      <4>1. \A seg : Proposal(t, seg)' <=> Proposal(t, seg)
        BY <3>1, ProposalKept
      <4> QED BY <3>3, <4>1 DEF Offers
    <3> QED BY <2>1, <2>3, <3>1, <3>2, <3>4 DEF ProposalsInv
  <2>6. CASE ProposeBySeries
    <3>1. UNCHANGED <<case, groups, turn>> /\ phase = "series" /\ phase' = "start"
      BY <2>6 DEF ProposeBySeries
    <3>2. GroupsAre
      BY <3>1 DEF ProposalsInv
    <3>3. ASSUME NEW t \in Seasons PROVE Offers(t, choices'[t])
      <4>1. choices'[t] = choices[t] \o SequentialSegments(t) \o ContinuationSegments(t) \o SpanSegments(t)
        BY <2>6 DEF ProposeBySeries
      <4> QED BY <2>1, <3>2, <4>1, BySeries
    <3>4. ASSUME NEW t \in Seasons PROVE Offers(t, choices[t])'
      <4>1. \A seg : Proposal(t, seg)' <=> Proposal(t, seg)
        BY <3>1, ProposalKept
      <4> QED BY <3>3, <4>1 DEF Offers
    <3> QED BY <2>1, <2>3, <3>1, <3>2, <3>4 DEF ProposalsInv
  <2>7. CASE UNCHANGED <<groups, choices>> /\ turn' \in Seasons' /\ phase' \notin {"group", "rules"}
             /\ phase # "group"
    <3>1. ASSUME NEW t \in Seasons PROVE Offers(t, choices[t])'
      <4>1. \A seg : Proposal(t, seg)' <=> Proposal(t, seg)
        BY <2>2, <2>7, ProposalKept
      <4> QED BY <2>1, <2>7, <4>1 DEF Offers
    <3> QED BY <2>1, <2>3, <2>7, <3>1 DEF ProposalsInv
  <2>8. CASE StartCover
    BY <2>1, <2>3, <2>7, <2>8 DEF StartCover
  <2>9. CASE CoverItem
    <3>1. \/ \E plan : Resolved(plan)
          \/ UNCHANGED <<turn, plans, phase>>
      BY <2>9 DEF CoverItem
    <3>2. turn' \in Seasons' /\ phase' \in {"collide", "start", "cover"}
      BY <2>1, <2>2, <2>3, <2>9, <3>1, TurnsAreSeasons DEF CoverItem
    <3> QED BY <2>7, <2>9, <3>2 DEF CoverItem
  <2>10. CASE Select
    <3>1. turn' \in Seasons' /\ phase' \in {"collide", "start"}
      BY <2>1, <2>2, <2>10, TurnsAreSeasons DEF Select
    <3> QED BY <2>7, <2>10, <3>1 DEF Select
  <2>11. CASE Collide
    BY <2>1, <2>3, <2>7, <2>11 DEF Collide
  <2>12. CASE UNCHANGED vars
    <3>1. UNCHANGED <<case, phase, groups, choices, turn>>
      BY <2>12 DEF vars
    <3>2. ASSUME NEW t \in Seasons PROVE Offers(t, choices[t])'
      <4>1. \A seg : Proposal(t, seg)' <=> Proposal(t, seg)
        BY <3>1, ProposalKept
      <4> QED BY <2>1, <3>1, <4>1 DEF Offers
    <3> QED BY <2>1, <2>3, <3>1, <3>2 DEF ProposalsInv
  <2> QED BY <2>4, <2>5, <2>6, <2>8, <2>9, <2>10, <2>11, <2>12 DEF Next
<1> QED BY <1>1, <1>2, PTL DEF Spec

\* One signature is available once.
LEMMA AvailableOnce ==
  ASSUME NEW t, NEW list, list = choices[t], list \in Seq(ToSet(list)),
         NEW a \in Available(t), NEW b \in Available(t), Signature(a) = Signature(b)
  PROVE  a = b
<1>1. Len(list) \in Nat /\ DOMAIN list = 1 .. Len(list)
  OBVIOUS
<1>2. PICK i \in DOMAIN list : /\ a = list[i]
                               /\ \A k \in 1 .. (i - 1) : Signature(list[k]) # Signature(list[i])
  BY DEF Available
<1>3. PICK j \in DOMAIN list : /\ b = list[j]
                               /\ \A k \in 1 .. (j - 1) : Signature(list[k]) # Signature(list[j])
  BY DEF Available
<1>4. i = j \/ i \in 1 .. (j - 1) \/ j \in 1 .. (i - 1)
  BY <1>1
<1> QED BY <1>2, <1>3, <1>4

\* What is available was proposed.
LEMMA AvailableIs ==
  ASSUME NEW t, NEW seg \in Available(t)
  PROVE  seg \in ToSet(choices[t])
BY DEF Available, ToSet

\* Where the links of a release numbered 1..n are that is placed behind some rows.
Numbered(g, n) ==
  n \in Nat /\ 0 < n /\ DOMAIN Nums(g) = 1 .. n /\ \A k \in 1 .. n : Nums(g)[k] = k

PlacedLinks(t, at, n) == {<<k, t, Episode(t, at + k)>> : k \in {j \in 1 .. n : at + j <= Rows(t)}}

\* The links of a release that is placed.
LEMMA PlacedIs ==
  ASSUME NEW t, SeasonIs(t), NEW at \in Nat, NEW seg, NEW n, Numbered(seg.release, n), Placed(seg, t, at)
  PROVE  seg.links = PlacedLinks(t, at, n)
<1> DEFINE fits == {j \in 1 .. n : at + j <= Rows(t)}
<1>1. seg.links = {<<Nums(seg.release)[k], t, Episode(t, at + k)>> :
                        k \in {j \in DOMAIN Nums(seg.release) : at + j <= Rows(t)}}
  BY DEF Placed, Linked
<1>2. \A k \in fits : Nums(seg.release)[k] = k
  BY DEF Numbered
<1>3. seg.links = {<<Nums(seg.release)[k], t, Episode(t, at + k)>> : k \in fits}
  BY <1>1 DEF Numbered
<1> HIDE DEF fits
<1>4. seg.links = {<<k, t, Episode(t, at + k)>> : k \in fits}
  BY <1>2, <1>3
<1> QED BY <1>4 DEF fits, PlacedLinks

\* The episodes and the source episodes of such links.
LEMMA PlacedEnds ==
  ASSUME NEW t, SeasonIs(t), NEW at \in Nat, NEW n \in Nat, NEW seg, seg.links = PlacedLinks(t, at, n)
  PROVE  /\ \A e : e \in Destinations(seg) <=>
                     e \in Int /\ S(t).first + at <= e /\ e < S(t).first + at + n /\ e < S(t).first + Rows(t)
         /\ \A u : u \in Sources(seg) <=>
                     \E k \in 1 .. n : at + k <= Rows(t) /\ u = <<seg.release, k>>
<1> DEFINE fits == {j \in 1 .. n : at + j <= Rows(t)}
           f == S(t).first
<1>1. f \in Nat /\ Rows(t) \in Nat
  BY SeasonNumbers
<1>2. \A k : Episode(t, at + k) = f + (at + k) - 1
  BY DEF Episode
<1> HIDE DEF f
<1>3. \A e : e \in Destinations(seg) <=> \E k \in fits : e = f + (at + k) - 1
  <2>1. \A e : e \in Destinations(seg) <=> \E l \in PlacedLinks(t, at, n) : e = l[3]
    BY DEF Destinations
  <2>2. \A e : (\E l \in PlacedLinks(t, at, n) : e = l[3]) <=> \E k \in fits : e = <<k, t, Episode(t, at + k)>>[3]
    BY DEF PlacedLinks
  <2> QED BY <1>2, <2>1, <2>2
<1>4. ASSUME NEW e
      PROVE  (\E k \in fits : e = f + (at + k) - 1) <=>
               e \in Int /\ f + at <= e /\ e < f + at + n /\ e < f + Rows(t)
  <2>1. ASSUME NEW k \in fits, e = f + (at + k) - 1
        PROVE  e \in Int /\ f + at <= e /\ e < f + at + n /\ e < f + Rows(t)
    BY <1>1, <2>1
  <2>2. ASSUME e \in Int, f + at <= e, e < f + at + n, e < f + Rows(t)
        PROVE  \E k \in fits : e = f + (at + k) - 1
    <3>1. e - f - at + 1 \in fits /\ e = f + (at + (e - f - at + 1)) - 1
      BY <1>1, <2>2
    <3> QED BY <3>1
  <2> QED BY <2>1, <2>2
<1>5. \A u : u \in Sources(seg) <=> \E k \in fits : u = <<seg.release, k>>
  <2>1. \A u : u \in Sources(seg) <=> \E l \in PlacedLinks(t, at, n) : u = <<seg.release, l[1]>>
    BY DEF Sources
  <2>2. \A u : (\E l \in PlacedLinks(t, at, n) : u = <<seg.release, l[1]>>) <=>
                 \E k \in fits : u = <<seg.release, <<k, t, Episode(t, at + k)>>[1]>>
    BY DEF PlacedLinks
  <2> QED BY <2>1, <2>2
<1> QED BY <1>3, <1>4, <1>5 DEF f

\* The rows and the numbers of half a season.
Halves(t, seg, at, n) ==
  /\ at \in Nat /\ Numbered(seg.release, n) /\ n < Rows(t) /\ Counted(t)
  /\ at = 0 \/ at + n = Rows(t)
  /\ seg.links = PlacedLinks(t, at, n)

\* A continuing segment is half of the season.
LEMMA ContinuingIs ==
  ASSUME NEW t, SeasonIs(t), NEW seg, Continuing(t, seg)
  PROVE  \E at, n : Halves(t, seg, at, n)
<1> DEFINE nums == Nums(seg.release)
           n == Len(nums)
<1>1. PICK at \in Nat : Half(t, seg, at)
  BY DEF Continuing
<1>2. nums \in Seq(Nat) /\ nums # <<>> /\ nums = [k \in DOMAIN nums |-> k]
  BY <1>1, ReleaseNumbers DEF Continuing, Half, Contiguous
<1>3. Numbered(seg.release, n)
  <2>1. n \in Nat /\ DOMAIN nums = 1 .. n /\ 0 < n
    BY <1>2
  <2>2. \A k \in 1 .. n : nums[k] = k
    BY <1>2, <2>1
  <2> QED BY <2>1, <2>2 DEF Numbered
<1>4. seg.links = PlacedLinks(t, at, n)
  BY <1>1, <1>3, PlacedIs DEF Half
<1>5. Halves(t, seg, at, n)
  BY <1>1, <1>3, <1>4 DEF Halves, Half, Continuing
<1> QED BY <1>5

\* Half a season is a run of its episodes, at its start or its end.
LEMMA HalvesAre ==
  ASSUME NEW t, SeasonIs(t), NEW seg, NEW at, NEW n, Halves(t, seg, at, n)
  PROVE  LET f == S(t).first IN
         /\ at \in Nat /\ n \in Nat /\ 0 < n /\ n < Rows(t) /\ Rows(t) \in Nat /\ f \in Nat
         /\ at = 0 \/ at + n = Rows(t)
         /\ Desired(t) = 1 .. Rows(t)
         /\ \A e : e \in Destinations(seg) <=> e \in Int /\ f + at <= e /\ e < f + at + n
         /\ Sources(seg) = {<<seg.release, k>> : k \in 1 .. n}
<1>1. at \in Nat /\ n \in Nat /\ 0 < n /\ n < Rows(t) /\ Rows(t) \in Nat /\ S(t).first \in Nat
  BY SeasonNumbers DEF Halves, Numbered
<1>2. at = 0 \/ at + n = Rows(t)
  BY DEF Halves
<1>3. Desired(t) = 1 .. Rows(t)
  BY DEF Halves, Counted, Desired
<1>4. \A e : e \in Destinations(seg) <=>
               e \in Int /\ S(t).first + at <= e /\ e < S(t).first + at + n /\ e < S(t).first + Rows(t)
  BY <1>1, PlacedEnds DEF Halves
<1>5. \A u : u \in Sources(seg) <=> \E k \in 1 .. n : at + k <= Rows(t) /\ u = <<seg.release, k>>
  BY <1>1, PlacedEnds DEF Halves
<1>6. \A k \in 1 .. n : at + k <= Rows(t)
  BY <1>1, <1>2
<1>7. Sources(seg) = {<<seg.release, k>> : k \in 1 .. n}
  BY <1>5, <1>6
<1>8. ASSUME NEW e
      PROVE  e \in Destinations(seg) <=> e \in Int /\ S(t).first + at <= e /\ e < S(t).first + at + n
  BY <1>1, <1>2, <1>4
<1> QED BY <1>1, <1>2, <1>3, <1>7, <1>8

\* Half a season is alone in a part: with the other half it would be all of
\* the season, and what starts the season leaves no hole before what ends it.
LEMMA HalvesAreAlone ==
  ASSUME NEW t, SeasonIs(t), NEW x \in Parts(t), \A seg \in x : Continuing(t, seg),
         NEW c \in x, NEW d \in x
  PROVE  c = d
<1> DEFINE f == S(t).first
           rows == Rows(t)
<1>1. /\ Apart(x) /\ Gapless(t, x) /\ Covered(x) # Desired(t)
      /\ \A seg \in x : Destinations(seg) # {} /\ Destinations(seg) \subseteq Desired(t)
  BY DEF Parts, Fitting
<1>2. ASSUME NEW a \in x, NEW b \in x, NEW e, e \in Destinations(a), e \in Destinations(b) PROVE a = b
  BY <1>1, <1>2 DEF Apart
<1>3. ASSUME NEW a \in x, NEW b \in x, a # b
      PROVE  \E i, n, k, m :
               /\ Halves(t, a, i, n) /\ Halves(t, b, k, m)
               /\ (i = 0 /\ k + m = rows) \/ (k = 0 /\ i + n = rows)
  <2>1. PICK i, n : Halves(t, a, i, n)
    BY ContinuingIs
  <2>2. PICK k, m : Halves(t, b, k, m)
    BY ContinuingIs
  <2>3. /\ i \in Nat /\ n \in Nat /\ 0 < n /\ n < rows /\ rows \in Nat /\ f \in Nat
        /\ i = 0 \/ i + n = rows
        /\ \A e : e \in Destinations(a) <=> e \in Int /\ f + i <= e /\ e < f + i + n
    BY <2>1, HalvesAre
  <2>4. /\ k \in Nat /\ m \in Nat /\ 0 < m /\ m < rows
        /\ k = 0 \/ k + m = rows
        /\ \A e : e \in Destinations(b) <=> e \in Int /\ f + k <= e /\ e < f + k + m
    BY <2>2, HalvesAre
  <2> HIDE DEF f, rows
  <2>5. ~(i = 0 /\ k = 0)
    <3> SUFFICES ASSUME i = 0, k = 0 PROVE FALSE
      OBVIOUS
    <3>1. f \in Destinations(a) /\ f \in Destinations(b)
      BY <2>3, <2>4
    <3> QED BY <1>2, <1>3, <3>1
  <2>6. ~(i + n = rows /\ k + m = rows)
    <3> SUFFICES ASSUME i + n = rows, k + m = rows PROVE FALSE
      OBVIOUS
    <3>1. f + rows - 1 \in Destinations(a) /\ f + rows - 1 \in Destinations(b)
      BY <2>3, <2>4
    <3> QED BY <1>2, <1>3, <3>1
  <2>7. (i = 0 /\ k + m = rows) \/ (k = 0 /\ i + n = rows)
    BY <2>3, <2>4, <2>5, <2>6
  <2> QED BY <2>1, <2>2, <2>7
<1>4. ASSUME NEW a \in x, NEW b \in x, a # b, NEW n, NEW k, NEW m,
             Halves(t, a, 0, n), Halves(t, b, k, m), k + m = rows
      PROVE  FALSE
  <2>1. /\ n \in Nat /\ 0 < n /\ n < rows /\ rows \in Nat /\ f \in Nat /\ Desired(t) = 1 .. rows
        /\ \A e : e \in Destinations(a) <=> e \in Int /\ f + 0 <= e /\ e < f + 0 + n
    BY <1>4, HalvesAre
  <2>2. /\ k \in Nat /\ m \in Nat /\ 0 < m /\ m < rows
        /\ \A e : e \in Destinations(b) <=> e \in Int /\ f + k <= e /\ e < f + k + m
    BY <1>4, HalvesAre
  <2> HIDE DEF f, rows
  <2>3. f = 1
    <3>1. f \in Destinations(a) /\ f + rows - 1 \in Destinations(b)
      <4>1. f \in Int /\ f + 0 <= f /\ f < f + 0 + n
        BY <2>1
      <4>2. f + rows - 1 \in Int /\ f + k <= f + rows - 1 /\ f + rows - 1 < f + k + m
        BY <1>4, <2>1, <2>2
      <4> QED BY <2>1, <2>2, <4>1, <4>2
    <3>2. f \in 1 .. rows /\ f + rows - 1 \in 1 .. rows
      BY <1>1, <2>1, <3>1
    <3> QED BY <2>1, <3>2
  <2>4. n <= k
    <3> SUFFICES ASSUME n > k PROVE FALSE
      BY <2>1, <2>2
    <3>1. f + k \in Destinations(a) /\ f + k \in Destinations(b)
      <4>1. f + k \in Int /\ f + 0 <= f + k /\ f + k < f + 0 + n /\ f + k < f + k + m /\ f + k <= f + k
        BY <2>1, <2>2
      <4> QED BY <2>1, <2>2, <4>1
    <3> QED BY <1>2, <1>4, <3>1
  <2>5. n # k
    <3> SUFFICES ASSUME n = k PROVE FALSE
      OBVIOUS
    <3>1. \A e \in Desired(t) : e \in Destinations(a) \/ e \in Destinations(b)
      BY <1>4, <2>1, <2>2, <2>3
    <3>2. Desired(t) \subseteq Covered(x)
      BY <3>1 DEF Covered
    <3>3. Covered(x) \subseteq Desired(t)
      BY <1>1 DEF Covered
    <3> QED BY <1>1, <3>2, <3>3
  <2>6. n + 1 \in Desired(t) /\ n + 1 \notin Destinations(a) /\ n + 1 \notin Destinations(b)
    BY <2>1, <2>2, <2>3, <2>4, <2>5
  <2>7. n + 1 \in Covered(x)
    <3> SUFFICES ASSUME n + 1 \notin Covered(x) PROVE FALSE
      OBVIOUS
    <3>1. PICK e \in Destinations(b) : e < n + 1
      BY <1>1, <2>6 DEF Gapless
    <3> QED BY <2>1, <2>2, <2>3, <2>4, <3>1
  <2>8. PICK s \in x : n + 1 \in Destinations(s)
    BY <2>7 DEF Covered
  <2>9. s # a /\ s # b
    BY <2>6, <2>8
  <2>10. PICK i, l : Halves(t, s, i, l)
    BY ContinuingIs
  <2>11. /\ i \in Nat /\ l \in Nat /\ 0 < l
         /\ i = 0 \/ i + l = rows
         /\ \A e : e \in Destinations(s) <=> e \in Int /\ f + i <= e /\ e < f + i + l
    BY <2>10, HalvesAre DEF f, rows
  <2>12. CASE i = 0
    <3>1. f \in Destinations(s) /\ f \in Destinations(a)
      <4>1. f \in Int /\ f + 0 <= f /\ f < f + 0 + n /\ f + i <= f /\ f < f + i + l
        BY <2>1, <2>11, <2>12
      <4> QED BY <2>1, <2>11, <4>1
    <3> QED BY <1>2, <2>9, <3>1
  <2>13. CASE i + l = rows
    <3>1. f + rows - 1 \in Destinations(s) /\ f + rows - 1 \in Destinations(b)
      <4>1. /\ f + rows - 1 \in Int /\ f + k <= f + rows - 1 /\ f + rows - 1 < f + k + m
            /\ f + i <= f + rows - 1 /\ f + rows - 1 < f + i + l
        BY <1>4, <2>1, <2>2, <2>11, <2>13
      <4> QED BY <2>2, <2>11, <4>1
    <3> QED BY <1>2, <2>9, <3>1
  <2> QED BY <2>11, <2>12, <2>13
<1> SUFFICES ASSUME c # d PROVE FALSE
  OBVIOUS
<1>5. PICK i, n, k, m :
        /\ Halves(t, c, i, n) /\ Halves(t, d, k, m)
        /\ (i = 0 /\ k + m = rows) \/ (k = 0 /\ i + n = rows)
  BY <1>3
<1> HIDE DEF rows
<1> QED BY <1>4, <1>5

\* What covers half a season from the source episodes of the one release is
\* the same half.
LEMMA HalfIsShared ==
  ASSUME NEW t, Offers(t, choices[t]), SeasonIs(t),
         NEW c \in Fitting(t), NEW at, NEW n, Halves(t, c, at, n),
         NEW y \in Parts(t), Covered(y) = Destinations(c), Feeds(y) = Sources(c)
  PROVE  c \in y
<1> DEFINE f == S(t).first
           rows == Rows(t)
           r == c.release
<1>1. /\ at \in Nat /\ n \in Nat /\ 0 < n /\ n < rows /\ rows \in Nat /\ f \in Nat
      /\ at = 0 \/ at + n = rows
      /\ Desired(t) = 1 .. rows
      /\ \A e : e \in Destinations(c) <=> e \in Int /\ f + at <= e /\ e < f + at + n
      /\ Sources(c) = {<<r, k>> : k \in 1 .. n}
  BY HalvesAre
<1>2. /\ Apart(y) /\ Covered(y) # Desired(t) /\ y \subseteq Fitting(t)
      /\ \A s \in y : Destinations(s) # {} /\ Destinations(s) \subseteq Desired(t)
  BY DEF Parts, Fitting
<1>3. ASSUME NEW s \in y
      PROVE  /\ s.release = r /\ Destinations(s) \subseteq Destinations(c) /\ Sources(s) \subseteq Sources(c)
             /\ Numbered(s.release, n)
  <2>1. Destinations(s) \subseteq Destinations(c) /\ Sources(s) \subseteq Sources(c)
    BY DEF Covered, Feeds
  <2>2. PICK l \in s.links : TRUE
    BY <1>2 DEF Destinations
  <2>3. <<s.release, l[1]>> \in Sources(s)
    BY <2>2 DEF Sources
  <2>4. s.release = r
    BY <1>1, <2>1, <2>3
  <2>5. Numbered(r, n)
    BY DEF Halves
  <2> QED BY <2>1, <2>4, <2>5
<1>4. ASSUME NEW s \in y, s.links = c.links PROVE s = c
  <2>1. Signature(s) = Signature(c)
    BY <1>3, <1>4 DEF Signature
  <2>2. s \in Available(t) /\ c \in Available(t)
    BY <1>2 DEF Fitting
  <2> QED BY <2>1, <2>2, AvailableOnce DEF Offers
<1>5. ASSUME NEW s \in y
      PROVE  (\E b \in Nat : s.links = PlacedLinks(t, b, n)) \/ Spanned(t, s)
  <2>1. Proposal(t, s)
    BY <1>2, AvailableIs DEF Offers, Fitting
  <2>2. ~Entire(t, s)
    <3>1. Destinations(s) \subseteq Covered(y) /\ Covered(y) \subseteq Desired(t)
      BY <1>2 DEF Covered
    <3> QED BY <1>2, <3>1 DEF Entire
  <2>3. ASSUME NEW b \in Nat, Placed(s, t, b) PROVE s.links = PlacedLinks(t, b, n)
    BY <1>3, <2>3, PlacedIs
  <2> QED BY <2>1, <2>2, <2>3 DEF Proposal, Piece, Continuing, Half
<1>6. ASSUME NEW s \in y, Spanned(t, s)
      PROVE  LET a == S(t).absolute IN
             /\ a \in Nat
             /\ s.links = {<<a + k, t, Episode(t, k)>> : k \in {j \in 1 .. rows : a + j <= n}}
  <2> DEFINE a == S(t).absolute
  <2>1. a \in Nat /\ s.links = {<<a + k, t, Episode(t, k)>> : k \in SpanRows(s, t)}
    BY <1>6 DEF Spanned
  <2>2. \A j : j \in ToSet(Nums(s.release)) <=> j \in 1 .. n
    <3>1. \A j : j \in ToSet(Nums(s.release)) <=> \E k \in 1 .. n : j = Nums(s.release)[k]
      BY <1>3 DEF Numbered, ToSet
    <3>2. \A k \in 1 .. n : Nums(s.release)[k] = k
      BY <1>3 DEF Numbered
    <3> QED BY <3>1, <3>2
  <2> HIDE DEF a
  <2>3. \A j \in 1 .. rows : a + j \in ToSet(Nums(s.release)) <=> a + j <= n
    BY <1>1, <2>1, <2>2
  <2>4. SpanRows(s, t) = {j \in 1 .. rows : a + j <= n}
    BY <2>3 DEF SpanRows, a
  <2> QED BY <2>1, <2>4 DEF a
<1>7. ASSUME NEW s \in y, Spanned(t, s) PROVE at = 0 /\ f \in Destinations(s)
  <2> DEFINE a == S(t).absolute
             fits == {j \in 1 .. rows : a + j <= n}
  <2>1. a \in Nat /\ s.links = {<<a + k, t, Episode(t, k)>> : k \in fits}
    BY <1>6, <1>7
  <2> HIDE DEF a
  <2>2. PICK k \in fits : TRUE
    BY <1>2, <2>1 DEF Destinations
  <2>3. 1 \in fits
    BY <1>1, <2>1, <2>2
  <2>4. <<a + 1, t, Episode(t, 1)>> \in s.links
    <3> HIDE DEF fits
    <3> QED BY <2>1, <2>3
  <2>5. Episode(t, 1) \in Destinations(s)
    BY <2>4 DEF Destinations
  <2>6. Episode(t, 1) = f
    BY <1>1 DEF Episode
  <2>7. f \in Destinations(s) /\ f \in Destinations(c)
    BY <1>3, <2>5, <2>6
  <2> HIDE DEF f
  <2> QED BY <1>1, <2>7
<1>8. PICK s \in y : <<r, 1>> \in Sources(s)
  <2>1. <<r, 1>> \in Feeds(y)
    BY <1>1
  <2> QED BY <2>1 DEF Feeds
<1>9. CASE Spanned(t, s)
  <2> DEFINE a == S(t).absolute
             fits == {j \in 1 .. rows : a + j <= n}
  <2>1. a \in Nat /\ s.links = {<<a + k, t, Episode(t, k)>> : k \in fits}
    BY <1>6, <1>9
  <2>2. at = 0
    BY <1>7, <1>9
  <2> HIDE DEF a
  <2>3. a = 0
    <3>1. PICK l \in s.links : l[1] = 1
      BY <1>8 DEF Sources
    <3>2. PICK k \in fits : l = <<a + k, t, Episode(t, k)>>
      BY <2>1, <3>1
    <3>3. a + k = 1 /\ k \in 1 .. rows
      BY <3>1, <3>2
    <3> QED BY <1>1, <2>1, <3>3
  <2>4. fits = {j \in 1 .. n : at + j <= Rows(t)}
    BY <1>1, <2>2, <2>3
  <2>5. \A k \in fits : a + k = k /\ at + k = k
    BY <1>1, <2>2, <2>3
  <2> HIDE DEF fits
  <2>6. s.links = {<<k, t, Episode(t, at + k)>> : k \in fits}
    BY <2>1, <2>5
  <2>7. s.links = PlacedLinks(t, at, n)
    BY <2>4, <2>6 DEF PlacedLinks
  <2>8. s.links = c.links
    BY <2>7 DEF Halves
  <2> QED BY <1>4, <2>8
<1>10. CASE \E b \in Nat : s.links = PlacedLinks(t, b, n)
  <2>1. PICK b \in Nat : s.links = PlacedLinks(t, b, n)
    BY <1>10
  <2>2. \A e : e \in Destinations(s) <=> e \in Int /\ f + b <= e /\ e < f + b + n /\ e < f + rows
    BY <1>1, <2>1, PlacedEnds
  <2>3. \A e : e \in Destinations(s) => e \in Destinations(c)
    BY <1>3
  <2> HIDE DEF f, rows
  <2>4. PICK d \in Destinations(s) : TRUE
    BY <1>2
  <2>5. f + b \in Destinations(s) /\ b < rows
    <3>1. d \in Int /\ f + b <= d /\ d < f + rows /\ f \in Nat /\ rows \in Nat /\ n \in Nat /\ 0 < n
      BY <1>1, <2>2, <2>4
    <3>2. f + b \in Int /\ f + b <= f + b /\ f + b < f + b + n /\ f + b < f + rows /\ b < rows
      BY <3>1
    <3> QED BY <2>2, <3>2
  <2>6. at <= b
    BY <1>1, <2>3, <2>5
  <2>7. CASE b = at
    <3>1. s.links = c.links
      BY <2>1, <2>7 DEF Halves
    <3> QED BY <1>4, <3>1
  <2>8. CASE at < b
    <3>1. at # 0
      <4> SUFFICES ASSUME at = 0 PROVE FALSE
        OBVIOUS
      <4>1. CASE b + n <= rows
        <5>1. f + b + n - 1 \in Destinations(s)
          BY <1>1, <2>2, <4>1
        <5>2. f + b + n - 1 \in Destinations(c)
          BY <2>3, <5>1
        <5> QED BY <1>1, <2>8, <5>2
      <4>2. CASE rows < b + n
        <5>1. f + rows - 1 \in Destinations(s)
          BY <1>1, <2>2, <2>5, <4>2
        <5>2. f + rows - 1 \in Destinations(c)
          BY <2>3, <5>1
        <5> QED BY <1>1, <5>2
      <4> QED BY <1>1, <4>1, <4>2
    <3>2. f + at \in Destinations(c) /\ f + at \notin Destinations(s)
      <4>1. f + at \in Int /\ f + at <= f + at /\ f + at < f + at + n /\ ~(f + b <= f + at)
        BY <1>1, <2>8
      <4> QED BY <1>1, <2>2, <4>1
    <3>3. PICK o \in y : f + at \in Destinations(o)
      BY <3>2 DEF Covered
    <3>4. o # s
      BY <3>2, <3>3
    <3>5. ~Spanned(t, o)
      BY <1>7, <3>1
    <3>6. PICK k \in Nat : o.links = PlacedLinks(t, k, n)
      BY <1>5, <3>5
    <3>7. \A e : e \in Destinations(o) <=> e \in Int /\ f + k <= e /\ e < f + k + n /\ e < f + rows
      BY <1>1, <3>6, PlacedEnds DEF f, rows
    <3>8. k + 1 <= rows
      BY <1>1, <3>3, <3>7
    <3>9. <<o.release, 1>> \in Sources(o)
      <4>1. \A u : u \in Sources(o) <=> \E j \in 1 .. n : k + j <= rows /\ u = <<o.release, j>>
        BY <1>1, <3>6, PlacedEnds DEF rows
      <4>2. 1 \in 1 .. n
        BY <1>1
      <4> QED BY <3>8, <4>1, <4>2
    <3>10. <<r, 1>> \in Sources(o)
      BY <1>3, <3>9
    <3> QED BY <1>2, <1>8, <3>4, <3>10 DEF Apart
  <2> QED BY <1>1, <2>6, <2>7, <2>8
<1> QED BY <1>5, <1>9, <1>10

\* Two parts that agree in what they cover and feed from are equally strong.
LEMMA PartsAreAlike ==
  ASSUME NEW t, Offers(t, choices[t]), SeasonIs(t),
         NEW x \in Parts(t), NEW y \in Parts(t), Covered(x) = Covered(y), Feeds(x) = Feeds(y)
  PROVE  x = y \/ x = {} \/ Quality(x) = 3
<1>1. /\ x \subseteq Fitting(t) /\ y \subseteq Fitting(t) /\ Apart(y) /\ Covered(x) # Desired(t)
      /\ \A s \in y : Destinations(s) # {}
  BY DEF Parts, Fitting
<1>2. ASSUME NEW seg \in x PROVE ~Entire(t, seg)
  <2>1. Destinations(seg) # {} /\ Destinations(seg) \subseteq Desired(t) /\ Covered(x) \subseteq Desired(t)
    BY <1>1, <1>2 DEF Fitting, Covered
  <2>2. Destinations(seg) \subseteq Covered(x)
    BY <1>2 DEF Covered
  <2>3. Destinations(seg) # Desired(t)
    BY <1>1, <2>1, <2>2
  <2> QED BY <2>1, <2>3 DEF Entire
<1>3. ASSUME NEW seg \in x PROVE Rank(seg.basis) = 3 \/ Continuing(t, seg)
  <2>1. Proposal(t, seg)
    BY <1>1, <1>3, AvailableIs DEF Offers, Fitting
  <2> QED BY <1>2, <1>3, <2>1 DEF Proposal, Piece, Spanned
<1>4. CASE \E seg \in x : Rank(seg.basis) = 3
  <2>1. Quality(x) \in 3 .. 10 /\ Quality(x) <= 3
    BY <1>4, QualityIs
  <2> QED BY <2>1
<1>5. ASSUME \A seg \in x : Continuing(t, seg), x # {} PROVE x = y
  <2>1. PICK c \in x : TRUE
    BY <1>5
  <2>2. x = {c}
    BY <1>5, <2>1, HalvesAreAlone
  <2>3. Covered(y) = Destinations(c) /\ Feeds(y) = Sources(c)
    <3>1. Covered({c}) = Destinations(c) /\ Feeds({c}) = Sources(c)
      BY DEF Covered, Feeds
    <3> QED BY <2>2, <3>1
  <2>4. PICK at, n : Halves(t, c, at, n)
    BY <1>5, ContinuingIs
  <2>5. c \in y
    BY <1>1, <2>3, <2>4, HalfIsShared
  <2>6. ASSUME NEW s \in y PROVE s = c
    <3>1. PICK d \in Destinations(s) : TRUE
      BY <1>1
    <3>2. d \in Destinations(c)
      BY <2>3, <3>1 DEF Covered
    <3> QED BY <1>1, <2>5, <3>1, <3>2 DEF Apart
  <2> QED BY <2>2, <2>5, <2>6
<1> QED BY <1>3, <1>4, <1>5

\* What the rules propose for a season makes its parts agree.
LEMMA ProposalsAgree ==
  ASSUME NEW t, Offers(t, choices[t]), SeasonIs(t)
  PROVE  PartsAgreeAt(t)
<1> SUFFICES ASSUME NEW x \in Parts(t), NEW y \in Parts(t), Covered(x) = Covered(y), Feeds(x) = Feeds(y)
             PROVE  Quality(x) = Quality(y)
  BY DEF PartsAgreeAt, State
<1>1. ASSUME x = {} \/ y = {} PROVE x = y
  <2>1. \A p \in Parts(t) : Covered(p) = {} => p = {}
    BY DEF Parts, Covered, Fitting
  <2>2. Covered({}) = {}
    BY DEF Covered
  <2> QED BY <1>1, <2>1, <2>2
<1>2. x = y \/ x = {} \/ Quality(x) = 3
  BY PartsAreAlike
<1>3. x = y \/ y = {} \/ Quality(y) = 3
  BY PartsAreAlike
<1> QED BY <1>1, <1>2, <1>3

(* Two ways to cover one part of a season from the same source episodes    *)
(* are equally strong, for all that a call may be given.                   *)
THEOREM PartsAlwaysAgree == Spec => []PartsAgree
<1>1. ProposalsInv => PartsAgree
  <2> SUFFICES ASSUME ProposalsInv, phase = "cover" PROVE PartsAgree
    BY DEF PartsAgree
  <2>1. SeasonIs(turn) /\ Offers(turn, choices[turn])
    BY SeasonsAre DEF ProposalsInv
  <2>2. PartsAgreeAt(turn)
    BY <2>1, ProposalsAgree
  <2> QED
    BY <2>2 DEF PartsAgree, PartsAgreeAt, State
<1> QED
  BY <1>1, ProposalsInvariance, PTL

(* The search offers all of the strongest covers of a season, and only     *)
(* those: what it dropped on the way was never one of them.                *)
THEOREM CoversAreBest == Spec => []CoverIsBest
<1>1. IInv /\ SearchInv /\ PartsAgree => CoverIsBest
  <2> SUFFICES ASSUME IInv, SearchInv, PartsAgree, phase = "cover", left = {} PROVE CoverIsBest
    BY DEF CoverIsBest
  <2>1. PartsAgreeAt(turn)
    BY DEF PartsAgree, PartsAgreeAt, State
  <2> QED
    BY <2>1, SearchFinds DEF IInv
<1> QED
  BY <1>1, ResolvedSafely, SearchInvariance, PartsAlwaysAgree, PTL
=============================================================================
