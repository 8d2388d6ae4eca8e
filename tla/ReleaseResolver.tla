-------------------------- MODULE ReleaseResolver --------------------------
(***************************************************************************)
(* src/v4/release_resolver.py: which provider releases carry the episodes  *)
(* of which Sonarr seasons.  One behaviour is one call of resolve_series:  *)
(* the candidates are grouped into releases, every rule proposes segments  *)
(* of a season, a dynamic program looks for the exact covers of the season *)
(* by proposed segments, one cover is selected or the season goes to       *)
(* review, and seasons that claim one source episode are sent to review.   *)
(*                                                                         *)
(* Titles, aliases and external records are read through what they say of  *)
(* a candidate and a season (facts); dates are positions in the seasons: a *)
(* premiere is the rows it agrees with, of which there are several when    *)
(* they were broadcast on one day or the next.  Numbers, counts,           *)
(* boundaries, orders and gaps are kept as they are.                       *)
(***************************************************************************)
EXTENDS Integers, FiniteSets, FiniteSetsExt, Sequences, SequencesExt

CONSTANTS
  Cases,        \* the inputs a call may have
  StateLimit    \* the solutions the cover search may hold

(* What a comparison of titles, of the aliases Sonarr scopes to seasons    *)
(* and of external records establishes of a candidate and a season.        *)
TitleFacts == {"title", "article", "root", "same_series", "ordinal"}
AliasFacts == {"scoped", "scoped_named", "foreign", "numbered_elsewhere", "other_id", "year",
               "scene1", "scene2"}
ExternalFacts == {"mal", "alias_count", "named_season", "season_premiere"}

(* What Sonarr says of a season, what a provider says of a release, and    *)
(* what an independent source says of a part of a season.                  *)
SeasonData == [listed : Nat, count : Nat, placed : Nat, first : Nat, aired : Nat, files : SUBSET Nat,
               absolute : Int, scene : Nat, official : Seq(Seq(STRING)), alternate : Seq(Seq(STRING))]
ShapeData == [nums : Seq(Nat), declared : Nat, premieres : SUBSET (Nat \X Nat), family : STRING, label : STRING,
              number : Nat, trusted : BOOLEAN, finished : BOOLEAN, recap : SUBSET Nat]
PieceData == [name : STRING, size : Nat, at : Nat]

ASSUME CasesAssumption ==
  \A c \in Cases :
    /\ DOMAIN c.season \in (SUBSET Nat) \ {{}} /\ IsFiniteSet(DOMAIN c.season)
    /\ \A t \in DOMAIN c.season :
         c.season[t] \in SeasonData /\ c.offsets[t] \in SUBSET SUBSET PieceData
    /\ c.candidate \in Seq([shape : ShapeData, names : SUBSET STRING, audio : STRING])

ASSUME FactsAssumption ==
  \A c \in Cases : \A i \in DOMAIN c.candidate : \A t \in DOMAIN c.season :
    c.fact[i][t] \subseteq TitleFacts \cup AliasFacts \cup ExternalFacts

VARIABLES
  case,      \* the series and the candidates of the call
  phase,     \* where resolve_series is
  groups,    \* the releases: sequences of candidates
  choices,   \* the segments proposed for each season, in order
  turn,      \* the season whose cover is searched
  left,      \* the segments the search has still to take
  cover,     \* the states of the search
  plans      \* the plan of each season

vars == <<case, phase, groups, choices, turn, left, cover, plans>>

-----------------------------------------------------------------------------
(* The series.                                                             *)

Seasons == DOMAIN case.season
S(t) == case.season[t]

(* Placeholder rows beyond the declared count, undated and without an      *)
(* absolute number, are not episodes.                                      *)
Rows(t) == IF 0 < S(t).count /\ S(t).count < S(t).listed /\ S(t).placed <= S(t).count /\ S(t).first = 1
           THEN S(t).count ELSE S(t).listed

Episode(t, k) == S(t).first + k - 1
Counted(t) == Rows(t) = S(t).count
Complete(t) == Counted(t) /\ S(t).first = 1
Absolute(t, k) == IF S(t).absolute < 0 THEN -1 ELSE S(t).absolute + k

(* The rows broadcast so far.                                              *)
Aired(t) == Min({S(t).aired, Rows(t)})

-----------------------------------------------------------------------------
(* The candidates and the releases they form.                              *)

Contiguous(nums) == nums # <<>> /\ nums = [k \in DOMAIN nums |-> k]

Compatible(i, j) ==
  LET a == case.candidate[i]
      b == case.candidate[j]
  IN  /\ a.shape = b.shape /\ a.shape.nums # <<>>
      /\ a.shape.trusted
      /\ a.names \cap b.names # {}

(* A candidate joins the first group every member of which it agrees with. *)
Joined(gs, i) ==
  LET fits == {g \in DOMAIN gs : \A j \in ToSet(gs[g]) : Compatible(i, j)}
  IN  IF fits = {} THEN Append(gs, <<i>>) ELSE [gs EXCEPT ![Min(fits)] = Append(@, i)]

GroupReleases ==
  LET made[n \in 0 .. Len(case.candidate)] ==
        IF n = 0 THEN <<>> ELSE Joined(made[n - 1], n)
  IN  made[Len(case.candidate)]

Releases == DOMAIN groups
Lead(g) == groups[g][1]
Shape(g) == case.candidate[Lead(g)].shape
Nums(g) == Shape(g).nums
Names(g) == case.candidate[Lead(g)].names
Audio(g) == {case.candidate[i].audio : i \in ToSet(groups[g])}
Fact(g, t) == case.fact[Lead(g)][t]
PremieresAt(g, t, k) == <<t, k>> \in Shape(g).premieres

(* Whole, trusted and numbered 1..N as the provider declares.              *)
Whole(g) == /\ Contiguous(Nums(g)) /\ Len(Nums(g)) = Shape(g).declared
            /\ Shape(g).trusted /\ Shape(g).finished

Exact(g, t) == Fact(g, t) \cap {"title", "ordinal"} # {}

-----------------------------------------------------------------------------
(* Segments: source episodes of a release linked to episodes of a season.  *)

Linked(g, t, nums, at, basis) ==
  [release |-> g, basis |-> basis,
   links |-> {<<nums[k], t, Episode(t, at + k)>> : k \in {j \in DOMAIN nums : at + j <= Rows(t)}}]

Destinations(seg) == {l[3] : l \in seg.links}
Sources(seg) == {<<seg.release, l[1]>> : l \in seg.links}
Signature(seg) == <<seg.release, seg.links>>

Take(s, n) == SubSeq(s, 1, Min({n, Len(s)}))

-----------------------------------------------------------------------------
(* What external orderings and season structures prove.                    *)

(* The titles of a compact order, each the concatenation of consecutive    *)
(* titles of the expanded one: where each ends, -1 when it is not unique.  *)
PartitionEnds(compact, expanded) ==
  LET end[i \in 0 .. Len(compact)] ==
        IF i = 0 THEN 0
        ELSE LET hits == {e \in end[i-1] + 1 .. Len(expanded) :
                            FlattenSeq(SubSeq(expanded, end[i-1] + 1, e)) = compact[i]}
             IN  IF end[i-1] < 0 \/ Cardinality(hits) # 1 THEN -1 ELSE CHOOSE e \in hits : TRUE
  IN  end

(* The compact order pairs a provider episode with several Sonarr ones.    *)
Segmented(g, t) ==
  LET compact == S(t).alternate
      official == S(t).official
      ends == PartitionEnds(compact, official)
  IN  /\ Shape(g).declared < S(t).count /\ Nums(g) = [k \in 1 .. Shape(g).declared |-> k]
      /\ "mal" \in Fact(g, t)
      /\ Len(official) = S(t).count /\ Len(compact) = Shape(g).declared
      /\ compact # <<>> /\ ends[Len(compact)] = Len(official)
      /\ \E i \in DOMAIN compact : ends[i] > ends[i-1] + 1

MappedSegment(g, t) ==
  LET ends == PartitionEnds(S(t).alternate, S(t).official)
  IN  [release |-> g, basis |-> "segmented_ordering",
       links |-> UNION {{<<i, t, e>> : e \in ends[i-1] + 1 .. ends[i]} : i \in DOMAIN S(t).alternate}]

(* An order appends to a regular season the titles of the Specials: the    *)
(* seasons whose release ends with them.                                   *)
RelocatedFrom(g, t) ==
  {n \in Seasons \ {0} :
     /\ t = 0 /\ S(0).official # <<>> /\ Len(S(0).official) = S(0).count
     /\ Len(Nums(g)) = Shape(g).declared /\ Contiguous(Nums(g))
     /\ S(n).alternate = S(n).official \o S(0).official
     /\ Len(S(n).alternate) = Shape(g).declared
     /\ "mal" \in Fact(g, n)}

Relocated(g, t) == Cardinality(RelocatedFrom(g, t)) = 1

TailNumbers(g, t) ==
  LET n == CHOOSE n \in RelocatedFrom(g, t) : TRUE
  IN  [k \in 1 .. Len(S(0).official) |-> Len(S(n).official) + k]

(* Another order of the season starts with exactly its titles.             *)
OrderingPrefix(g, t) ==
  /\ Len(Nums(g)) > S(t).count
  /\ S(t).official # <<>> /\ Len(S(t).official) = S(t).count
  /\ Len(S(t).alternate) = Len(Nums(g))
  /\ Take(S(t).alternate, S(t).count) = S(t).official

(* The counts an external source gives to the seasons.                     *)
Structured(t) == t \in DOMAIN case.structure /\ case.structure[t] = S(t).count

SeriesSpan(g, t) ==
  /\ Shape(g).declared > S(t).count /\ Nums(g) = [k \in 1 .. Shape(g).declared |-> k]
  /\ "mal" \in Fact(g, t) /\ Structured(t)
  /\ \E e \in DOMAIN case.structure :
       /\ e > t /\ t .. e \subseteq DOMAIN case.structure
       /\ MapThenSumSet(LAMBDA n : case.structure[n], t .. e) = Shape(g).declared

(* The numbers left when independently named recap slots are taken out.    *)
KeptNumbers(g) ==
  LET kept[k \in 0 .. Len(Nums(g))] ==
        IF k = 0 THEN <<>>
        ELSE IF Nums(g)[k] \in Shape(g).recap THEN kept[k - 1] ELSE Append(kept[k - 1], Nums(g)[k])
  IN  kept[Len(Nums(g))]

ExclusionProjection(g, t) ==
  /\ Shape(g).recap # {} /\ Shape(g).recap \subseteq 1 .. Shape(g).declared
  /\ Nums(g) = [k \in 1 .. Shape(g).declared |-> k]
  /\ Len(KeptNumbers(g)) = S(t).count

-----------------------------------------------------------------------------
(* The rules of one release and one season: the first that applies gives   *)
(* the segments, or excludes the release.                                  *)

SceneSegments(g, t) ==
  LET b == S(t).scene
      part(s) == IF s = 1 THEN [at |-> 0, size |-> b] ELSE [at |-> b, size |-> Rows(t) - b]
      holds(s) ==
        /\ Complete(t) /\ b > 0 /\ part(s).size > 0
        /\ (IF s = 1 THEN "scene1" ELSE "scene2") \in Fact(g, t) \/ (s = 1 /\ Exact(g, t))
        /\ Nums(g) = [k \in 1 .. part(s).size |-> k]
        /\ PremieresAt(g, t, part(s).at + 1)
      of(s) == IF holds(s) THEN <<Linked(g, t, Nums(g), part(s).at, "scene_coordinates")>> ELSE <<>>
  IN  of(1) \o of(2)

(* Observed numbering that is a prefix of the episodes already broadcast.  *)
LivePrefix(g, t) ==
  /\ 0 < Aired(t) /\ Aired(t) < S(t).count
  /\ Shape(g).declared = S(t).count /\ Contiguous(Nums(g)) /\ Len(Nums(g)) <= Aired(t)
  /\ Shape(g).trusted /\ PremieresAt(g, t, 1)
  /\ Fact(g, t) \cap {"title", "article"} # {}

Insufficient(g, t) ==
  \/ ~Shape(g).trusted \/ ~Shape(g).finished
  \/ /\ ~(Contiguous(Nums(g)) /\ Len(Nums(g)) = Shape(g).declared)
     /\ ~ExclusionProjection(g, t)
     /\ ~(Contiguous(Nums(g)) /\ Len(Nums(g)) > S(t).count /\ "alias_count" \in Fact(g, t))

Admission(g, t) ==
  << [when |-> LivePrefix(g, t), gives |-> <<Linked(g, t, Nums(g), 0, "airing_prefix")>>],
     [when |-> Insufficient(g, t), gives |-> <<>>],
     [when |-> "other_id" \in Fact(g, t), gives |-> <<>>],
     [when |-> Complete(t) /\ Relocated(g, t),
      gives |-> IF Relocated(g, t) THEN <<Linked(g, t, TailNumbers(g, t), 0, "relocated_special")>> ELSE <<>>],
     [when |-> \/ "numbered_elsewhere" \in Fact(g, t)
               \/ "foreign" \in Fact(g, t) /\ "scoped" \notin Fact(g, t), gives |-> <<>>] >>

WholeSeason(g, t) ==
  LET f == Fact(g, t)
      n == Rows(t)
      same == Len(Nums(g)) = n
      dated == PremieresAt(g, t, 1)
      rule(when, nums, basis) == [when |-> Complete(t) /\ when, gives |-> <<Linked(g, t, nums, 0, basis)>>]
      all(when, basis) == rule(same /\ when, Nums(g), basis)
      prefix(when, basis) == rule(Contiguous(Nums(g)) /\ when, Take(Nums(g), n), basis)
  IN  << rule("scoped" \in f /\ ExclusionProjection(g, t), KeptNumbers(g), "exclusion_projection"),
         all(Exact(g, t) /\ dated, "whole_target_identity"),
         all("article" \in f /\ dated, "article_identity"),
         [when |-> Complete(t) /\ Segmented(g, t) /\ dated, gives |-> <<MappedSegment(g, t)>>],
         all("mal" \in f /\ Shape(g).declared = S(t).count, "provider_mal_identity"),
         prefix("scoped" \in f /\ "alias_count" \in f /\ Len(Nums(g)) > n, "identity_prefix"),
         prefix(Exact(g, t) /\ OrderingPrefix(g, t) /\ "mal" \in f, "ordering_prefix_with_identity"),
         prefix(Exact(g, t) /\ OrderingPrefix(g, t), "ordering_prefix"),
         prefix(Exact(g, t) /\ SeriesSpan(g, t) /\ dated, "series_span_prefix"),
         all("named_season" \in f, "named_season"),
         all(Exact(g, t) /\ case.independent /\ Structured(t) /\ "season_premiere" \in f,
             "independent_premiere"),
         all("scoped" \in f /\ "year" \in f, "scoped_alias_year"),
         all("scoped_named" \in f, "scoped_alias"),
         all("ordinal" \in f /\ Structured(t), "ordinal_with_structure"),
         all("root" \in f /\ dated, "series_prefix_date") >>

Ruled(g, t) ==
  LET rules == Admission(g, t) \o WholeSeason(g, t)
      hits == {i \in DOMAIN rules : rules[i].when}
  IN  IF hits = {} THEN SceneSegments(g, t) ELSE rules[Min(hits)].gives

-----------------------------------------------------------------------------
(* Seasons composed of several releases.  A chain puts releases one after  *)
(* another; its boundaries are where the previous ones end.                *)

Before(gs, i) ==
  LET sum[n \in 0 .. Len(gs)] == IF n = 0 THEN 0 ELSE sum[n - 1] + Len(Nums(gs[n]))
  IN  sum[i - 1]
Fills(gs, t) == Before(gs, Len(gs) + 1) = Rows(t)
Anchored(gs, t) == \A i \in DOMAIN gs : PremieresAt(gs[i], t, Before(gs, i) + 1)
Chain(gs, t, basis) == [i \in DOMAIN gs |-> Linked(gs[i], t, Nums(gs[i]), Before(gs, i), basis)]

(* One independent source splits the season between exact releases.        *)
OffsetChains(t) ==
  LET fits(g, e) == /\ e.name \in Names(g) /\ Whole(g) /\ Len(Nums(g)) = e.size
                    /\ PremieresAt(g, t, e.at + 1)
      slots(e) == e.at + 1 .. e.at + e.size
      valid(es) ==
        /\ Cardinality(es) >= 2
        /\ \A e \in es : Cardinality({g \in Releases : fits(g, e)}) = 1
        /\ \A e, d \in es : e = d \/ slots(e) \cap slots(d) = {}
        /\ UNION {slots(e) : e \in es} = 1 .. Rows(t)
      piece(e) == Linked(CHOOSE g \in Releases : fits(g, e), t, [k \in 1 .. e.size |-> k], e.at,
                      "episode_offset_composition")
  IN  {{piece(e) : e \in es} : es \in {x \in case.offsets[t] : valid(x)}}

OffsetSegments(t) ==
  LET starting(k) == {seg \in UNION OffsetChains(t) : Min(Destinations(seg)) = k}
  IN  IF Complete(t) /\ Cardinality(OffsetChains(t)) = 1
      THEN FlattenSeq([k \in 1 .. Rows(t) |->
             IF starting(k) = {} THEN <<>> ELSE <<CHOOSE seg \in starting(k) : TRUE>>])
      ELSE <<>>

(* A season followed by its OVA or Specials, published apart.              *)
Supplemented(b, e, t) ==
  /\ "title" \in Fact(b, t) /\ Whole(b) /\ PremieresAt(b, t, 1)
  /\ e # b /\ Shape(e).label = "ova" /\ Shape(e).family = Shape(b).family
  /\ Shape(b).label = "none" /\ Whole(e)
  /\ Fills(<<b, e>>, t) /\ PremieresAt(e, t, Len(Nums(b)) + 1)

SupplementSegments(t) ==
  LET of(b, e) == IF Supplemented(b, e, t) THEN Chain(<<b, e>>, t, "supplemental_suffix") ELSE <<>>
  IN  IF Complete(t)
      THEN FlattenSeq([b \in Releases |-> FlattenSeq([e \in Releases |-> of(b, e)])]) ELSE <<>>

(* The releases of a family by the number of their label; the last release *)
(* of a number stands for it.                                              *)
Family(number) == [n \in Range(number) |-> Max({g \in DOMAIN number : number[g] = n})]

InOrder(f) ==
  LET low == Min(DOMAIN f) IN [i \in 1 .. Max(DOMAIN f) - low + 1 |-> f[low + i - 1]]
Consecutive(f) == Min(DOMAIN f) < Max(DOMAIN f) /\ DOMAIN f = Min(DOMAIN f) .. Max(DOMAIN f)

(* Cours labelled Part 1, Part 2, ...: every boundary dated, or every      *)
(* continuation labelled and the first release scoped to the season.       *)
PartBase(g) == IF Shape(g).label \in {"none", "part"} THEN <<Shape(g).family>>
               ELSE <<Shape(g).family, Shape(g).label, Shape(g).number>>
PartNumber(g) == IF Shape(g).label = "part" THEN Shape(g).number ELSE 1

PartChain(f, t) ==
  LET gs == InOrder(f)
  IN  IF ~(Consecutive(f) /\ Min(DOMAIN f) = 1) THEN <<>>
      ELSE IF "title" \notin Fact(gs[1], t) \/ ~Fills(gs, t) THEN <<>>
      ELSE IF Anchored(gs, t) THEN Chain(gs, t, "part_label_with_boundary")
      ELSE IF "scoped" \in Fact(gs[1], t) THEN Chain(gs, t, "part_labels_scoped")
      ELSE <<>>

(* Families come in the order of their first releases.                     *)
PartSegments(t) ==
  LET kin(g) == {h \in Releases : Whole(h) /\ PartBase(h) = PartBase(g)}
      of(g) == IF Whole(g) /\ \A h \in kin(g) : g <= h
               THEN PartChain(Family([h \in kin(g) |-> PartNumber(h)]), t) ELSE <<>>
  IN  IF Complete(t) THEN FlattenSeq([g \in Releases |-> of(g)]) ELSE <<>>

(* Releases labelled 2, 3, ..., or Part 2, Part 3, ..., that a scoped      *)
(* alias binds to one season.                                              *)
Sequential(g, t) ==
  /\ Shape(g).label \in {"plain", "part"} /\ "scoped" \in Fact(g, t)
  /\ Contiguous(Nums(g)) /\ Len(Nums(g)) = Shape(g).declared /\ Shape(g).finished

SequentialChain(f, t) ==
  LET gs == InOrder(f)
  IN  IF ~Consecutive(f) THEN <<>>
      ELSE IF Fills(gs, t) /\ Anchored(gs, t) THEN Chain(gs, t, "scoped_sequential_seasons")
      ELSE <<>>

SequentialSegments(t) ==
  LET kin(g) == {h \in Releases : /\ Sequential(h, t)
                                  /\ Shape(h).family = Shape(g).family /\ Shape(h).label = Shape(g).label}
      of(g) == IF Sequential(g, t) /\ \A h \in kin(g) : g <= h
               THEN SequentialChain(Family([h \in kin(g) |-> Shape(h).number]), t) ELSE <<>>
  IN  IF Counted(t) THEN FlattenSeq([g \in Releases |-> of(g)]) ELSE <<>>

(* A release named like the season and one named so with a trailing 2.     *)
Scoped(g, t) == Fact(g, t) \cap {"title", "scoped"} # {}

Continued(a, b, t) ==
  /\ Shape(b).label = "plain" /\ Shape(b).number = 2
  /\ Shape(a).label = "none" /\ Shape(a).family = Shape(b).family
  /\ Contiguous(Nums(a)) /\ Contiguous(Nums(b)) /\ Fills(<<a, b>>, t)
  /\ Scoped(a, t) \/ ("root" \in Fact(a, t) /\ "root" \in Fact(b, t))
  /\ Anchored(<<a, b>>, t)

ContinuationSegments(t) ==
  LET basis(a) == IF Scoped(a, t) THEN "numbered_continuation" ELSE "series_prefix_continuation"
      of(a, b) == IF Continued(a, b, t) THEN Chain(<<a, b>>, t, basis(a)) ELSE <<>>
  IN  IF Counted(t)
      THEN FlattenSeq([b \in Releases |-> FlattenSeq([a \in Releases |-> of(a, b)])]) ELSE <<>>

(* A release that spans consecutive seasons by Sonarr's absolute numbers,  *)
(* with holes the provider has not published.                              *)
SpanSegment(g, t, ts) ==
  LET declared == 1 .. Shape(g).declared
      size == MapThenSumSet(Rows, ts)
      start(u) == MapThenSumSet(Rows, {v \in ts : v < u})
      first == Min(ts)
      gaps == declared \ ToSet(Nums(g))
      independent == case.independent /\ \A u \in ts : Structured(u)
      mapped == {k \in 1 .. Rows(t) : Absolute(t, k) \in ToSet(Nums(g))}
      missing == (1 .. Rows(t)) \ mapped
      basis == IF missing = {} THEN IF gaps # {} THEN "absolute_with_gap"
                                    ELSE IF independent THEN "independent_structure"
                                    ELSE "absolute_sequence"
               ELSE IF {Episode(t, k) : k \in missing} \subseteq S(t).files THEN "existing_file_gap"
               ELSE "provider_gap"
      holds == /\ ts \subseteq Seasons /\ t \in ts /\ Cardinality(ts) >= 2
               /\ Nums(g) # <<>> /\ Shape(g).trusted /\ Shape(g).finished
               /\ ToSet(Nums(g)) \subseteq declared
               /\ \A u \in ts : Counted(u)
               /\ size = Shape(g).declared
               /\ \A u \in ts : \A k \in 1 .. Rows(u) : Absolute(u, k) = start(u) + k
               /\ "same_series" \in Fact(g, first) /\ PremieresAt(g, first, 1)
               /\ (gaps = {} /\ independent) \/ (first = 1 /\ Cardinality(ts) >= 3)
  IN  IF holds /\ mapped # {}
      THEN << [release |-> g, basis |-> basis,
               links |-> {<<Absolute(t, k), t, Episode(t, k)>> : k \in mapped}] >>
      ELSE <<>>

SpanSegments(t) ==
  LET last == Max(Seasons)
      from(g, a) == FlattenSeq([b \in 1 .. last |-> SpanSegment(g, t, a .. b)])
  IN  FlattenSeq([g \in Releases |-> FlattenSeq([a \in 1 .. last + 1 |-> from(g, a - 1)])])

-----------------------------------------------------------------------------
(* The search for exact covers.  A state is what is covered and which      *)
(* source episodes are used; it keeps its best score and the solutions of  *)
(* that score.                                                             *)

Rank(basis) ==
  CASE basis \in {"whole_target_identity", "independent_premiere", "absolute_sequence",
                  "ordering_prefix_with_identity", "segmented_ordering"} -> 6
    [] basis \in {"series_prefix_date", "series_prefix_continuation", "scoped_alias_year",
                  "ordinal_with_structure"} -> 5
    [] basis = "scoped_alias" -> 4
    [] OTHER -> 3

Quality(solution) == Min({Rank(seg.basis) : seg \in solution} \cup {10})

Desired(t) == 1 .. S(t).count

(* Mutation: every proposal is taken.                                      *)
Proposed(t) == ToSet(choices[t])

(* Of the proposals with the same release and links the first is kept.     *)
Available(t) ==
  {choices[t][i] : i \in {j \in DOMAIN choices[t] :
     \A k \in 1 .. j - 1 : Signature(choices[t][k]) # Signature(choices[t][j])}}

(* The segments the search takes: of episodes that are wanted, only.      *)
Fitting(t) ==
  {seg \in Available(t) : Destinations(seg) # {} /\ Destinations(seg) \subseteq Desired(t)}

StartStates == [s \in {<<{}, {}>>} |-> [score |-> 10, solutions |-> {{}}]]

Extended(states, item, s) ==
  LET from == states[<<s[1] \ Destinations(item), s[2] \ Sources(item)>>]
  IN  [score |-> Min({from.score, Rank(item.basis)}),
       solutions |-> {solution \cup {item} : solution \in from.solutions}]

FirstFound(a, b) == IF a.score >= b.score THEN a ELSE b

Better(a, b) ==
  IF a.score = b.score THEN [a EXCEPT !.solutions = @ \cup b.solutions]
  ELSE IF a.score > b.score THEN a ELSE b

Open(states, item) ==
  {s \in DOMAIN states : s[1] \cap Destinations(item) = {} /\ s[2] \cap Sources(item) = {}}

Extend(states, item) ==
  LET new == {<<s[1] \cup Destinations(item), s[2] \cup Sources(item)>> : s \in Open(states, item)}
  IN  [s \in DOMAIN states \cup new |->
         IF s \notin new THEN states[s]
         ELSE IF s \in DOMAIN states THEN Better(states[s], Extended(states, item, s))
         ELSE Extended(states, item, s)]

Held(states) == MapThenSumSet(LAMBDA s : Cardinality(states[s].solutions), DOMAIN states)

Reached(t) ==
  (UNION {cover[s].solutions : s \in {x \in DOMAIN cover : x[1] \subseteq Desired(t)}}) \ {{}}

Completed(t) ==
  (UNION {cover[s].solutions : s \in {x \in DOMAIN cover : x[1] = Desired(t)}}) \ {{}}

Strongest(solutions) ==
  {s \in solutions : \A r \in solutions : Quality(r) <= Quality(s)}

-----------------------------------------------------------------------------
(* The selection of one cover.                                             *)

Single(set) == \E x \in set : set = {x}

Named(g) == <<Shape(g).family, Shape(g).label, Shape(g).number>>
Structure(solution) == {<<Named(seg.release), seg.links>> : seg \in solution}
Spoken(solution, audio) == \A seg \in solution : audio \in Audio(seg.release)

Preferred(solutions) ==
  LET dub == {s \in solutions : Spoken(s, "dub")}
      sub == {s \in solutions : Spoken(s, "sub")}
  IN  IF Single(solutions) THEN solutions
      ELSE IF ~Single({Structure(s) : s \in solutions}) THEN {}
      ELSE IF Single(dub) THEN dub
      ELSE IF Single(sub) THEN sub ELSE {}

Matched(solution) == [status |-> "matched", segments |-> solution, reason |-> "none"]
Review(solution, reason) == [status |-> "needs_review", segments |-> solution, reason |-> reason]

(* Releases that follow the absolute numbers and leave holes.              *)
GapItems(t) ==
  {seg \in Available(t) : /\ seg.basis \in {"existing_file_gap", "provider_gap"}
                          /\ Desired(t) \ Destinations(seg) # {}}
ReadyItems(t) == {seg \in GapItems(t) : Desired(t) \ Destinations(seg) \subseteq S(t).files}

Unselected(t, solutions) ==
  LET airing == {seg \in Available(t) : Destinations(seg) = 1 .. Aired(t)}
  IN  IF Single(airing) /\ Aired(t) < S(t).count THEN Review(airing, "season_in_progress")
      ELSE IF solutions # {} THEN Review({}, "multiple_equivalent_candidates")
      ELSE Review({}, "crosswalk_missing")

PlanOf(t, solutions) ==
  LET chosen == Preferred(solutions)
      ready == ReadyItems(t)
      blocked == GapItems(t) \ ready
  IN  IF chosen # {} THEN Matched(CHOOSE s \in chosen : TRUE)
      ELSE IF solutions # {} THEN Unselected(t, solutions)
      ELSE IF Single(ready) THEN Matched(ready)
      ELSE IF ready = {} /\ Single(blocked) THEN Review(blocked, "provider_episode_gap")
      ELSE Unselected(t, solutions)

-----------------------------------------------------------------------------
(* resolve_series.                                                         *)

NoPlan == [status |-> "none", segments |-> {}, reason |-> "none"]
SeasonAfter(t) == {u \in Seasons : u > t}

Init ==
  /\ case \in Cases
  /\ phase = "group"
  /\ groups = <<>>
  /\ choices = [t \in Seasons |-> <<>>]
  /\ turn = Min(Seasons)
  /\ left = {} /\ cover = StartStates
  /\ plans = [t \in Seasons |-> NoPlan]

Group ==
  /\ phase = "group"
  /\ groups' = GroupReleases
  /\ phase' = "rules"
  /\ UNCHANGED <<case, choices, turn, left, cover, plans>>

(* Every release against every season, then the compositions of a season.  *)
ProposeByRules ==
  /\ phase = "rules"
  /\ choices' = [t \in Seasons |->
       FlattenSeq([g \in Releases |-> Ruled(g, t)])
         \o OffsetSegments(t) \o SupplementSegments(t) \o PartSegments(t)]
  /\ phase' = "series"
  /\ UNCHANGED <<case, groups, turn, left, cover, plans>>

ProposeBySeries ==
  /\ phase = "series"
  /\ choices' = [t \in Seasons |->
       choices[t] \o SequentialSegments(t) \o ContinuationSegments(t) \o SpanSegments(t)]
  /\ phase' = "start"
  /\ UNCHANGED <<case, groups, turn, left, cover, plans>>

StartCover ==
  /\ phase = "start"
  /\ left' = Fitting(turn)
  /\ cover' = StartStates
  /\ phase' = "cover"
  /\ UNCHANGED <<case, groups, choices, turn, plans>>

Resolved(plan) ==
  /\ plans' = [plans EXCEPT ![turn] = plan]
  /\ turn' = IF SeasonAfter(turn) = {} THEN turn ELSE Min(SeasonAfter(turn))
  /\ phase' = IF SeasonAfter(turn) = {} THEN "collide" ELSE "start"

(* The segments are taken in the order of their links by destination,      *)
(* compared as tuples: by the first link they do not share.                *)
Ends(seg) == {<<l[3], l[1]>> : l \in seg.links}
PairLess(x, y) == x[1] < y[1] \/ (x[1] = y[1] /\ x[2] < y[2])

Precedes(a, b) ==
  \/ Ends(a) = Ends(b) /\ a.release <= b.release
  \/ \E x \in Ends(a) \ Ends(b) :
       /\ \E y \in Ends(b) : PairLess(x, y)
       /\ \A y \in Ends(b) \ Ends(a) : PairLess(x, y)
  \/ /\ Ends(a) \subseteq Ends(b) /\ Ends(a) # Ends(b)
     /\ \A x \in Ends(a), y \in Ends(b) \ Ends(a) : PairLess(x, y)

CoverItem ==
  /\ phase = "cover"
  /\ \E item \in left :
       /\ \A other \in left : Precedes(item, other)
       /\ cover' = Extend(cover, item)
       /\ left' = left \ {item}
  /\ IF Held(cover') > StateLimit THEN Resolved(Review({}, "candidate_overflow"))
     ELSE UNCHANGED <<turn, plans, phase>>
  /\ UNCHANGED <<case, groups, choices>>

Select ==
  /\ phase = "cover" /\ left = {}
  /\ Resolved(PlanOf(turn, Strongest(Completed(turn))))
  /\ UNCHANGED <<case, groups, choices, left, cover>>

(* A source episode belongs to one season.                                 *)
Used(t) == UNION {Sources(seg) : seg \in plans[t].segments}
SameSegments == {t \in Seasons : \E u \in Seasons \ {t} : plans[t].segments \cap plans[u].segments # {}}
Colliding == {t \in Seasons : \E u \in Seasons \ {t} : Used(t) \cap Used(u) # {}}

Collide ==
  /\ phase = "collide"
  /\ plans' = [t \in Seasons |-> IF t \in Colliding THEN Review({}, "duplicate_url_across_seasons")
                                 ELSE plans[t]]
  /\ phase' = "done"
  /\ UNCHANGED <<case, groups, choices, turn, left, cover>>

Next == \/ Group \/ ProposeByRules \/ ProposeBySeries \/ StartCover \/ CoverItem \/ Select \/ Collide

Spec == Init /\ [][Next]_vars

-----------------------------------------------------------------------------
(* Properties.                                                             *)

(* Every season keeps a plan of a known status while the search goes from  *)
(* season to season, and its states keep a score between the ranks.        *)
TypeOK ==
  /\ phase \in {"group", "rules", "series", "start", "cover", "collide", "done"}
  /\ turn \in Seasons
  /\ DOMAIN plans = Seasons /\ DOMAIN choices = Seasons
  /\ \A t \in Seasons : plans[t].status \in {"none", "matched", "needs_review"}
  /\ \A s \in DOMAIN cover : cover[s].score \in 3 .. 10

Apart(segs) == \A a, b \in segs :
  a # b => Destinations(a) \cap Destinations(b) = {} /\ Sources(a) \cap Sources(b) = {}
Covered(segs) == UNION {Destinations(seg) : seg \in segs}

(* A matched season has exactly one source for every episode that is       *)
(* wanted, except for episodes Sonarr already has a file of; no source     *)
(* episode serves two segments (resolve_series, best_exact_covers).        *)
MatchedIsExact ==
  \A t \in Seasons : plans[t].status = "matched" =>
    /\ Apart(plans[t].segments)
    /\ Desired(t) \ Covered(plans[t].segments) \subseteq S(t).files

(* When resolve_series returns, no source episode of a release is in the   *)
(* plans of two seasons, whichever rules proposed it in each.              *)
SourceHasOneSeason ==
  phase = "done" => \A t, u \in Seasons : t # u => Used(t) \cap Used(u) = {}

(* The search finds an exact cover exactly when there is one, and keeps    *)
(* every strongest one: the reference tries every set of proposals.        *)
ExactCovers(t) ==
  {x \in SUBSET {seg \in Available(t) : Destinations(seg) # {}} :
     x # {} /\ Apart(x) /\ Covered(x) = Desired(t)}

CoverIsBest ==
  phase = "cover" /\ left = {} => Strongest(Completed(turn)) = Strongest(ExactCovers(turn))

(* The search may forget a weaker solution of a state although a later     *)
(* segment would have made it as strong as the kept one.  What the rules   *)
(* propose never lets that happen: two ways to cover one part of a season  *)
(* from the same source episodes are equally strong.  A part is what the   *)
(* search can still complete: as it takes the segments in the order of     *)
(* their first episodes, nothing is missing before the first of any.       *)
Feeds(segs) == UNION {Sources(seg) : seg \in segs}
Gapless(t, segs) ==
  \A seg \in segs : \A e \in Desired(t) \ Covered(segs) : \E d \in Destinations(seg) : d < e
Parts(t) == {x \in SUBSET Fitting(t) : Apart(x) /\ Gapless(t, x) /\ Covered(x) # Desired(t)}

PartsAgree ==
  phase = "cover" => \A x, y \in Parts(turn) :
    Covered(x) = Covered(y) /\ Feeds(x) = Feeds(y) => Quality(x) = Quality(y)
=============================================================================
