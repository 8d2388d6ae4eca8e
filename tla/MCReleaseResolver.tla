------------------------- MODULE MCReleaseResolver -------------------------
(* Instances of resolve_series for TLC: one family of calls per way a      *)
(* season can be covered, and the ways the families meet.                  *)
EXTENDS ReleaseResolver

Numbered(n) == [k \in 1 .. n |-> k]
Word(w) == <<w>>

(* A season of n rows that are all real and broadcast.                     *)
Plain(n, before) ==
  [listed |-> n, count |-> n, placed |-> n, first |-> 1, aired |-> n, files |-> {},
   absolute |-> before, scene |-> 0, official |-> <<>>, alternate |-> <<>>]

Release(nums, declared, premieres, family, label, number) ==
  [nums |-> nums, declared |-> declared, premieres |-> premieres, family |-> family,
   label |-> label, number |-> number, trusted |-> TRUE, finished |-> TRUE, recap |-> {}]

Candidate(shape, names, audio) == [shape |-> shape, names |-> names, audio |-> audio]

Call(season, candidate, fact, offsets, structure, independent) ==
  [season |-> season, candidate |-> candidate, fact |-> fact,
   offsets |-> offsets, structure |-> structure, independent |-> independent]

None(season) == [t \in DOMAIN season |-> {}]
NoStructure == <<>>

(* One season of two episodes; a release that any rule may take, and the   *)
(* rivals it meets: its dubbed twin, or another release of the season.     *)
FactSets ==
  { {}, {"title"}, {"article"}, {"ordinal"}, {"scoped"}, {"scoped", "scoped_named"}, {"scoped", "year"},
    {"foreign", "title"}, {"foreign", "scoped", "year"}, {"numbered_elsewhere", "title"},
    {"other_id", "title"}, {"root"}, {"mal"}, {"mal", "title"}, {"scoped", "alias_count"},
    {"named_season"}, {"title", "season_premiere"}, {"scoped", "title"}, {"scene1", "scene2"} }

OneSeason ==
  { (1 :> s) : s \in
      { Plain(2, 0),
        [Plain(2, 0) EXCEPT !.aired = 1],
        [Plain(3, 0) EXCEPT !.count = 2, !.placed = 2],
        [Plain(2, 0) EXCEPT !.first = 2],
        [Plain(2, 0) EXCEPT !.scene = 1],
        [Plain(2, 0) EXCEPT !.official = <<Word("a"), Word("b")>>, !.alternate = <<Word("a"), Word("b"), Word("c")>>],
        [Plain(2, 0) EXCEPT !.official = <<Word("a"), Word("b")>>, !.alternate = <<<<"a", "b">>>>] } }

Shapes ==
  { Release(Numbered(n), d, {<<1, p>>}, "f", "none", 1) : n \in 1 .. 3, d \in 1 .. 3, p \in 1 .. 2 }
    \cup { [Release(Numbered(3), 3, {<<1, 1>>}, "f", "none", 1) EXCEPT !.recap = {2}],
           [Release(Numbered(2), 2, {<<1, 1>>}, "f", "none", 1) EXCEPT !.trusted = FALSE] }

Rivals == { Candidate(Release(Numbered(2), 2, {<<1, 1>>}, "f", "none", 1), {"f"}, "dub"),
            Candidate(Release(Numbered(2), 2, {<<1, 1>>}, "g", "none", 1), {"g"}, "sub") }

ByRule ==
  { Call(s, <<Candidate(shape, {"f"}, "sub"), rival>>, <<(1 :> f), (1 :> r)>>, (1 :> {}),
         IF st THEN (1 :> 2) @@ (2 :> 1) ELSE NoStructure, TRUE) :
      s \in OneSeason, shape \in {x \in Shapes : x.declared = Len(x.nums) \/ Len(x.nums) = 1},
      rival \in Rivals, f \in FactSets, r \in {{}, {"title"}}, st \in BOOLEAN }

(* Several releases in one season of three episodes.                       *)
Labels == { <<"none", 1>>, <<"part", 2>>, <<"plain", 2>>, <<"plain", 3>>, <<"ova", 1>> }

Cours(n, labels, facts, premieres) ==
  Call((1 :> Plain(3, 0)),
       << Candidate(Release(Numbered(n), n, premieres[1], "f", labels[1][1], labels[1][2]), {"f", "x"}, "sub"),
          Candidate(Release(Numbered(3 - n), 3 - n, premieres[2], "f", labels[2][1], labels[2][2]), {"y"}, "sub"),
          Candidate(Release(Numbered(3 - n), 3 - n, premieres[3], "f", labels[3][1], labels[3][2]), {"y"}, "dub") >>,
       << (1 :> facts[1]), (1 :> facts[2]), (1 :> facts[2]) >>,
       (1 :> {{[name |-> "x", size |-> n, at |-> 0], [name |-> "y", size |-> 3 - n, at |-> n]}}),
       NoStructure, FALSE)

CourLabels == {<<l1, l2, l3>> : l1 \in {<<"none", 1>>, <<"plain", 2>>}, l2 \in Labels, l3 \in Labels}
                \cup {<<<<"part", 2>>, <<"part", 3>>, <<"part", 3>>>>}
CourFacts == {{"title"}, {"root"}, {"title", "scoped"}} \X {{}, {"root"}, {"scoped"}}

Composed ==
  { Cours(n, l, f, << {<<1, 1>>}, {<<1, p>>}, {<<1, n + 1>>} >>) :
      n \in 1 .. 2, p \in 1 .. 3, l \in CourLabels, f \in CourFacts }

(* A season published in one day: every release agrees with every row.     *)
AtOnce ==
  { Cours(n, l, f, [i \in 1 .. 3 |-> {1} \X (1 .. 3)]) :
      n \in 1 .. 2, l \in CourLabels, f \in CourFacts }

(* A season in two scene parts, and one whose parts are bound by an alias  *)
(* or by an independent source, which may put them in another order.       *)
Parted ==
  { Call((1 :> [Plain(2, 0) EXCEPT !.scene = 1]),
         << Candidate(Release(<<1>>, 1, {<<1, q>>}, "f", "none", 1), {"x"}, "sub"),
            Candidate(Release(<<1>>, 1, {<<1, p>>}, "f", l[1], l[2]), {"y"}, "sub") >>,
         << (1 :> f1), (1 :> f2) >>,
         (1 :> {{[name |-> "x", size |-> 1, at |-> q - 1], [name |-> "y", size |-> 1, at |-> 2 - q]}}),
         NoStructure, FALSE) :
      p \in 1 .. 2, q \in 1 .. 2, l \in Labels, f1 \in {{"title"}, {"title", "scoped"}}, f2 \in {{}, {"scene2"}} }

(* One release more than the search may hold.                              *)
Crowded ==
  { [c EXCEPT !.candidate = Append(@, Candidate(Release(Numbered(2), 2, {<<1, 1>>}, "g", "none", 1), {"g"}, "sub")),
              !.fact = Append(@, (1 :> {"title"}))] : c \in Parted }

(* A release that runs through three seasons, with holes and files.        *)
Spanning ==
  { Call((1 :> [Plain(1, 0) EXCEPT !.files = f1]) @@ (2 :> [Plain(2, 1) EXCEPT !.files = f2]) @@ (3 :> Plain(1, 3)),
         << Candidate(Release(nums, 4, {<<1, 1>>}, "f", "none", 1), {"f"}, "sub"),
            Candidate(Release(Numbered(m), m, {<<2, 1>>}, "g", "none", 1), {"g"}, "sub"),
            Candidate(Release(Numbered(3), 3, {<<1, 1>>}, "f", "none", 1), {"f"}, "sub") >>,
         << (1 :> {"same_series"}) @@ (2 :> {}) @@ (3 :> {}),
            (1 :> {}) @@ (2 :> g) @@ (3 :> {}),
            (1 :> t) @@ (2 :> {}) @@ (3 :> {}) >>,
         (1 :> {}) @@ (2 :> {}) @@ (3 :> {}),
         (1 :> 1) @@ (2 :> 2) @@ (3 :> 1), ind) :
      f1 \in {{}, {1}}, f2 \in {{}, {1}, {2}, {1, 2}},
      nums \in {Numbered(4), <<1, 2, 4>>, <<1, 3, 4>>, <<2, 3, 4>>, <<1, 4>>, <<4>>},
      m \in 1 .. 2, g \in {{}, {"title"}}, t \in {{"same_series"}, {"same_series", "mal", "title"}},
      ind \in BOOLEAN }

(* Two seasons and the Specials that claim the same releases.              *)
Shared ==
  { Call((0 :> [Plain(1, -1) EXCEPT !.official = <<Word("z")>>])
           @@ (1 :> [Plain(2, 0) EXCEPT !.official = <<Word("a"), Word("b")>>,
                                       !.alternate = <<Word("a"), Word("b"), Word("z")>>])
           @@ (2 :> Plain(2, 2)),
         << Candidate(Release(Numbered(n), n, {<<1, 1>>}, "f", "none", 1), {"f"}, "sub"),
            Candidate(Release(Numbered(2), 2, {<<s, 1>>}, "g", "none", 1), {"g"}, "dub") >>,
         << (0 :> f0) @@ (1 :> f1) @@ (2 :> f2), (0 :> {}) @@ (1 :> g1) @@ (2 :> g2) >>,
         (0 :> {}) @@ (1 :> {}) @@ (2 :> {}), NoStructure, FALSE) :
      n \in 2 .. 3, s \in 1 .. 2, f0 \in {{}, {"other_id"}},
      f1 \in {{"mal"}, {"mal", "title"}, {"scoped", "alias_count"}}, f2 \in {{}, {"scoped", "scoped_named"}, {"root"}},
      g1 \in {{}, {"title"}, {"scoped", "scoped_named"}}, g2 \in {{}, {"title"}, {"ordinal"}} }

MCCases == ByRule \cup Composed \cup Parted \cup Crowded \cup Spanning \cup Shared \cup AtOnce
=============================================================================
