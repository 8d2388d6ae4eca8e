---------------------------- MODULE MCSeriesScan ----------------------------
(* One anime with two seasons and a special, and a tagged series that is    *)
(* none.  Page 1 lists a merged episode and a special number, page 2 misses *)
(* its first episode, page 3 its last; page 4 is whole, and has an episode 0.                          *)
EXTENDS SeriesScan, TLC
MCEpisodes == 1..4
Ep(title, season, number, absolute) ==
  [title |-> title, season |-> season, number |-> number, absolute |-> absolute]
MCInfo == <<Ep(1, 1, 3, 3), Ep(1, 2, 1, 4), Ep(1, 0, 1, 0), Ep(2, 1, 2, 0)>>
MCTitles == {1, 2}
MCKey == <<1, 2>>
MCUrls == 1..4
MCNorm == <<1, 2, 3, 4>>
MCPart == <<0, 0, 0, 0>>
MCListed == <<<< <<1, 2>>, <<1, 0>> >>, << <<2, 2>> >>, << <<1, 1>> >>, << <<0, 0>>, <<1, 1>>, <<2, 2>> >>>>
MCLength == <<2, 2, 2, 2>>
MCPreferences == [review |-> {}, shared |-> {}]
MCStartTables ==
  {<<Entry(1, FALSE, 1 :> <<1, 4>> @@ 2 :> <<4>>), Entry(2, FALSE, 1 :> <<3, 2>>)>>,
   <<Entry(1, FALSE, 1 :> <<2, 4>>)>>,
   <<Entry(1, TRUE, Absolute :> <<1, 1, 4>>)>>}
Set(autoBind, autoSave, moveEp, renameEp, tagsMode) ==
  [autoBind |-> autoBind, autoSave |-> autoSave, moveEp |-> moveEp,
   renameEp |-> renameEp, tagsMode |-> tagsMode]
MCStartSettings ==
  {Set(TRUE, TRUE, TRUE, TRUE, "BLACKLIST"), Set(FALSE, TRUE, TRUE, FALSE, "WHITELIST"),
   Set(FALSE, FALSE, FALSE, TRUE, "BLACKLIST")}
MCStartMissing == <<1, 3, 4>>
=============================================================================
