--------------------------- MODULE MCMappingTable ---------------------------
(* Three titles, the first two written alike, and four URLs: the first two  *)
(* are one URL with and without its trailing slash, the third a later part, *)
(* the fourth no URL at all.                                                *)
EXTENDS MappingTable, TLC
MCTitles == {1, 2, 3}
MCKey == <<1, 1, 2>>
MCUrls == {1, 2, 3, 4}
MCValid == {1, 2, 3}
MCNorm == <<1, 1, 2, 3>>
MCPart == <<1, 1, 2, 0>>
MCWanted == {<<1, 1>>, <<2, 2>>, <<3, Absolute>>}
Row(entry, title, season, urls, absolute) ==
  Group(entry, title, season, urls, absolute, FALSE, FALSE)
MCFiles ==
  {<<Row(0, 2, 1, <<3, 1>>, FALSE), Row(0, 2, 2, <<1>>, FALSE)>>,
   <<Row(1, 3, Absolute, <<1>>, TRUE), Row(2, 1, 1, <<2>>, FALSE)>>}
One == <<Entry(1, FALSE, 1 :> <<1>>)>>
Two == <<Entry(2, FALSE, 1 :> <<3>> @@ 2 :> <<>>), Entry(3, TRUE, Absolute :> <<1>>)>>
Same == <<Entry(1, FALSE, 2 :> <<3>>), Entry(1, FALSE, 1 :> <<1>>)>>
MCStartTables == {One, Two}
MCUploads == {Same}
=============================================================================
