---------------------------- MODULE MCScanEvidence ----------------------------
(* Three seasons of two series.  The second page is on the shortlists of both  *)
(* series and beyond what one scan may request; some pages fit a season only   *)
(* once they have changed; the second generation of the catalogue overflows    *)
(* the shortlist of the second series.                                         *)
EXTENDS ScanEvidence

MCTargets == {<<1, 1>>, <<1, 2>>, <<2, 1>>}
MCUrls    == 1..3
MCAudioOf == <<"SUB", "DUB", "SUB">>
MCStrong  == <<{1, 2}, {1, 2, 3}>>
MCWeak    == <<{}, {1, 2}>>
MCFits    == [t \in MCTargets |-> CASE t = <<1, 1>> -> {<<1, 1>>, <<2, 1>>, <<2, 2>>}
                                    [] t = <<1, 2>> -> {<<1, 1>>, <<1, 2>>, <<2, 2>>}
                                    [] t = <<2, 1>> -> {<<1, 2>>, <<2, 1>>, <<2, 2>>}]
MCCatalog == <<{1, 2}, {1, 2, 3}>>
=============================================================================
