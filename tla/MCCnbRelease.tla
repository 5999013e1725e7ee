---------------------------- MODULE MCCnbRelease ----------------------------
(* CnbRelease for TLC: three builds, the third with another image name.    *)
EXTENDS CnbRelease, TLC

MCAssetsSince == (1 :> {"SHA256SUMS"}) @@ (5 :> {"report"})
MCChecksOf == [v \in 1..CurrentSchema |-> {}]
MCSizeOf == [b \in {1, 2, 3, 0} |-> IF b = 0 THEN 1 ELSE 2]
MCFixed == <<"SHA256SUMS", "report">>
MCImageOf == <<"image-a", "image-a", "image-b">>
MCOldName == ("tag-report" :> "report")
=============================================================================
