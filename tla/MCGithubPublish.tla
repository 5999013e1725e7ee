-------------------------- MODULE MCGithubPublish ---------------------------
(* GithubPublish for TLC: one file no report vouches for, one it vouches    *)
(* for, and the image.                                                      *)
EXTENDS GithubPublish, TLC

MCAssetsSince == (1 :> {"SHA256SUMS"}) @@ (2 :> {"boot-components.json"})
MCSizeOf == [b \in {"whole", "damaged", "cut", "empty"} |->
               CASE b = "empty" -> 0 [] b = "cut" -> 1 [] OTHER -> 2]
MCLocalAssets == <<"SHA256SUMS", "boot-components.json", "image">>
MCChecksOf == [v \in 1..CurrentSchema |-> {"ext4Rootfs"}]
MCManifest == [schema |-> 5, fingerprint |-> "fp", requires |-> {},
               pinned |-> [n \in {"boot-components.json"} |-> "whole"]]
MCReport == [schema |-> CurrentSchema, fingerprint |-> "fp",
             passed |-> {"ext4Rootfs"}, reported |-> {}, clean |-> TRUE,
             evidence |-> [n \in {"boot-components.json"} |-> "whole"],
             image |-> "image", imageBytes |-> "whole"]
=============================================================================
