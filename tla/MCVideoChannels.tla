--------------------------- MODULE MCVideoChannels ---------------------------
(* An instance of VideoChannels with one surface of each kind.             *)
EXTENDS VideoChannels, TLC
MCChain == <<"facebook", "reel", "instagram">>
MCColumnOf == [s \in {"facebook", "reel", "instagram"} |->
                 IF s = "reel" THEN "facebook" ELSE s]
MCByUrl == {"instagram"}
MCProbing == {"instagram"}
MCSilent == {"reel"}
MCSymmetry == Permutations(Articles)
=============================================================================
