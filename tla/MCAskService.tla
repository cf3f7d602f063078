----------------------------- MODULE MCAskService -----------------------------
(* Values for the constants of AskService: two words that files are found for, *)
(* which are alike, and one that no file is found for. And for Sharing small   *)
(* disks, with names that have separators, directories and large files.        *)
EXTENDS AskService, TLC

CONSTANTS w1, w2, w3, failed, noFile, garbage

WordSymmetry == Permutations({w1, w2})

\* 3600 octets are 4864 as text, 3800 octets 5135.
Share == INSTANCE Sharing WITH
  Numeral <- (3600 :> "3600" @@ 3800 :> "3800"), DataSize <- 5000,
  Failure <- failed, NoFile <- noFile, Garbage <- garbage

FileNames == {<<"x">>, <<"x", "y">>, <<"x", ",">>, <<"=", "x">>, <<"y", ",", "=", "x">>}
DiskFiles == [path : {<<>>, <<"folder">>}, name : FileNames, type : {"?"}, length : {3600, 3800}]

\* no two files of a directory have one name
Disks ==
  {<<>>} \cup {<<f>> : f \in DiskFiles}
    \cup {<<p[1], p[2]>> : p \in {q \in DiskFiles \X DiskFiles :
                                    q[1].path # q[2].path \/ q[1].name # q[2].name}}

SearchNames ==
  {<<<<"search">>, word>> : word \in {<<"x">>, <<"y">>, <<"z">>}}
    \cup {<<<<"search">>, <<"query">>, word, <<"queried">>, fuzz>> :
            word, fuzz \in {<<"x">>, <<"y">>, <<"z">>}}

\* Lists and files arrive as told.
ASSUME SharingAssumption ==
  \A disk \in Disks : /\ Share!DownloadIsRight(disk)
                      /\ \A interest \in SearchNames : Share!ListArrives(disk, interest)
=============================================================================
