-------------------------------- MODULE Sharing --------------------------------
(***************************************************************************)
(* How a node answers others about its files (AskService, FilePage,        *)
(* FileDetails), and what becomes of the answers. A text is a sequence of  *)
(* tokens; those that matter are the separators, "/", "," and "=", and     *)
(* "query". A disk is the sequence of the files below /sdcard/ndnshare/,   *)
(* in the order of a traversal.                                            *)
(***************************************************************************)
EXTENDS Integers, Sequences, SequencesExt

CONSTANTS
  Numeral,   \* the token that a number is printed as, for each length of a file
  DataSize,  \* datasize
  Failure,   \* a handler that throws
  NoFile,    \* null
  Garbage    \* a file of what is not Base64 text, decoded without an error

\* String.indexOf(word) >= 0
Has(text, word) ==
  \E i \in 0 .. Len(text) - Len(word) : SubSeq(text, i + 1, i + Len(word)) = word

\* String.indexOf from a place on; 0 if there is none
IndexOf(text, token, from) ==
  SelectInSubSeq(text, from, Len(text), LAMBDA t : t = token)

-----------------------------------------------------------------------------
(* the list of the files, and the text it is sent as *)

\* recursionFile with search == null: the details of every file, setFilelist
Filelist(disk) ==
  [i \in DOMAIN disk |->
     [name |-> disk[i].name, type |-> disk[i].type, size |-> Numeral[disk[i].length]]]

\* FileDetails::toString
DetailsToText(details) ==
  <<"eachfile{name", "=">> \o details.name \o <<",", "type", "=", details.type,
    ",", "size", "=", details.size, ",", "}">>

\* FileDetails::setString. A field is between a "=" and a ","; the last one has to be a number.
SetString(text) ==
  LET eq1 == IndexOf(text, "=", 1)        comma1 == IndexOf(text, ",", 1)
      eq2 == IndexOf(text, "=", eq1 + 1)  comma2 == IndexOf(text, ",", comma1 + 1)
      eq3 == IndexOf(text, "=", eq2 + 1)  comma3 == IndexOf(text, ",", comma2 + 1)
      size == SubSeq(text, eq3 + 1, comma3 - 1)
  IN  IF eq1 >= comma1 \/ eq2 >= comma2 \/ eq3 >= comma3 THEN Failure
      ELSE IF Len(size) # 1 \/ size[1] \notin Range(Numeral) THEN Failure
      ELSE [name |-> SubSeq(text, eq1 + 1, comma1 - 1),
            type |-> SubSeq(text, eq2 + 1, comma2 - 1), size |-> size[1]]

\* The words an Interest asks for: of a query the one asked and, after "queried", the similar one
Searched(interest) ==
  LET n == Len(interest)
  IN  IF \E i \in 1 .. n : Has(interest[i], <<"query">>) THEN {interest[n - 2], interest[n]}
      ELSE {interest[n]}

\* OnAskInterest: the text of all files whose name has one of the words
OnAskInterest(filelist, interest) ==
  LET found == SelectSeq(filelist, LAMBDA f : \E word \in Searched(interest) : Has(f.name, word))
  IN  FlattenSeq([i \in DOMAIN found |-> <<"/">> \o DetailsToText(found[i])]) \o <<"/">>

\* OnReceivedAskData: between each two slashes there is a file; one that throws loses the list.
OnReceivedAskData(text) ==
  LET slashes == SetToSortSeq({i \in DOMAIN text : text[i] = "/"}, <)
      list == [n \in 1 .. Len(slashes) - 1 |->
                 SetString(SubSeq(text, slashes[n] + 1, slashes[n + 1] - 1))]
  IN  IF Failure \in Range(list) THEN Failure ELSE list

-----------------------------------------------------------------------------
(* files *)

\* findFile: what the call for a directory below returns is dropped
FindFile(disk, name) ==
  LET n == SelectInSeq(disk, LAMBDA f : f.path = <<>> /\ f.name = name)
  IN  IF n = 0 THEN NoFile ELSE disk[n]

\* fileToBase64: how long the text is, with the newline after each 76 characters
Base64Length(length) ==
  LET text == 4 * ((length + 2) \div 3) IN text + (text + 75) \div 76

\* OnAskFileInterest: "no file", the content, or how many parts there are, which nobody asks for
OnAskFileInterest(disk, name) ==
  LET file == FindFile(disk, name)
  IN  IF file = NoFile THEN [is |-> "no file"]
      ELSE IF Base64Length(file.length) < DataSize THEN [is |-> "content", of |-> file]
      ELSE [is |-> "fileNeedSplit", parts |-> Base64Length(file.length) \div DataSize]

\* base64ToFile, which OnReceivedFileData calls for every answer: decoded and stored
Base64ToFile(answer) == IF answer.is = "content" THEN answer.of ELSE Garbage

-----------------------------------------------------------------------------

\* The list that arrives is that of the files with one of the words, each once, in order; the
\* whole list is lost when the name of one of them has a separator in it.
ListArrives(disk, interest) ==
  LET found == SelectSeq(disk, LAMBDA f : \E word \in Searched(interest) : Has(f.name, word))
      list == OnReceivedAskData(OnAskInterest(Filelist(disk), interest))
  IN  IF \E i \in DOMAIN found : {",", "="} \cap Range(found[i].name) # {} THEN list = Failure
      ELSE /\ list # Failure /\ Len(list) = Len(found)
           /\ \A i \in DOMAIN list : /\ list[i].name = found[i].name
                                     /\ list[i].type = <<found[i].type>>
                                     /\ list[i].size = Numeral[found[i].length]

\* A file that is listed is downloaded as it is only when it is not in a directory of its own and
\* small; what is stored otherwise under its name is another file or garbage.
DownloadIsRight(disk) ==
  \A i \in DOMAIN disk :
    Base64ToFile(OnAskFileInterest(disk, disk[i].name)) = disk[i]
      <=> disk[i].path = <<>> /\ Base64Length(disk[i].length) < DataSize

===============================================================================
