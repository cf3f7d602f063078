------------------------- MODULE UnsolicitedDataPolicy -------------------------
(***************************************************************************)
(* The policies for Data nobody asked for (fw/unsolicited-data-policy), by *)
(* the keys they have in the configuration file.                           *)
(***************************************************************************)
CONSTANTS Faces, LocalFaces

Keys == {"drop-all", "admit-local", "admit-network", "admit-all"}

\* decide, which looks at nothing but the scope of the incoming face
DropAllDecide(f) == "DROP"
AdmitLocalDecide(f) == IF f \in LocalFaces THEN "CACHE" ELSE "DROP"
AdmitNetworkDecide(f) == IF f \notin LocalFaces THEN "CACHE" ELSE "DROP"
AdmitAllDecide(f) == "CACHE"

\* create, for a key that is registered
Create(key) ==
  [f \in Faces |->
     CASE key = "drop-all" -> DropAllDecide(f)
       [] key = "admit-local" -> AdmitLocalDecide(f)
       [] key = "admit-network" -> AdmitNetworkDecide(f)
       [] key = "admit-all" -> AdmitAllDecide(f)]

\* the faces whose unsolicited Data a policy admits to the Content Store
Admitted(key) == {f \in Faces : Create(key)[f] = "CACHE"}

===============================================================================
