----------------------------- MODULE FaceLifecycle -----------------------------
(***************************************************************************)
(* What a transport promises to the rest of the forwarder about the face   *)
(* it carries (face/transport.hpp, face/channel.hpp, fw/face-table.cpp):   *)
(* it goes through the documented states only, the face leaves the face    *)
(* table in the step in which it becomes CLOSED, and it is deallocated     *)
(* later, never before.                                                    *)
(***************************************************************************)

VARIABLES
  state,  \* TransportState
  life    \* "listed" in the face table, "removed" from it, "freed"

lifecycleVars == <<state, life>>

Init == state = "UP" /\ life = "listed"

GoDown  == state = "UP" /\ state' = "DOWN" /\ UNCHANGED life
ComeUp  == state = "DOWN" /\ state' = "UP" /\ UNCHANGED life
Shut    == state \in {"UP", "DOWN"} /\ state' \in {"CLOSING", "FAILED"} /\ UNCHANGED life
Finish  == /\ state \in {"CLOSING", "FAILED"}
           /\ state' = "CLOSED" /\ life = "listed" /\ life' = "removed"
\* a transport without handlers of its own is closed in the call itself
ShutAtOnce == /\ state \in {"UP", "DOWN"}
              /\ state' = "CLOSED" /\ life = "listed" /\ life' = "removed"
Free    == state = "CLOSED" /\ life = "removed" /\ life' = "freed" /\ UNCHANGED state

Next == GoDown \/ ComeUp \/ Shut \/ Finish \/ ShutAtOnce \/ Free

Spec == Init /\ [][Next]_lifecycleVars

===============================================================================
