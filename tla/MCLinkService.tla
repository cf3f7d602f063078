----------------------------- MODULE MCLinkService -----------------------------
(* Constants of the model-checking runs of LinkService. *)
EXTENDS LinkService

CONSTANTS s, t, m1, m2, m3

\* two senders, which number their frames alike
BySender(m) == IF m = m3 THEN t ELSE s

\* with an MTU of 6: three fragments, two, and two with a header on the first
Sizes(m) == CASE m = m1 -> 10 [] m = m2 -> 6 [] m = m3 -> 5
Headers(m) == IF m = m3 THEN 1 ELSE 0
Types(m) == CASE m = m1 -> "Interest" [] m = m2 -> "Data" [] m = m3 -> "Nack"
Fields(m) == CASE m = m1 -> {"NextHopFaceId"} [] m = m2 -> {"CachePolicy"} [] m = m3 -> {"IncomingFaceId"}

===============================================================================
