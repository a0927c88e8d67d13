---------------------------- MODULE Conversation ----------------------------
(***************************************************************************)
(* What the chat promises about one listing, as if a message were checked  *)
(* and stored in a single step: while the listing is there, buyers write   *)
(* to its owner and the owner answers those who wrote to him before; the   *)
(* messages go with the listing, all at once, and nothing is posted after. *)
(***************************************************************************)
EXTENDS Integers

CONSTANTS Owner, Buyers,
          Message       \* the messages there can be: [id, from, to, ...]

VARIABLES open,         \* the listing is there
          messages      \* the messages in it

vars == <<open, messages>>

Init == open = TRUE /\ messages = {}

HasWritten(u, k) == \E n \in messages : n.from = u /\ n.to = Owner /\ n.id < k

MayPost(m) == \/ m.from \in Buyers /\ m.to = Owner
              \/ m.from = Owner /\ m.to \in Buyers /\ HasWritten(m.to, m.id)

Post(m) == /\ open
           /\ \A n \in messages : n.id # m.id
           /\ MayPost(m)
           /\ messages' = messages \cup {m}
           /\ UNCHANGED open

Close == /\ open
         /\ open' = FALSE /\ messages' = {}

Next == Close \/ \E m \in Message : Post(m)

Spec == Init /\ [][Next]_vars
=============================================================================
