---------------------------- MODULE EventCounting ----------------------------
(***************************************************************************)
(* What the analytics worker promises, with nothing said about processes,  *)
(* readers or a group: messages arrive in topics, each topic is handed out *)
(* in turns, and in a turn each of its events is counted at most once.     *)
(* Whoever settles a topic up to some message has seen to it that every    *)
(* event up to there was counted or excused (its counting reported an      *)
(* error).  Messages that are no events are passed over.                   *)
(***************************************************************************)
EXTENDS Integers, Sequences

CONSTANTS Topics, Content

VARIABLES arrived,  \* how many messages each topic has got
          turns,    \* how often each topic was handed out
          counted,  \* how often each message was counted
          excused,  \* <<topic, place>> of messages with a reported error
          settled   \* up to where each topic is done with, for now

vars == <<arrived, turns, counted, excused, settled>>

Init ==
  /\ arrived = [t \in Topics |-> 0]
  /\ turns = [t \in Topics |-> 0]
  /\ counted = [t \in Topics |-> [i \in 1..Len(Content[t]) |-> 0]]
  /\ excused = {}
  /\ settled = [t \in Topics |-> 0]

Arrive(t) ==
  /\ arrived[t] < Len(Content[t])
  /\ arrived' = [arrived EXCEPT ![t] = @ + 1]
  /\ UNCHANGED <<turns, counted, excused, settled>>

HandOut(t) ==
  /\ turns' = [turns EXCEPT ![t] = @ + 1]
  /\ UNCHANGED <<arrived, counted, excused, settled>>

IsEvent(t, i) == Content[t][i] = "event"

(* Counting may report an error all the same.                              *)
Count(t, i) ==
  /\ IsEvent(t, i) /\ counted[t][i] < turns[t]
  /\ counted' = [counted EXCEPT ![t][i] = @ + 1]
  /\ excused' \in {excused, excused \cup {<<t, i>>}}
  /\ UNCHANGED <<arrived, turns, settled>>

Excuse(t, i) ==
  /\ IsEvent(t, i)
  /\ excused' = excused \cup {<<t, i>>}
  /\ UNCHANGED <<arrived, turns, counted, settled>>

(* n may lie behind what others settled before.                            *)
Settle(t, n) ==
  /\ \A i \in 1..n : IsEvent(t, i) => counted[t][i] > 0 \/ <<t, i>> \in excused
  /\ settled' = [settled EXCEPT ![t] = n]
  /\ UNCHANGED <<arrived, turns, counted, excused>>

Next == \E t \in Topics :
          \/ Arrive(t) \/ HandOut(t)
          \/ \E i \in 1..arrived[t] : Count(t, i) \/ Excuse(t, i) \/ Settle(t, i)

Spec == Init /\ [][Next]_vars
=============================================================================
