------------------------------ MODULE MCWorker ------------------------------
(* The topics of Worker for TLC: an event behind a message nobody can      *)
(* decode, and a topic that stays empty.                                   *)
EXTENDS Worker, TLC

CONSTANTS t1, t2

Messages == t1 :> <<"broken", "event">> @@ t2 :> <<>>
=============================================================================
