-------------------------- MODULE RefreshSessions ---------------------------
(***************************************************************************)
(* What the auth service promises its clients: a session has at most one   *)
(* refresh token that is accepted; a token that has stopped being accepted *)
(* never is again; a session that was logged out before its token was      *)
(* exchanged gets no further one.                                          *)
(***************************************************************************)
CONSTANT Tokens
VARIABLES live,   \* pairs of a session and the token accepted for it
          spent,  \* tokens that will never be accepted (again)
          over    \* sessions that were logged out with nothing under way

vars == <<live, spent, over>>

Init == live = {} /\ spent = {} /\ over = {}

TokensOf(L) == {p[2] : p \in L}

(* A session gets its next token.                                          *)
Issue(s, k) ==
  /\ s \notin over /\ k \notin spent
  /\ \A p \in live : p[1] # s /\ p[2] # k
  /\ live' = live \cup {<<s, k>>}
  /\ UNCHANGED <<spent, over>>

(* Tokens are used, expire or are lost.                                    *)
Spend(L) ==
  /\ live' = live \ L
  /\ spent' = spent \cup TokensOf(L)
  /\ UNCHANGED over

(* A token that never came to be accepted.                                 *)
Discard(k) ==
  /\ k \notin TokensOf(live)
  /\ spent' = spent \cup {k}
  /\ UNCHANGED <<live, over>>

(* Logout with a token that has not been exchanged.                        *)
End(s) ==
  /\ live' = {p \in live : p[1] # s}
  /\ spent' = spent \cup TokensOf(live \ live')
  /\ over' = over \cup {s}

Next == \/ \E s, k \in Tokens : Issue(s, k)
        \/ \E L \in SUBSET live : Spend(L)
        \/ \E k \in Tokens : Discard(k) \/ End(k)

Spec == Init /\ [][Next]_vars
=============================================================================
