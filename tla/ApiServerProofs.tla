--------------------------- MODULE ApiServerProofs --------------------------
(***************************************************************************)
(* What holds of ApiServer for any number of requests, addresses, pool     *)
(* size, faults and restarts.                                              *)
(***************************************************************************)
EXTENDS ApiServer, RateLimitProofs

(* Whoever the INSERT has answered will be told the truth.                 *)
AboutToReply ==
  \A r \in Requests : /\ pc[r] = "created" => user = r
                      /\ pc[r] = "conflict" => user \notin {Nobody, r}

(* srv.Shutdown returned early only if it timed out.                       *)
ClosingDrained == main = "closing" /\ InFlight # {} => timedOut

IInv == /\ TypeOK /\ LimitInv /\ IsFiniteSet(conns)
        /\ AccountIsTheirs /\ AboutToReply /\ ClosingDrained

LEMMA InitIInv == Init => IInv
<1> SUFFICES ASSUME Init PROVE IInv
  OBVIOUS
<1>1. LimitInv
  BY InitLimitInv DEF Init
<1>2. IsFiniteSet(conns) /\ Cardinality(conns) = 0
  BY FS_EmptySet DEF Init
<1>3. TypeOK
  <2>1. LimitTypeOK /\ 0 \in 0..MaxFaults /\ 0 <= PoolSize
    BY <1>1, ApiServerAssumption DEF LimitInv
  <2>2. InFlight = {} /\ conns = {r \in Requests : pc[r] = "insert"}
    BY DEF Init, InFlight
  <2> QED
    BY <1>2, <2>1, <2>2 DEF Init, TypeOK
<1> QED
  BY <1>1, <1>2, <1>3 DEF IInv, Init, AccountIsTheirs, AboutToReply, ClosingDrained

(* Every step of the server is a step of the limit, or none.               *)
LEMMA LimitStep ==
  ASSUME [Next]_vars
  PROVE  [LimitNext]_limitVars
<1>1. CASE \E r \in Requests : Arrive(r)
  BY <1>1 DEF Arrive, LimitNext
<1>2. CASE \E r \in Requests : ReadBody(r) \/ Handle(r) \/ InsertFails(r)
  BY <1>2 DEF ReadBody, Handle, Acquire, Insert, Reply, InsertFails
<1>3. CASE Stop \/ ShutdownReturns \/ Exit \/ Crash \/ Restart
  BY <1>3 DEF Stop, ShutdownReturns, Exit, Crash, Restart
<1>4. CASE Tick \/ Flush
  BY <1>4 DEF LimitNext
<1>5. CASE UNCHANGED vars
  BY <1>5 DEF vars
<1> QED
  BY <1>1, <1>2, <1>3, <1>4, <1>5 DEF Next

-----------------------------------------------------------------------------
(* What a step of one request leaves to show.                              *)

Labels == {"new", "body", "hash", "insert", "created", "conflict", "done"}
Answers == {"none", "201", "400", "409", "429", "500", "cut"}

(* A request goes on to a label with an answer; the rest stay.             *)
Moves(r, label, code) == /\ pc' = [pc EXCEPT ![r] = label]
                         /\ answer' = [answer EXCEPT ![r] = code]

LEMMA MovesKeep ==
  ASSUME TypeOK, NEW r \in Requests, NEW label \in Labels, NEW code \in Answers,
         Moves(r, label, code)
  PROVE  /\ pc' \in [Requests -> Labels] /\ answer' \in [Requests -> Answers]
         /\ pc'[r] = label /\ answer'[r] = code
         /\ \A q \in Requests : q # r => pc'[q] = pc[q] /\ answer'[q] = answer[q]
BY DEF TypeOK, Moves, Labels, Answers

Step(r) == Arrive(r) \/ ReadBody(r) \/ Handle(r) \/ InsertFails(r)

LEMMA StepMoves ==
  ASSUME TypeOK, NEW r \in Requests, Step(r)
  PROVE  \E label \in Labels, code \in Answers :
           /\ Moves(r, label, code)
           /\ code # "cut" \/ code = answer[r]
           /\ label # "new" /\ (label = "insert" => pc[r] = "hash")
           /\ label = "created" => user' = r
           /\ label = "conflict" => user' \notin {Nobody, r}
           /\ code = "201" => answer[r] = "201" \/ pc[r] = "created"
           /\ code = "409" => answer[r] = "409" \/ pc[r] = "conflict"
<1>1. answer[r] \in Answers
  BY DEF TypeOK, Answers
<1>2. ASSUME NEW label \in Labels, Goto(r, label), UNCHANGED answer
      PROVE  Moves(r, label, answer[r])
  BY <1>2 DEF Goto, Moves, TypeOK
<1>3. ASSUME NEW code \in Answers, Answer(r, code)
      PROVE  Moves(r, "done", code) /\ "done" \in Labels
  BY <1>3 DEF Answer, Goto, Moves, Labels
<1>4. \A code \in {"201", "400", "409", "429", "500"} : code \in Answers /\ code # "cut"
  BY DEF Answers
<1>5. \A label \in {"body", "hash", "insert", "created", "conflict"} :
        label \in Labels /\ label # "new"
  BY DEF Labels
<1>6. CASE Arrive(r)
  BY <1>1, <1>2, <1>3, <1>4, <1>5, <1>6 DEF Arrive
<1>7. CASE ReadBody(r)
  BY <1>1, <1>2, <1>3, <1>4, <1>5, <1>7 DEF ReadBody
<1>8. CASE Acquire(r)
  BY <1>1, <1>2, <1>3, <1>4, <1>5, <1>8 DEF Acquire
<1>9. CASE Insert(r)
  <2> DEFINE label == IF user' = r THEN "created" ELSE "conflict"
  <2>1. Goto(r, label) /\ UNCHANGED answer /\ user' = Inserted(r)
    BY <1>9 DEF Insert
  <2>2. label = "conflict" => user' \notin {Nobody, r}
    BY <2>1 DEF Inserted
  <2>3. label \in {"created", "conflict"} /\ (label = "created" => user' = r)
    OBVIOUS
  <2> HIDE DEF label
  <2>4. Moves(r, label, answer[r])
    BY <1>2, <1>5, <2>1, <2>3
  <2> QED
    BY <1>1, <1>5, <2>2, <2>3, <2>4
<1>10. CASE Reply(r)
  BY <1>3, <1>4, <1>10 DEF Reply
<1>11. CASE InsertFails(r)
  BY <1>3, <1>4, <1>11 DEF InsertFails
<1> QED
  BY <1>6, <1>7, <1>8, <1>9, <1>10, <1>11 DEF Step, Handle

(* What else a step of a request may change.                               *)
LEMMA StepFrame ==
  ASSUME TypeOK, NEW r \in Requests, Step(r)
  PROVE  /\ UNCHANGED <<main, timedOut>>
         /\ user' \in {user, Inserted(r)}
         /\ faults \in Nat /\ faults' \in 0..MaxFaults /\ faults <= faults'
         /\ pc[r] # "done" /\ (pc[r] = "new" => main = "serving")
<1> USE ApiServerAssumption
<1>1. CASE InsertFails(r)
  BY <1>1 DEF InsertFails, Disturb, TypeOK
<1>2. CASE Arrive(r) \/ ReadBody(r) \/ Acquire(r) \/ Insert(r) \/ Reply(r)
  BY <1>2 DEF Arrive, ReadBody, Acquire, Insert, Reply, TypeOK
<1> QED
  BY <1>1, <1>2 DEF Step, Handle

(* The connections of the pool.                                            *)
LEMMA StepConns ==
  ASSUME TypeOK, IsFiniteSet(conns), NEW r \in Requests, Step(r)
  PROVE  /\ conns' = {q \in Requests : pc'[q] = "insert"}
         /\ IsFiniteSet(conns') /\ Cardinality(conns') <= PoolSize
<1> USE ApiServerAssumption
<1>0. /\ Cardinality(conns) \in Nat /\ Cardinality(conns) <= PoolSize
      /\ conns = {q \in Requests : pc[q] = "insert"}
  BY FS_CardinalityType DEF TypeOK
<1>1. \A label : Goto(r, label) =>
        {q \in Requests : pc'[q] = "insert"} =
          IF label = "insert" THEN conns \cup {r} ELSE conns \ {r}
  BY <1>0 DEF Goto, TypeOK
<1>2. \A label, code : Answer(r, code) => Goto(r, "done")
  BY DEF Answer
<1>3. IsFiniteSet(conns \ {r}) /\ Cardinality(conns \ {r}) <= PoolSize
  <2>1. /\ IsFiniteSet(conns \ {r}) /\ Cardinality(conns \ {r}) \in Nat
        /\ Cardinality(conns \ {r}) <= Cardinality(conns)
    BY FS_Subset, FS_CardinalityType
  <2> QED
    BY <1>0, <2>1
<1>4. CASE Acquire(r) /\ Goto(r, "insert")
  <2>1. conns' = conns \cup {r} /\ Cardinality(conns) + 1 <= PoolSize
    BY <1>4 DEF Acquire, OneFree, Answer, Goto, TypeOK
  <2>2. r \notin conns
    BY <1>0, <1>4 DEF Acquire
  <2>3. IsFiniteSet(conns') /\ Cardinality(conns') = Cardinality(conns) + 1
    BY <2>1, <2>2, FS_AddElement
  <2> QED
    BY <1>1, <1>4, <2>1, <2>3
<1>5. CASE Insert(r) \/ InsertFails(r)
  <2>1. conns' = conns \ {r} /\ \E label \in {"created", "conflict", "done"} : Goto(r, label)
    BY <1>2, <1>5 DEF Insert, InsertFails, Released
  <2> QED
    BY <1>1, <1>3, <2>1
<1>6. CASE Arrive(r) \/ ReadBody(r) \/ Reply(r) \/ (Acquire(r) /\ ~Goto(r, "insert"))
  <2>1. conns' = conns /\ pc[r] # "insert"
    BY <1>6 DEF Arrive, ReadBody, Reply, Acquire
  <2>2. \E label \in {"body", "hash", "done"} : Goto(r, label)
    BY <1>2, <1>6 DEF Arrive, ReadBody, Reply, Acquire
  <2>3. conns \ {r} = conns
    BY <1>0, <2>1
  <2> QED
    BY <1>1, <1>3, <2>1, <2>2, <2>3
<1> QED
  BY <1>4, <1>5, <1>6 DEF Step, Handle

LEMMA StepIInv ==
  ASSUME IInv, LimitInv', NEW r \in Requests, Step(r)
  PROVE  IInv'
<1> USE ApiServerAssumption
<1>0. TypeOK /\ IsFiniteSet(conns) /\ LimitTypeOK'
  BY DEF IInv, LimitInv
<1>1. PICK label \in Labels, code \in Answers :
        /\ Moves(r, label, code)
        /\ code # "cut" \/ code = answer[r]
        /\ label # "new"
        /\ label = "created" => user' = r
        /\ label = "conflict" => user' \notin {Nobody, r}
        /\ code = "201" => answer[r] = "201" \/ pc[r] = "created"
        /\ code = "409" => answer[r] = "409" \/ pc[r] = "conflict"
  BY <1>0, StepMoves
<1>2. /\ pc' \in [Requests -> Labels] /\ answer' \in [Requests -> Answers]
      /\ pc'[r] = label /\ answer'[r] = code
      /\ \A q \in Requests : q # r => pc'[q] = pc[q] /\ answer'[q] = answer[q]
  BY <1>0, <1>1, MovesKeep
<1>3. /\ main' = main /\ timedOut' = timedOut
      /\ faults \in Nat /\ faults' \in 0..MaxFaults /\ faults <= faults'
      /\ pc[r] # "done" /\ (pc[r] = "new" => main = "serving")
  BY <1>0, StepFrame
<1>4. user' \in {user, Inserted(r)} /\ (user # Nobody => user' = user)
  BY <1>0, StepFrame DEF Inserted
<1>5. main # "serving" => InFlight' \subseteq InFlight
  BY <1>1, <1>2, <1>3 DEF InFlight
<1>6. TypeOK'
  <2>1. user' \in Requests \cup {Nobody}
    BY <1>0, <1>4 DEF TypeOK, Inserted
  <2>2. main' = "down" => InFlight' = {}
    BY <1>0, <1>3, <1>5 DEF TypeOK
  <2> QED
    BY <1>0, <1>2, <1>3, <2>1, <2>2, StepConns DEF TypeOK, Labels, Answers
<1>7. AccountIsTheirs'
  BY <1>1, <1>2, <1>4 DEF IInv, AccountIsTheirs, AboutToReply
<1>8. AboutToReply'
  BY <1>1, <1>2, <1>4 DEF IInv, AboutToReply
<1>9. ClosingDrained'
  BY <1>3, <1>5 DEF IInv, ClosingDrained
<1> QED
  BY <1>0, <1>6, <1>7, <1>8, <1>9, StepConns DEF IInv

-----------------------------------------------------------------------------
(* main.                                                                   *)

LEMMA CutOffEnds ==
  ASSUME TypeOK, CutOff
  PROVE  /\ main' = "down" /\ InFlight' = {} /\ conns' = {}
         /\ pc' \in [Requests -> {"new", "done"}] /\ answer' \in [Requests -> Answers]
         /\ \A q \in Requests : answer'[q] # answer[q] => answer'[q] = "cut"
         /\ InFlight = {} => UNCHANGED answer
<1>1. answer' \in [Requests -> Answers]
  BY DEF CutOff, TypeOK, Answers
<1>2. pc' \in [Requests -> {"new", "done"}]
  BY DEF CutOff, InFlight
<1>3. InFlight = {} => UNCHANGED answer
  BY DEF CutOff, TypeOK
<1> QED
  BY <1>1, <1>2, <1>3 DEF CutOff, InFlight

LEMMA MainIInv ==
  ASSUME IInv, LimitInv', Stop \/ ShutdownReturns \/ Exit \/ Crash \/ Restart
  PROVE  IInv'
<1> USE ApiServerAssumption
<1>0. TypeOK /\ IsFiniteSet(conns) /\ LimitTypeOK'
  BY DEF IInv, LimitInv
<1>1. ASSUME main' \in {"serving", "draining", "closing"},
             UNCHANGED <<pc, answer, conns, user, faults>>,
             timedOut' \in BOOLEAN,
             main' = "closing" => InFlight = {} \/ timedOut'
      PROVE  IInv'
  <2>1. InFlight' = InFlight
    BY <1>1 DEF InFlight
  <2>2. TypeOK'
    BY <1>0, <1>1, <2>1 DEF TypeOK
  <2>3. AccountIsTheirs' /\ AboutToReply'
    BY <1>1 DEF IInv, AccountIsTheirs, AboutToReply
  <2>4. ClosingDrained'
    BY <1>1, <2>1 DEF ClosingDrained
  <2> QED
    BY <1>0, <1>1, <2>2, <2>3, <2>4 DEF IInv
<1>2. ASSUME CutOff, timedOut' = timedOut, faults' \in 0..MaxFaults,
             user' \in Requests \cup {Nobody}, user # Nobody => user' = user
      PROVE  IInv'
  <2>1. /\ main' = "down" /\ InFlight' = {} /\ conns' = {}
        /\ pc' \in [Requests -> {"new", "done"}] /\ answer' \in [Requests -> Answers]
        /\ \A q \in Requests : answer'[q] # answer[q] => answer'[q] = "cut"
    BY <1>0, <1>2, CutOffEnds
  <2>2. IsFiniteSet(conns') /\ Cardinality(conns') = 0
    BY <2>1, FS_EmptySet
  <2>3. conns' = {q \in Requests : pc'[q] = "insert"} /\ pc' \in [Requests -> Labels]
    BY <2>1 DEF Labels
  <2>4. TypeOK'
    BY <1>0, <1>2, <2>1, <2>2, <2>3 DEF TypeOK, Labels, Answers
  <2>5. AccountIsTheirs'
    BY <1>2, <2>1 DEF IInv, AccountIsTheirs
  <2>6. AboutToReply'
    BY <2>1 DEF AboutToReply
  <2>7. ClosingDrained'
    BY <2>1 DEF ClosingDrained
  <2> QED
    BY <2>2, <2>4, <2>5, <2>6, <2>7 DEF IInv
<1>3. CASE Stop
  BY <1>0, <1>1, <1>3 DEF Stop, TypeOK
<1>4. CASE ShutdownReturns
  BY <1>0, <1>1, <1>4 DEF ShutdownReturns, Drained, TypeOK
<1>5. CASE Exit
  <2>1. /\ CutOff /\ UNCHANGED <<user, timedOut, faults>>
        /\ faults \in 0..MaxFaults /\ user \in Requests \cup {Nobody}
    BY <1>0, <1>5 DEF Exit, TypeOK
  <2> QED
    BY <1>2, <2>1
<1>6. CASE Crash
  <2>1. CutOff /\ timedOut' = timedOut
    BY <1>6 DEF Crash
  <2>2. faults' \in 0..MaxFaults
    BY <1>0, <1>6 DEF Crash, Disturb, TypeOK
  <2>3. user' \in Requests \cup {Nobody} /\ (user # Nobody => user' = user)
    BY <1>0, <1>6 DEF Crash, Inserted, TypeOK
  <2> QED
    BY <1>2, <2>1, <2>2, <2>3
<1>7. CASE Restart
  BY <1>1, <1>7 DEF Restart
<1> QED
  BY <1>3, <1>4, <1>5, <1>6, <1>7

-----------------------------------------------------------------------------
(* Every step.                                                             *)

LEMMA NextIInv ==
  ASSUME IInv, [Next]_vars
  PROVE  IInv'
<1>1. LimitInv'
  BY LimitStep, NextLimitInv DEF IInv
<1>2. CASE \E r \in Requests : Step(r)
  BY <1>1, <1>2, StepIInv
<1>3. CASE Stop \/ ShutdownReturns \/ Exit \/ Crash \/ Restart
  BY <1>1, <1>3, MainIInv
<1>4. CASE UNCHANGED serverVars
  BY <1>1, <1>4 DEF serverVars, IInv, LimitInv, TypeOK, InFlight, AccountIsTheirs,
     AboutToReply, ClosingDrained
<1> QED
  BY <1>2, <1>3, <1>4 DEF Next, Step, vars

LEMMA InvHolds == Spec => []IInv
BY InitIInv, NextIInv, PTL DEF Spec

(* The server's rate limit is the one RateLimit specifies: no step of a    *)
(* request, of main or of a crash goes around it.                          *)
THEOREM ServerLimits == Spec => LimitSpec
<1>1. Init => LimitInit
  BY DEF Init
<1> QED
  BY <1>1, LimitStep, PTL DEF Spec, LimitSpec

(* The pool gives no more connections than it has, each to one request     *)
(* between Acquire and the end of its statement, across every restart.     *)
THEOREM TypeCorrect == Spec => []TypeOK
<1>1. IInv => TypeOK
  BY DEF IInv
<1> QED
  BY <1>1, InvHolds, PTL

(* Register's 201 means that the account is the caller's for good, its 409 *)
(* that it is somebody else's, for any number of racing requests.          *)
THEOREM OneOwner == Spec => []AccountIsTheirs
<1>1. IInv => AccountIsTheirs
  BY DEF IInv
<1> QED
  BY <1>1, InvHolds, PTL

(* main's shutdown cuts nobody off unless its own timeout ran out: pool    *)
(* and process are there until the last handler has answered.              *)
THEOREM NobodyCutOff == Spec => GracefulStop
<1> DEFINE Kept == \A r \in Requests :
                     answer[r] # "cut" /\ answer'[r] = "cut" => timedOut \/ Crash
<1>1. IInv /\ [Next]_vars => [Kept]_vars
  <2> SUFFICES ASSUME IInv, Next PROVE Kept
    OBVIOUS
  <2>0. TypeOK
    BY DEF IInv
  <2>1. ASSUME NEW r \in Requests, Step(r) PROVE Kept
    <3>1. PICK label \in Labels, code \in Answers :
            Moves(r, label, code) /\ (code # "cut" \/ code = answer[r])
      BY <2>0, <2>1, StepMoves
    <3>2. answer'[r] = code /\ \A q \in Requests : q # r => answer'[q] = answer[q]
      BY <2>0, <3>1, MovesKeep
    <3> QED
      BY <3>1, <3>2
  <2>2. CASE Exit
    <3>1. CutOff /\ main = "closing"
      BY <2>2 DEF Exit
    <3>2. CASE InFlight = {}
      BY <2>0, <3>1, <3>2, CutOffEnds
    <3>3. CASE timedOut
      BY <3>3
    <3> QED
      BY <3>1, <3>2, <3>3 DEF IInv, ClosingDrained
  <2>3. CASE Stop \/ ShutdownReturns \/ Restart \/ UNCHANGED serverVars
    BY <2>3 DEF Stop, ShutdownReturns, Restart, serverVars
  <2> QED
    BY <2>1, <2>2, <2>3 DEF Next, Step
<1> QED
  BY <1>1, InvHolds, PTL DEF Spec, GracefulStop

-----------------------------------------------------------------------------
(* What EveryoneServed and StopsEventually rest on.                        *)

(* A handler waits for the pool, or main for the pool to close, only while *)
(* a statement runs: its connection comes back without anybody's help.     *)
PoolMovesOn ==
  /\ \A r \in Requests : pc[r] = "hash" /\ PoolOpen /\ ~OneFree =>
       \E q \in conns : q # r /\ pc[q] = "insert"
  /\ main = "closing" /\ conns # {} => \E q \in Requests : pc[q] = "insert"

(* No handler ever waits with a connection in hand, so the pool is not     *)
(* deadlocked by its own clients, whatever its size.                       *)
THEOREM PoolDoesNotDeadlock == Spec => []PoolMovesOn
<1>1. ASSUME IInv, NEW r \in Requests, pc[r] = "hash", ~OneFree
      PROVE  \E q \in conns : q # r /\ pc[q] = "insert"
  <2>1. conns # {}
    <3>1. SUFFICES ASSUME conns = {} PROVE FALSE
      OBVIOUS
    <3>2. Cardinality(conns) = 0
      BY <3>1, FS_EmptySet
    <3> QED
      BY <1>1, <3>2, ApiServerAssumption DEF OneFree
  <2>2. PICK q \in conns : TRUE
    BY <2>1
  <2> QED
    BY <1>1, <2>2 DEF IInv, TypeOK
<1>2. ASSUME IInv, conns # {}
      PROVE  \E q \in Requests : pc[q] = "insert"
  BY <1>2 DEF IInv, TypeOK
<1>3. IInv => PoolMovesOn
  BY <1>1, <1>2 DEF PoolMovesOn
<1> QED
  BY <1>3, InvHolds, PTL
=============================================================================
