------------------------------ MODULE ApiServer -----------------------------
(***************************************************************************)
(* The HTTP server of cmd/api from its start to its stop, and the route    *)
(* that goes through all of it: POST /auth/register.  A request passes the *)
(* rate limit, has its body read, hashes the password, takes a connection  *)
(* of the pool and inserts a user; on SIGTERM, or when the listener fails, *)
(* main stops accepting, waits for the requests in flight up to the        *)
(* shutdown timeout, closes the pool, which waits for its connections, and *)
(* returns, which ends what is left.                                       *)
(*                                                                         *)
(* All requests register the same email (others share no row) with         *)
(* different passwords, so a request stands for the hash it would store.   *)
(***************************************************************************)
EXTENDS RateLimit

CONSTANTS Requests,    \* POST /auth/register requests
          Nobody,      \* no user has the email
          PoolSize,    \* maxConns
          MaxFaults    \* bound on failed statements and crashes

ASSUME ApiServerAssumption ==
  Nobody \notin Requests /\ PoolSize \in Nat \ {0} /\ MaxFaults \in Nat

VARIABLES
  main,      \* where main stands
  pc,        \* where each request stands
  answer,    \* its answer; "cut": the process ended first
  conns,     \* requests that hold a connection of the pool
  user,      \* the password_hash stored for the email
  timedOut,  \* history: this process's srv.Shutdown gave up waiting
  faults     \* failures so far

serverVars == <<main, pc, answer, conns, user, timedOut, faults>>
vars == <<limitVars, serverVars>>

Init ==
  /\ LimitInit
  /\ main = "serving"
  /\ pc = [r \in Requests |-> "new"]
  /\ answer = [r \in Requests |-> "none"]
  /\ conns = {}
  /\ user = Nobody
  /\ timedOut = FALSE
  /\ faults = 0

Goto(r, label) == pc' = [pc EXCEPT ![r] = label]
Answer(r, code) == /\ Goto(r, "done")
                   /\ answer' = [answer EXCEPT ![r] = code]

Disturb == faults < MaxFaults /\ faults' = faults + 1

InFlight == {r \in Requests : pc[r] \notin {"new", "done"}}

-----------------------------------------------------------------------------
(* POST /auth/register.                                                    *)

(* authLimit.                                                              *)
Arrive(r) ==
  /\ main = "serving" /\ pc[r] = "new"
  /\ \E a \in Addresses :
       \/ /\ Admit(a) \/ FailOpen(a)
          /\ Goto(r, "body")
          /\ UNCHANGED answer
       \/ /\ Refuse(a)
          /\ Answer(r, "429")
  /\ UNCHANGED <<main, conns, user, timedOut, faults>>

(* ShouldBindJSON reads the body: 400, or on to bcrypt.  There is no       *)
(* ReadTimeout: the client may take as long as it likes.                   *)
ReadBody(r) ==
  /\ pc[r] = "body"
  /\ \/ Goto(r, "hash") /\ UNCHANGED answer
     \/ Answer(r, "400")
  /\ UNCHANGED <<limitVars, main, conns, user, timedOut, faults>>

PoolOpen == main \in {"serving", "draining"}

(* Wrong variant: the handler takes a second connection besides its first. *)
TwoFree == Cardinality(conns) + 2 <= PoolSize

(* The pool has a connection to give.                                      *)
OneFree == Cardinality(conns) + 1 <= PoolSize

(* QueryRow takes a connection, waiting for a free one; a closed pool      *)
(* gives none, and the answer is 500.                                      *)
Acquire(r) ==
  /\ pc[r] = "hash"
  /\ \/ /\ PoolOpen /\ OneFree
        /\ conns' = conns \cup {r}
        /\ Goto(r, "insert")
        /\ UNCHANGED answer
     \/ /\ ~PoolOpen
        /\ Answer(r, "500")
        /\ UNCHANGED conns
  /\ UNCHANGED <<limitVars, main, user, timedOut, faults>>

(* Wrong variant: an INSERT that did nothing keeps its connection.         *)
ReleaseOwn(r) == IF user = Nobody THEN conns \ {r} ELSE conns

(* Scan closes the rows, whatever they hold.                               *)
Released(r) == conns \ {r}

(* Wrong variant: ON CONFLICT DO UPDATE.                                   *)
Upserted(r) == r

(* UNIQUE (email): the first INSERT wins.                                  *)
Inserted(r) == IF user = Nobody THEN r ELSE user

(* INSERT INTO users; a unique violation is ErrConflict.                   *)
Insert(r) ==
  /\ pc[r] = "insert"
  /\ user' = Inserted(r)
  /\ conns' = Released(r)
  /\ Goto(r, IF user' = r THEN "created" ELSE "conflict")
  /\ UNCHANGED <<limitVars, main, answer, timedOut, faults>>

(* The statement fails, perhaps after it was executed: 500.                *)
InsertFails(r) ==
  /\ pc[r] = "insert" /\ Disturb
  /\ user' \in {user, Inserted(r)}
  /\ conns' = conns \ {r}
  /\ Answer(r, "500")
  /\ UNCHANGED <<limitVars, main, timedOut>>

(* The handler returns and the response is sent.                           *)
Reply(r) ==
  /\ pc[r] \in {"created", "conflict"}
  /\ Answer(r, IF pc[r] = "created" THEN "201" ELSE "409")
  /\ UNCHANGED <<limitVars, main, conns, user, timedOut, faults>>

-----------------------------------------------------------------------------
(* main.                                                                   *)

(* SIGTERM, or ListenAndServe fails and calls stop().                      *)
Stop ==
  /\ main = "serving"
  /\ main' = "draining"
  /\ UNCHANGED <<limitVars, pc, answer, conns, user, timedOut, faults>>

(* Wrong variants: Shutdown is not waited for, or waits without a timeout. *)
AtOnce == TRUE
Never == FALSE

(* srv.Shutdown returns when no connection is active,                      *)
Drained == InFlight = {}

(* or when shutdownCtx's ten seconds are over.                             *)
TimesOut == InFlight # {}

(* srv.Shutdown returns; the deferred calls close the pool.                *)
ShutdownReturns ==
  /\ main = "draining"
  /\ main' = "closing"
  /\ \/ Drained /\ UNCHANGED timedOut
     \/ TimesOut /\ timedOut' = TRUE
  /\ UNCHANGED <<limitVars, pc, answer, conns, user, faults>>

(* The end of the process for the requests in flight.                      *)
CutOff ==
  /\ main' = "down"
  /\ conns' = {}
  /\ pc' = [r \in Requests |-> IF r \in InFlight THEN "done" ELSE pc[r]]
  /\ answer' = [r \in Requests |-> IF r \in InFlight THEN "cut" ELSE answer[r]]

(* pool.Close has its connections back, and main returns.                  *)
Exit ==
  /\ main = "closing" /\ conns = {}
  /\ CutOff
  /\ UNCHANGED <<limitVars, user, timedOut, faults>>

(* The process dies; Postgres may have executed an INSERT under way.       *)
Crash ==
  /\ main # "down" /\ Disturb
  /\ CutOff
  /\ user' \in {user} \cup {Inserted(r) : r \in conns}
  /\ UNCHANGED <<limitVars, timedOut>>

Restart ==
  /\ main = "down"
  /\ main' = "serving"
  /\ timedOut' = FALSE
  /\ UNCHANGED <<limitVars, pc, answer, conns, user, faults>>

-----------------------------------------------------------------------------
(* What a handler does by itself once it has the body.                     *)
Handle(r) == Acquire(r) \/ Insert(r) \/ Reply(r)

Next == \/ \E r \in Requests : \/ Arrive(r) \/ ReadBody(r) \/ Handle(r)
                               \/ InsertFails(r)
        \/ Stop \/ ShutdownReturns \/ Exit \/ Crash \/ Restart
        \/ (Tick \/ Flush) /\ UNCHANGED serverVars

Spec == Init /\ [][Next]_vars

(* Handlers and main get on; clients, signals and restarts need not.       *)
LiveSpec == /\ Spec
            /\ \A r \in Requests : WF_vars(Handle(r))
            /\ WF_vars(ShutdownReturns) /\ WF_vars(Exit)

-----------------------------------------------------------------------------
(* Properties.                                                             *)

(* Connections belong to requests that are using them, the pool gives no   *)
(* more than it has, and a process that has ended holds nothing.           *)
TypeOK ==
  /\ LimitTypeOK
  /\ main \in {"serving", "draining", "closing", "down"}
  /\ pc \in [Requests -> {"new", "body", "hash", "insert", "created", "conflict",
                          "done"}]
  /\ answer \in [Requests -> {"none", "201", "400", "409", "429", "500", "cut"}]
  /\ conns = {r \in Requests : pc[r] = "insert"}
  /\ Cardinality(conns) <= PoolSize
  /\ main = "down" => InFlight = {}
  /\ user \in Requests \cup {Nobody}
  /\ timedOut \in BOOLEAN /\ faults \in 0..MaxFaults

(* The account belongs to whoever was told 201, and stays theirs whatever  *)
(* races, crashes or is retried; a 409 means that somebody has it.         *)
AccountIsTheirs ==
  \A r \in Requests : /\ answer[r] = "201" => user = r
                      /\ answer[r] = "409" => user \notin {Nobody, r}

(* A graceful stop cuts nobody off: a request loses its answer only when   *)
(* this process crashes, or is stopped and had its shutdown time out.      *)
GracefulStop ==
  [][\A r \in Requests :
       answer[r] # "cut" /\ answer'[r] = "cut" => timedOut \/ Crash]_vars

(* The process always comes to its end after SIGTERM, whatever clients do  *)
(* with their connections.                                                 *)
StopsEventually == main = "draining" ~> main = "down"

(* A request whose body has arrived is answered, or ends with the process, *)
(* however many wait for the pool.                                         *)
EveryoneServed == \A r \in Requests : pc[r] = "hash" ~> pc[r] = "done"
=============================================================================
