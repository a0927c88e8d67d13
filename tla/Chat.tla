-------------------------------- MODULE Chat --------------------------------
(***************************************************************************)
(* The conversations about one listing (internal/chat): concurrent sends   *)
(* by its owner and by buyers, a user paging through the history, and the  *)
(* deletion of the listing, which cascades to its messages.                *)
(*                                                                         *)
(* The three statements of Send are not one transaction: what one has      *)
(* read may have changed when the next runs.  An INSERT draws its id and   *)
(* NOW() before it is visible, so rows become visible in another order     *)
(* than that of the pages; its foreign key holds the listing FOR KEY SHARE *)
(* until it commits, and DELETE waits for that.                            *)
(***************************************************************************)
EXTENDS Integers, FiniteSets

CONSTANTS Owner,        \* the owner of the listing
          Buyers,       \* the other users
          Nobody,       \* no user; the receiver_id of a request without one
          Requests,     \* POST /messages requests in flight
          PageSize,     \* limit of GET /listings/:id/messages
          MaxMessages,  \* bound on the ids drawn
          MaxTime,      \* bound on the clock
          MaxFaults     \* bound on failed statements

Users == Buyers \cup {Owner}

ASSUME UsersAssumption == Owner \notin Buyers /\ Nobody \notin Users
ASSUME ChatBoundsAssumption ==
  PageSize \in Nat \ {0} /\ MaxMessages \in Nat /\ MaxTime \in Nat /\ MaxFaults \in Nat

VARIABLES
  now,       \* the clock
  exists,    \* the listing is in the table
  messages,  \* committed rows: [id, at (created_at), from, to]
  nextId,    \* the sequence behind messages.id
  pc,        \* where each request stands
  draft,     \* the row it is about to insert or has inserted
  reader,    \* the user who pages through the history, Nobody before that
  offset,    \* the offset of the next page
  atEnd,     \* the last page was not full
  had,       \* history: ids visible to the reader when the paging began
  seen,      \* history: ids on the pages so far
  faults     \* failed statements so far

tables == <<exists, messages, nextId>>
requestVars == <<pc, draft>>
readerVars == <<reader, offset, atEnd, had, seen>>
vars == <<now, tables, requestVars, readerVars, faults>>

NoDraft == [id |-> 0, at |-> 0, from |-> Nobody, to |-> Nobody]

Init ==
  /\ now = 0
  /\ exists = TRUE /\ messages = {} /\ nextId = 1
  /\ pc = [r \in Requests |-> "idle"]
  /\ draft = [r \in Requests |-> NoDraft]
  /\ reader = Nobody /\ offset = 0 /\ atEnd = FALSE
  /\ had = {} /\ seen = {}
  /\ faults = 0

Goto(r, label) == pc' = [pc EXCEPT ![r] = label]

(* The handler answers; what it refused has left nothing.                  *)
Answer(r) == /\ Goto(r, "idle")
             /\ draft' = [draft EXCEPT ![r] = NoDraft]

-----------------------------------------------------------------------------
(* POST /messages.                                                         *)
Arrive(r) ==
  /\ pc[r] = "idle"
  /\ \E sender \in Users, receiver \in Users \cup {Nobody} :
       draft' = [draft EXCEPT ![r].from = sender, ![r].to = receiver]
  /\ Goto(r, "owner")
  /\ UNCHANGED <<now, tables, readerVars, faults>>

(* Wrong variant: the buyer's own receiver_id counts.                      *)
ReceiverAsAsked(m) == IF m.to = Nobody THEN Owner ELSE m.to

(* A buyer's message goes to the owner, whatever receiver_id says.         *)
ReceiverOf(m) == IF m.from = Owner THEN m.to ELSE Owner

(* ListingOwner, then the choice of the receiver: 404 for a listing that   *)
(* is gone, 400 for an owner who names nobody or himself.                  *)
ListingOwner(r) ==
  /\ pc[r] = "owner"
  /\ LET m == draft[r]
     IN  \/ /\ ~exists \/ (m.from = Owner /\ m.to \in {Nobody, Owner})
            /\ Answer(r)
         \/ /\ exists /\ ReceiverOf(m) \in Users /\ ReceiverOf(m) # m.from
            /\ draft' = [draft EXCEPT ![r].to = ReceiverOf(m)]
            /\ Goto(r, IF m.from = Owner THEN "check" ELSE "insert")
  /\ UNCHANGED <<now, tables, readerVars, faults>>

(* Wrong variant: anybody's message to the owner will do.                  *)
HasAnyMessage(u) == \E m \in messages : m.to = Owner

(* EXISTS (... sender_id = u AND receiver_id = owner).                     *)
HasMessageFrom(u) == \E m \in messages : m.from = u /\ m.to = Owner

(* The owner answers only those who have written: 403 otherwise.           *)
CheckConversation(r) ==
  /\ pc[r] = "check"
  /\ IF HasMessageFrom(draft[r].to)
       THEN Goto(r, "insert") /\ UNCHANGED draft
       ELSE Answer(r)
  /\ UNCHANGED <<now, tables, readerVars, faults>>

(* INSERT INTO messages: a foreign key violation, an internal error, when  *)
(* the listing has gone since ListingOwner; the id is spent all the same.  *)
Insert(r) ==
  /\ pc[r] = "insert" /\ nextId <= MaxMessages
  /\ nextId' = nextId + 1
  /\ IF exists
       THEN /\ draft' = [draft EXCEPT ![r].id = nextId, ![r].at = now]
            /\ Goto(r, "commit")
       ELSE Answer(r)
  /\ UNCHANGED <<now, exists, messages, readerVars, faults>>

(* The statement commits, and the client gets 201.                         *)
Commit(r) ==
  /\ pc[r] = "commit"
  /\ messages' = messages \cup {draft[r]}
  /\ Answer(r)
  /\ UNCHANGED <<now, exists, nextId, readerVars, faults>>

(* A statement fails or the client goes; an INSERT may have committed.     *)
Fail(r) ==
  /\ pc[r] # "idle"
  /\ faults < MaxFaults /\ faults' = faults + 1
  /\ messages' \in {messages} \cup
       (IF pc[r] = "commit" THEN {messages \cup {draft[r]}} ELSE {})
  /\ Answer(r)
  /\ UNCHANGED <<now, exists, nextId, readerVars>>

-----------------------------------------------------------------------------
(* Wrong variant: no foreign key lock to wait for.                         *)
AnyTime == TRUE

(* What DELETE waits for.                                                  *)
MayDelete == \A r \in Requests : pc[r] # "commit"

(* listing.repo.Delete; ON DELETE CASCADE takes the messages.              *)
DeleteListing ==
  /\ exists /\ MayDelete
  /\ exists' = FALSE /\ messages' = {}
  /\ UNCHANGED <<now, nextId, requestVars, readerVars, faults>>

Tick == /\ now < MaxTime
        /\ now' = now + 1
        /\ UNCHANGED <<tables, requestVars, readerVars, faults>>

-----------------------------------------------------------------------------
(* GET /listings/:id/messages, page after page.                            *)

(* Wrong variant: ORDER BY created_at alone.                               *)
BeforeByTime(m, n) == m.at < n.at

(* ORDER BY created_at, id.                                                *)
Before(m, n) == m.at < n.at \/ (m.at = n.at /\ m.id < n.id)

(* WHERE sender_id = u OR receiver_id = u.                                 *)
VisibleTo(u) == {m \in messages : u \in {m.from, m.to}}

(* The first k of S; more than one answer where the order has ties.        *)
Leading(k, S) ==
  {F \in SUBSET S : /\ Cardinality(F) = k \/ (Cardinality(S) <= k /\ F = S)
                    /\ \A m \in F, n \in S \ F : ~Before(n, m)}

(* LIMIT PageSize OFFSET offset.                                           *)
Pages(S) ==
  {P \in SUBSET S :
     \E F \in Leading(offset, S) :
       F \cap P = {} /\ F \cup P \in Leading(offset + PageSize, S)}

Ids(S) == {m.id : m \in S}

(* A user opens the conversation.                                          *)
Open(u) ==
  /\ reader = Nobody
  /\ reader' = u
  /\ had' = Ids(VisibleTo(u))
  /\ UNCHANGED <<now, tables, requestVars, offset, atEnd, seen, faults>>

(* GetForUser; the client asks for the next page until one is not full.    *)
GetForUser ==
  /\ reader # Nobody /\ ~atEnd
  /\ \E page \in Pages(VisibleTo(reader)) :
       /\ seen' = seen \cup Ids(page)
       /\ atEnd' = (Cardinality(page) < PageSize)
  /\ offset' = offset + PageSize
  /\ UNCHANGED <<now, tables, requestVars, reader, had, faults>>

-----------------------------------------------------------------------------
Send(r) == \/ Arrive(r) \/ ListingOwner(r) \/ CheckConversation(r)
           \/ Insert(r) \/ Commit(r) \/ Fail(r)

Next == \/ \E r \in Requests : Send(r)
        \/ \E u \in Users : Open(u)
        \/ GetForUser \/ DeleteListing \/ Tick

Spec == Init /\ [][Next]_vars

-----------------------------------------------------------------------------
(* Properties.                                                             *)

(* A message has the owner on exactly one side, whatever receiver_id the   *)
(* client sent: buyers never reach each other, nobody reaches himself.     *)
Message == [id : 1..MaxMessages, at : 0..MaxTime, from : Users, to : Users]
Draft == [id : 0..MaxMessages, at : 0..MaxTime,
          from : Users \cup {Nobody}, to : Users \cup {Nobody}]
BetweenOwnerAndBuyer(m) == m.from # m.to /\ Owner \in {m.from, m.to}

TypeOK ==
  /\ now \in 0..MaxTime /\ exists \in BOOLEAN
  /\ messages \subseteq {m \in Message : BetweenOwnerAndBuyer(m) /\ m.id < nextId}
  /\ nextId \in 1..(MaxMessages + 1)
  /\ pc \in [Requests -> {"idle", "owner", "check", "insert", "commit"}]
  /\ draft \in [Requests -> Draft]
  /\ \A r \in Requests :
       /\ pc[r] # "idle" => draft[r].from \in Users
       /\ pc[r] \in {"check", "insert", "commit"} =>
            draft[r].to \in Users /\ BetweenOwnerAndBuyer(draft[r])
       /\ pc[r] = "commit" => draft[r].id \in 1..(nextId - 1)
  /\ reader \in Users \cup {Nobody} /\ offset \in Nat /\ atEnd \in BOOLEAN
  /\ had \subseteq 1..MaxMessages /\ seen \subseteq 1..MaxMessages
  /\ faults \in 0..MaxFaults

(* "The owner may answer only those who have already written to him about  *)
(* this listing" (service.go), with the check and the INSERT apart.        *)
ReplyOnlyToWriters ==
  \A m \in messages :
    m.from = Owner =>
      \E n \in messages : n.from = m.to /\ n.to = Owner /\ n.id < m.id

(* Paging by OFFSET while messages keep arriving, and while rows with an   *)
(* earlier created_at become visible late: a reader who has come to the    *)
(* last page has seen every message that was there at the start.  (Rows    *)
(* that slip in before the offset only make a page repeat some.)           *)
OldMessagesSeen == atEnd /\ exists => had \subseteq seen

(* Send reads the owner, checks and inserts in three statements, and yet   *)
(* each message appears as if all that were one step: checked against the  *)
(* conversation it joins, under an id of its own, never into a listing     *)
(* that is gone, none of whose messages stays.                             *)
Posted == INSTANCE Conversation WITH open <- exists
RefinesConversation == Posted!Spec
=============================================================================
