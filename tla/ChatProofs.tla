----------------------------- MODULE ChatProofs -----------------------------
(***************************************************************************)
(* What holds of Chat for every set of buyers and requests, every page     *)
(* size and any number of messages, failures and ticks.                    *)
(***************************************************************************)
EXTENDS Chat, FiniteSetTheorems, TLAPS

Inserted == {r \in Requests : pc[r] = "commit"}

(* Messages go with the listing.                                           *)
NoOrphans == ~exists => messages = {}

(* Ids are drawn once, for rows that are visible and rows that are not.    *)
IdsDiffer ==
  /\ IsFiniteSet(messages)
  /\ \A m, n \in messages : m.id = n.id => m = n
  /\ \A r \in Inserted : \A m \in messages : m.id # draft[r].id
  /\ \A r, q \in Inserted : draft[r].id = draft[q].id => r = q

(* A row under way holds the listing.                                      *)
ListingHeld == Inserted # {} => exists

Written(u, k) == \E n \in messages : n.from = u /\ n.to = Owner /\ n.id < k

(* The check's answer stays right: rows go only with the listing.          *)
RepliesFounded ==
  \A r \in Requests : draft[r].from = Owner /\ exists =>
    /\ pc[r] = "insert" => Written(draft[r].to, nextId)
    /\ pc[r] = "commit" => Written(draft[r].to, draft[r].id)

Earlier(m) == {n \in VisibleTo(reader) : Before(n, m)}

(* What the reader has still to see lies behind the offset.                *)
UnseenAhead ==
  /\ reader = Nobody => offset = 0 /\ ~atEnd
  /\ exists /\ reader # Nobody =>
       \A i \in had \ seen :
         /\ ~atEnd
         /\ \E m \in VisibleTo(reader) : m.id = i /\ Cardinality(Earlier(m)) >= offset

IInv == /\ TypeOK /\ NoOrphans /\ ReplyOnlyToWriters
        /\ IdsDiffer /\ ListingHeld /\ RepliesFounded /\ UnseenAhead

LEMMA InitIInv == Init => IInv
<1> SUFFICES ASSUME Init PROVE IInv
  OBVIOUS
<1>1. TypeOK
  <2>1. NoDraft \in Draft
    BY ChatBoundsAssumption DEF NoDraft, Draft
  <2>2. draft \in [Requests -> Draft]
    BY <2>1 DEF Init
  <2>3. /\ now \in 0..MaxTime /\ nextId \in 1..(MaxMessages + 1)
        /\ faults \in 0..MaxFaults /\ offset \in Nat
    BY ChatBoundsAssumption DEF Init
  <2> QED
    BY <2>2, <2>3 DEF Init, TypeOK
<1>2. IdsDiffer
  BY FS_EmptySet DEF Init, IdsDiffer, Inserted
<1> QED
  BY <1>1, <1>2 DEF Init, IInv, NoOrphans, ReplyOnlyToWriters, ListingHeld, Inserted,
     RepliesFounded, UnseenAhead

-----------------------------------------------------------------------------
(* The type invariant.                                                     *)

Labels == {"idle", "owner", "check", "insert", "commit"}

(* A request moves on with its row; the others stay.                       *)
Moves(r, label, row) == /\ pc' = [pc EXCEPT ![r] = label]
                        /\ draft' = [draft EXCEPT ![r] = row]

LEMMA MovesKeep ==
  ASSUME TypeOK, NEW r \in Requests, NEW label \in Labels, NEW row \in Draft,
         Moves(r, label, row)
  PROVE  /\ pc' \in [Requests -> Labels] /\ draft' \in [Requests -> Draft]
         /\ pc'[r] = label /\ draft'[r] = row
         /\ \A q \in Requests : q # r => pc'[q] = pc[q] /\ draft'[q] = draft[q]
BY DEF TypeOK, Moves, Labels

(* How each step of a request moves it on.                                 *)
LEMMA SendMoves ==
  ASSUME TypeOK, NEW r \in Requests, Send(r)
  PROVE  \E label \in Labels, row \in Draft :
           /\ Moves(r, label, row)
           /\ label # "idle" => row.from \in Users
           /\ label \in {"check", "insert", "commit"} =>
                row.to \in Users /\ BetweenOwnerAndBuyer(row)
           /\ label = "insert" /\ row.from = Owner =>
                 HasMessageFrom(row.to) /\ UNCHANGED tables
           /\ label = "commit" =>
                 /\ pc[r] = "insert" /\ exists /\ row.id = nextId
                 /\ row.from = draft[r].from /\ row.to = draft[r].to
                 /\ nextId' = nextId + 1 /\ nextId <= MaxMessages
<1> USE UsersAssumption, ChatBoundsAssumption
<1>1. NoDraft \in Draft
  BY DEF NoDraft, Draft
<1>2. draft[r] \in Draft
  BY DEF TypeOK
<1>3. CASE Answer(r)
  <2>1. Moves(r, "idle", NoDraft) /\ "idle" \in Labels
    BY <1>3 DEF Moves, Answer, Goto, Labels
  <2> QED
    BY <1>1, <2>1
<1>4. CASE Arrive(r)
  <2>1. PICK u \in Users, v \in Users \cup {Nobody} :
          draft' = [draft EXCEPT ![r].from = u, ![r].to = v]
    BY <1>4 DEF Arrive
  <2> DEFINE row == [draft[r] EXCEPT !.from = u, !.to = v]
  <2>2. row \in Draft /\ row.from \in Users
    BY <1>2 DEF Draft
  <2>3. draft' = [draft EXCEPT ![r] = row]
    BY <1>2, <2>1 DEF Draft
  <2> HIDE DEF row
  <2>4. Moves(r, "owner", row) /\ "owner" \in Labels
    BY <1>4, <2>3 DEF Arrive, Goto, Moves, Labels
  <2> QED
    BY <2>2, <2>4
<1>5. CASE ListingOwner(r) /\ ~Answer(r)
  <2> DEFINE v == ReceiverOf(draft[r])
             row == [draft[r] EXCEPT !.to = v]
             label == IF draft[r].from = Owner THEN "check" ELSE "insert"
  <2>1. /\ v \in Users /\ v # draft[r].from
        /\ draft' = [draft EXCEPT ![r].to = v]
        /\ Goto(r, label)
    BY <1>5 DEF ListingOwner
  <2>2. Owner \in {draft[r].from, v} /\ draft[r].from \in Users
    BY <1>5 DEF ReceiverOf, ListingOwner, TypeOK
  <2>3. row \in Draft /\ row.from = draft[r].from /\ row.to = v
    BY <1>2, <2>1 DEF Draft
  <2>4. draft' = [draft EXCEPT ![r] = row]
    BY <1>2, <2>1 DEF Draft
  <2>5. label \in Labels /\ label # "commit"
        /\ (label = "insert" => draft[r].from # Owner)
    BY DEF Labels
  <2> HIDE DEF row, label, v
  <2>6. Moves(r, label, row)
    BY <2>1, <2>4 DEF Goto, Moves
  <2> QED
    BY <2>1, <2>2, <2>3, <2>5, <2>6 DEF BetweenOwnerAndBuyer
<1>6. CASE CheckConversation(r) /\ ~Answer(r)
  <2>1. /\ pc[r] = "check" /\ HasMessageFrom(draft[r].to)
        /\ Goto(r, "insert") /\ UNCHANGED <<draft, tables>>
    BY <1>6 DEF CheckConversation
  <2>2. Moves(r, "insert", draft[r]) /\ "insert" \in Labels
    BY <2>1 DEF Goto, Moves, Labels, TypeOK
  <2>3. draft[r].from \in Users /\ draft[r].to \in Users /\ BetweenOwnerAndBuyer(draft[r])
    BY <2>1 DEF TypeOK
  <2> QED
    BY <1>2, <2>1, <2>2, <2>3
<1>7. CASE Insert(r) /\ ~Answer(r)
  <2> DEFINE row == [draft[r] EXCEPT !.id = nextId, !.at = now]
  <2>1. /\ pc[r] = "insert" /\ nextId <= MaxMessages /\ nextId' = nextId + 1
        /\ exists
        /\ draft' = [draft EXCEPT ![r].id = nextId, ![r].at = now]
        /\ Goto(r, "commit")
    BY <1>7 DEF Insert
  <2>2. draft[r].from \in Users /\ draft[r].to \in Users /\ BetweenOwnerAndBuyer(draft[r])
    BY <2>1 DEF TypeOK
  <2>3. nextId \in 0..MaxMessages /\ now \in 0..MaxTime
    BY <2>1 DEF TypeOK
  <2>4. /\ row \in Draft /\ row.id = nextId
        /\ row.from = draft[r].from /\ row.to = draft[r].to
    BY <1>2, <2>3 DEF Draft
  <2>5. draft' = [draft EXCEPT ![r] = row]
    BY <1>2, <2>1 DEF Draft
  <2> HIDE DEF row
  <2>6. Moves(r, "commit", row) /\ "commit" \in Labels
    BY <2>1, <2>5 DEF Goto, Moves, Labels
  <2> QED
    BY <2>1, <2>2, <2>4, <2>6 DEF BetweenOwnerAndBuyer
<1> QED
  BY <1>3, <1>4, <1>5, <1>6, <1>7 DEF Send, Commit, Fail

LEMMA SendTypeOK ==
  ASSUME TypeOK, NEW r \in Requests, Send(r)
  PROVE  TypeOK'
<1> USE UsersAssumption, ChatBoundsAssumption
<1> DEFINE Row(q) == /\ pc'[q] # "idle" => draft'[q].from \in Users
                     /\ pc'[q] \in {"check", "insert", "commit"} =>
                          draft'[q].to \in Users /\ BetweenOwnerAndBuyer(draft'[q])
                     /\ pc'[q] = "commit" => draft'[q].id \in 1..(nextId' - 1)
<1>1. PICK label \in Labels, row \in Draft :
        /\ Moves(r, label, row)
        /\ label # "idle" => row.from \in Users
        /\ label \in {"check", "insert", "commit"} =>
             row.to \in Users /\ BetweenOwnerAndBuyer(row)
        /\ label = "commit" => row.id = nextId /\ nextId' = nextId + 1
  BY SendMoves
<1>2. /\ pc' \in [Requests -> Labels] /\ draft' \in [Requests -> Draft]
      /\ pc'[r] = label /\ draft'[r] = row
      /\ \A q \in Requests : q # r => pc'[q] = pc[q] /\ draft'[q] = draft[q]
  BY <1>1, MovesKeep
<1>3. /\ nextId' \in 1..(MaxMessages + 1) /\ nextId \in 1..(MaxMessages + 1)
      /\ nextId <= nextId'
  BY DEF TypeOK, Send, Arrive, ListingOwner, CheckConversation, Insert, Commit, Fail,
         tables
<1>4. \A q \in Requests : Row(q)
  <2>1. Row(r)
    BY <1>1, <1>2, <1>3
  <2>2. ASSUME NEW q \in Requests, q # r PROVE Row(q)
    BY <1>2, <1>3, <2>2 DEF TypeOK
  <2> QED
    BY <2>1, <2>2
<1>5. /\ now' \in 0..MaxTime /\ exists' \in BOOLEAN
      /\ UNCHANGED readerVars /\ faults' \in 0..MaxFaults
  BY DEF TypeOK, Send, Arrive, ListingOwner, CheckConversation, Insert, Commit, Fail,
         tables, requestVars
<1>6. messages' \subseteq {m \in Message : BetweenOwnerAndBuyer(m) /\ m.id < nextId'}
  <2>1. messages' \in {messages, messages \cup {draft[r]}}
        /\ (messages' # messages => pc[r] = "commit")
    BY DEF Send, Arrive, ListingOwner, CheckConversation, Insert, Commit, Fail, tables
  <2>2. pc[r] = "commit" =>
          draft[r] \in Message /\ BetweenOwnerAndBuyer(draft[r]) /\ draft[r].id < nextId
    BY <1>3 DEF TypeOK, Draft, Message
  <2>3. \A m \in messages : m \in Message /\ BetweenOwnerAndBuyer(m) /\ m.id < nextId
    BY DEF TypeOK
  <2>4. \A m \in Message : m.id < nextId => m.id < nextId'
    BY <1>3 DEF Message
  <2> QED
    BY <2>1, <2>2, <2>3, <2>4
<1> QED
  BY <1>2, <1>3, <1>4, <1>5, <1>6 DEF TypeOK, readerVars, Labels

LEMMA NextTypeOK ==
  ASSUME TypeOK, [Next]_vars
  PROVE  TypeOK'
<1> USE UsersAssumption, ChatBoundsAssumption
<1>1. CASE \E r \in Requests : Send(r)
  BY <1>1, SendTypeOK
<1>2. CASE \E u \in Users : Open(u)
  <2>1. had' \subseteq 1..MaxMessages
    <3>1. \A m \in messages : m.id \in 1..MaxMessages
      BY DEF TypeOK, Message
    <3> QED
      BY <1>2, <3>1 DEF Open, Ids, VisibleTo
  <2> QED
    BY <1>2, <2>1 DEF TypeOK, Open, tables, requestVars, Labels
<1>3. CASE GetForUser
  <2>1. PICK page \in Pages(VisibleTo(reader)) :
          /\ seen' = seen \cup Ids(page)
          /\ atEnd' = (Cardinality(page) < PageSize)
    BY <1>3 DEF GetForUser
  <2>2. page \subseteq messages
    BY DEF Pages, VisibleTo
  <2>3. \A m \in messages : m.id \in 1..MaxMessages
    BY DEF TypeOK, Message
  <2>4. seen' \subseteq 1..MaxMessages
    BY <2>1, <2>2, <2>3 DEF Ids, TypeOK
  <2>5. offset' \in Nat /\ atEnd' \in BOOLEAN
    BY <1>3, <2>1 DEF GetForUser, TypeOK
  <2> QED
    BY <1>3, <2>4, <2>5 DEF TypeOK, GetForUser, tables, requestVars
<1>4. CASE DeleteListing
  BY <1>4 DEF TypeOK, DeleteListing, requestVars, readerVars
<1>5. CASE Tick
  BY <1>5 DEF TypeOK, Tick, tables, requestVars, readerVars
<1>6. CASE UNCHANGED vars
  BY <1>6 DEF TypeOK, vars, tables, requestVars, readerVars
<1> QED
  BY <1>1, <1>2, <1>3, <1>4, <1>5, <1>6 DEF Next

-----------------------------------------------------------------------------
(* POST /messages.                                                         *)

LEMMA SendRows ==
  ASSUME TypeOK, NEW r \in Requests, Send(r)
  PROVE  /\ UNCHANGED <<exists, readerVars>>
         /\ nextId' \in Int /\ nextId \in Int /\ nextId <= nextId'
         /\ \/ messages' = messages
            \/ /\ pc[r] = "commit" /\ pc'[r] = "idle"
               /\ messages' = messages \cup {draft[r]}
         /\ pc'[r] = "commit" => messages' = messages
<1>1. /\ UNCHANGED <<exists, readerVars>>
      /\ nextId' \in Int /\ nextId \in Int /\ nextId <= nextId'
  BY DEF Send, Arrive, ListingOwner, CheckConversation, Insert, Commit, Fail, tables,
         TypeOK
<1>2. \/ messages' = messages
      \/ /\ pc[r] = "commit" /\ pc'[r] = "idle"
         /\ messages' = messages \cup {draft[r]}
  BY DEF Send, Arrive, ListingOwner, CheckConversation, Insert, Commit, Fail, tables,
         TypeOK, Answer, Goto
<1> QED
  BY <1>1, <1>2

LEMMA Typed ==
  ASSUME TypeOK
  PROVE  /\ \A m \in messages : m.id \in Int /\ m.id < nextId
         /\ \A r \in Inserted : draft[r].id \in Int /\ draft[r].id < nextId
         /\ nextId \in Int
BY DEF TypeOK, Message, Inserted

LEMMA SendIdsDiffer ==
  ASSUME TypeOK, IdsDiffer, NEW r \in Requests, Send(r)
  PROVE  IdsDiffer'
<1>1. PICK label \in Labels, row \in Draft :
        /\ Moves(r, label, row)
        /\ label = "commit" => row.id = nextId
  BY SendMoves
<1>2. /\ pc'[r] = label /\ draft'[r] = row
      /\ \A q \in Requests : q # r => pc'[q] = pc[q] /\ draft'[q] = draft[q]
  BY <1>1, MovesKeep
<1>3. \A q \in Inserted' \ {r} : q \in Inserted /\ draft'[q] = draft[q]
  BY <1>2 DEF Inserted
<1>4. IsFiniteSet(messages')
  BY SendRows, FS_AddElement DEF IdsDiffer
<1>5. CASE pc'[r] = "commit"
  <2>1. messages' = messages /\ row.id = nextId
    BY <1>1, <1>2, <1>5, SendRows
  <2> QED
    BY <1>2, <1>3, <1>4, <2>1, Typed DEF IdsDiffer
<1>6. CASE pc'[r] # "commit" /\ messages' = messages
  BY <1>3, <1>4, <1>6 DEF IdsDiffer, Inserted
<1>7. CASE pc'[r] # "commit" /\ pc[r] = "commit" /\ messages' = messages \cup {draft[r]}
  <2>1. r \in Inserted /\ r \notin Inserted'
    BY <1>7 DEF Inserted
  <2> QED
    BY <1>3, <1>4, <1>7, <2>1 DEF IdsDiffer
<1> QED
  BY <1>5, <1>6, <1>7, SendRows

LEMMA SendReplies ==
  ASSUME IInv, NEW r \in Requests, Send(r)
  PROVE  /\ ListingHeld' /\ RepliesFounded'
         /\ NoOrphans' /\ ReplyOnlyToWriters'
<1>0. TypeOK
  BY DEF IInv
<1>1. PICK label \in Labels, row \in Draft :
        /\ Moves(r, label, row)
        /\ label = "insert" /\ row.from = Owner =>
             HasMessageFrom(row.to) /\ UNCHANGED tables
        /\ label = "commit" =>
             /\ pc[r] = "insert" /\ exists /\ row.id = nextId
             /\ row.from = draft[r].from /\ row.to = draft[r].to
  BY <1>0, SendMoves
<1>2. /\ pc'[r] = label /\ draft'[r] = row
      /\ \A q \in Requests : q # r => pc'[q] = pc[q] /\ draft'[q] = draft[q]
  BY <1>0, <1>1, MovesKeep
<1>3. /\ exists' = exists /\ messages \subseteq messages'
      /\ nextId' \in Int /\ nextId \in Int /\ nextId <= nextId'
  BY <1>0, SendRows
<1>4. ListingHeld'
  BY <1>1, <1>2, <1>3 DEF IInv, ListingHeld, Inserted
<1> DEFINE WrittenNow(u, k) == \E n \in messages' : n.from = u /\ n.to = Owner /\ n.id < k
<1>5. \A u, k : Written(u, k) => WrittenNow(u, k)
  BY <1>3 DEF Written
<1>6. \A u : Written(u, nextId) => WrittenNow(u, nextId')
  <2> SUFFICES ASSUME NEW u, NEW n \in messages, n.from = u, n.to = Owner
               PROVE  WrittenNow(u, nextId')
    BY DEF Written
  <2>1. n.id \in Int /\ n.id < nextId
    BY <1>0, Typed
  <2> QED
    BY <1>3, <2>1
<1>7. RepliesFounded'
  <2> SUFFICES ASSUME NEW q \in Requests, draft'[q].from = Owner, exists
               PROVE  /\ pc'[q] = "insert" => WrittenNow(draft'[q].to, nextId')
                      /\ pc'[q] = "commit" => WrittenNow(draft'[q].to, draft'[q].id)
    BY <1>3 DEF RepliesFounded, Written
  <2> HIDE DEF WrittenNow
  <2>1. CASE q # r
    BY <1>2, <1>5, <1>6, <2>1 DEF IInv, RepliesFounded
  <2>2. CASE q = r /\ label = "insert"
    <3>1. Written(row.to, nextId)
      BY <1>0, <1>1, <1>2, <2>2, Typed DEF HasMessageFrom, Written
    <3> QED
      BY <1>2, <1>6, <2>2, <3>1
  <2>3. CASE q = r /\ label = "commit"
    <3>1. Written(row.to, nextId)
      BY <1>1, <1>2, <2>3 DEF IInv, RepliesFounded
    <3> QED
      BY <1>1, <1>2, <1>5, <2>3, <3>1
  <2> QED
    BY <1>2, <2>1, <2>2, <2>3
<1>8. NoOrphans'
  BY <1>0, <1>3, SendRows DEF IInv, NoOrphans, ListingHeld, Inserted
<1>9. ReplyOnlyToWriters'
  <2> SUFFICES ASSUME NEW m \in messages', m.from = Owner
               PROVE  WrittenNow(m.to, m.id)
    BY DEF ReplyOnlyToWriters
  <2>1. CASE m \in messages
    BY <1>3, <2>1 DEF IInv, ReplyOnlyToWriters, Written
  <2>2. CASE m \notin messages
    <3>1. pc[r] = "commit" /\ m = draft[r]
      BY <1>0, <2>2, SendRows
    <3>2. exists /\ draft[r].id \in Int
      BY <1>0, <3>1 DEF IInv, ListingHeld, Inserted, TypeOK
    <3>3. Written(m.to, m.id)
      BY <3>1, <3>2 DEF IInv, RepliesFounded
    <3> QED
      BY <1>5, <3>1, <3>2, <3>3
  <2> QED
    BY <2>1, <2>2
<1> QED
  BY <1>4, <1>7, <1>8, <1>9

(* New rows only push what is unseen further back.                         *)
LEMMA SendUnseen ==
  ASSUME IInv, NEW r \in Requests, Send(r)
  PROVE  UnseenAhead'
<1>0. TypeOK /\ IsFiniteSet(messages) /\ offset \in Nat
  BY DEF IInv, IdsDiffer, TypeOK
<1>1. /\ exists' = exists /\ UNCHANGED readerVars /\ messages \subseteq messages'
      /\ IsFiniteSet(messages')
  BY <1>0, SendRows, FS_AddElement
<1> SUFFICES ASSUME exists, reader # Nobody, NEW i \in had \ seen
             PROVE  /\ ~atEnd
                    /\ \E m \in VisibleTo(reader)' :
                         m.id = i /\ Cardinality(Earlier(m)') >= offset
  BY <1>1 DEF UnseenAhead, IInv, readerVars, VisibleTo, Earlier
<1>2. PICK m \in VisibleTo(reader) : m.id = i /\ Cardinality(Earlier(m)) >= offset
  BY DEF IInv, UnseenAhead
<1>3. ~atEnd
  BY DEF IInv, UnseenAhead
<1>4. VisibleTo(reader) \subseteq VisibleTo(reader)' /\ Earlier(m) \subseteq Earlier(m)'
  BY <1>1 DEF VisibleTo, Earlier, readerVars
<1>5. Earlier(m) \subseteq messages /\ Earlier(m)' \subseteq messages'
  BY DEF Earlier, VisibleTo
<1>6. /\ Cardinality(Earlier(m)) \in Nat /\ Cardinality(Earlier(m)') \in Nat
      /\ Cardinality(Earlier(m)) <= Cardinality(Earlier(m)')
  BY <1>0, <1>1, <1>4, <1>5, FS_Subset, FS_CardinalityType
<1> QED
  BY <1>0, <1>2, <1>3, <1>4, <1>6

-----------------------------------------------------------------------------
(* GET /listings/:id/messages.                                             *)

LEMMA PageUnseen ==
  ASSUME IInv, GetForUser
  PROVE  UnseenAhead'
<1> DEFINE V == VisibleTo(reader)
<1>0. /\ TypeOK /\ IsFiniteSet(messages) /\ offset \in Nat /\ PageSize \in Nat
      /\ \A m \in messages : m.id \in Int /\ m.at \in Int
      /\ \A m, n \in messages : m.id = n.id => m = n
  BY ChatBoundsAssumption DEF IInv, IdsDiffer, TypeOK, Message
<1>1. PICK page \in Pages(V) :
        /\ seen' = seen \cup Ids(page)
        /\ atEnd' = (Cardinality(page) < PageSize)
  BY DEF GetForUser
<1>2. /\ UNCHANGED <<exists, messages, reader, had>> /\ reader # Nobody
      /\ offset' = offset + PageSize
  BY DEF GetForUser, tables
<1>3. PICK F \in Leading(offset, V) :
        F \cap page = {} /\ F \cup page \in Leading(offset + PageSize, V)
  BY DEF Pages
<1> DEFINE G == F \cup page
<1>4. /\ IsFiniteSet(V) /\ V \subseteq messages
      /\ F \subseteq V /\ page \subseteq V /\ G \subseteq V
  <2>1. V \subseteq messages /\ F \subseteq V /\ page \subseteq V
    BY DEF VisibleTo, Leading, Pages
  <2> QED
    BY <1>0, <2>1, FS_Subset
<1>5. /\ IsFiniteSet(F) /\ IsFiniteSet(page) /\ IsFiniteSet(G)
      /\ Cardinality(F) \in Nat /\ Cardinality(page) \in Nat /\ Cardinality(G) \in Nat
      /\ Cardinality(G) = Cardinality(F) + Cardinality(page)
  <2>1. IsFiniteSet(F) /\ IsFiniteSet(page) /\ IsFiniteSet(G)
    BY <1>4, FS_Subset
  <2>2. /\ Cardinality(G) = Cardinality(F) + Cardinality(page) - Cardinality(F \cap page)
        /\ Cardinality(F \cap page) = 0
    BY <1>3, <2>1, FS_Union, FS_EmptySet
  <2> QED
    BY <2>1, <2>2, FS_CardinalityType
<1>6. Cardinality(F) <= offset
  BY <1>0, <1>3, <1>4, FS_CardinalityType DEF Leading
<1> SUFFICES ASSUME exists, NEW i \in had \ seen'
             PROVE  /\ ~atEnd'
                    /\ \E m \in V : m.id = i /\ Cardinality(Earlier(m)) >= offset'
  BY <1>2 DEF UnseenAhead, VisibleTo, Earlier, Before
<1>7. PICK m \in V : m.id = i /\ Cardinality(Earlier(m)) >= offset
  BY <1>1, <1>2 DEF IInv, UnseenAhead
<1>8. /\ IsFiniteSet(Earlier(m)) /\ Cardinality(Earlier(m)) \in Nat
      /\ m \notin Earlier(m) /\ Earlier(m) \subseteq V
  <2>1. Earlier(m) \subseteq V /\ m \notin Earlier(m)
    BY <1>0, <1>4 DEF Earlier, Before
  <2> QED
    BY <1>4, <2>1, FS_Subset, FS_CardinalityType
<1>9. m \notin page
  BY <1>1, <1>7 DEF Ids
<1>10. m \notin F
  <2> SUFFICES ASSUME m \in F PROVE FALSE
    OBVIOUS
  <2>1. Earlier(m) \cup {m} \subseteq F
    BY <1>3 DEF Earlier, Leading
  <2>2. Cardinality(Earlier(m) \cup {m}) = Cardinality(Earlier(m)) + 1
    BY <1>8, FS_AddElement
  <2>3. Cardinality(Earlier(m) \cup {m}) <= Cardinality(F)
    BY <1>5, <2>1, FS_Subset
  <2> QED
    BY <1>0, <1>5, <1>6, <1>7, <1>8, <2>2, <2>3
<1>11. Cardinality(G) = offset + PageSize
  BY <1>3, <1>9, <1>10 DEF Leading
<1>12. G \subseteq Earlier(m)
  <2> SUFFICES ASSUME NEW n \in G PROVE Before(n, m)
    BY <1>4 DEF Earlier
  <2>1. ~Before(m, n)
    BY <1>3, <1>9, <1>10 DEF Leading
  <2>2. n.id # m.id /\ n \in messages /\ m \in messages
    BY <1>0, <1>4, <1>9, <1>10
  <2> QED
    BY <1>0, <2>1, <2>2 DEF Before
<1>13. Cardinality(Earlier(m)) >= offset'
  <2>1. Cardinality(G) <= Cardinality(Earlier(m))
    BY <1>8, <1>12, FS_Subset
  <2> QED
    BY <1>0, <1>2, <1>8, <1>11, <2>1
<1>14. ~atEnd'
  <2> HIDE DEF G
  <2>1. ~(Cardinality(page) < PageSize)
    BY <1>0, <1>5, <1>6, <1>11
  <2> QED
    BY <1>1, <2>1
<1> QED
  BY <1>7, <1>13, <1>14

LEMMA OpenUnseen ==
  ASSUME IInv, NEW u \in Users, Open(u)
  PROVE  UnseenAhead'
<1>1. /\ reader = Nobody /\ reader' = u /\ had' = Ids(VisibleTo(u))
      /\ UNCHANGED <<exists, messages, offset, atEnd, seen>>
  BY DEF Open, tables
<1>2. offset = 0 /\ ~atEnd /\ u # Nobody
  BY <1>1, UsersAssumption DEF IInv, UnseenAhead
<1>3. \A m : Cardinality(Earlier(m)') \in Nat
  <2> SUFFICES ASSUME NEW m PROVE Cardinality(Earlier(m)') \in Nat
    OBVIOUS
  <2>1. Earlier(m)' \subseteq messages /\ IsFiniteSet(messages)
    BY <1>1 DEF Earlier, VisibleTo, IInv, IdsDiffer
  <2> QED
    BY <2>1, FS_Subset, FS_CardinalityType
<1>4. VisibleTo(reader)' = VisibleTo(u)
  BY <1>1 DEF VisibleTo
<1> QED
  BY <1>1, <1>2, <1>3, <1>4 DEF UnseenAhead, Ids

-----------------------------------------------------------------------------
(* Every step.                                                             *)

LEMMA NextIInv ==
  ASSUME IInv, [Next]_vars
  PROVE  IInv'
<1>1. TypeOK'
  BY NextTypeOK DEF IInv
<1>2. CASE \E r \in Requests : Send(r)
  BY <1>1, <1>2, SendIdsDiffer, SendReplies, SendUnseen DEF IInv
<1> DEFINE Rows == /\ NoOrphans /\ ReplyOnlyToWriters /\ IdsDiffer
                   /\ ListingHeld /\ RepliesFounded
<1>3. ASSUME UNCHANGED <<tables, requestVars>> PROVE Rows'
  BY <1>3 DEF IInv, tables, requestVars, NoOrphans, ReplyOnlyToWriters, IdsDiffer,
     ListingHeld, RepliesFounded, Inserted, Written
<1>4. CASE \E u \in Users : Open(u)
  BY <1>1, <1>3, <1>4, OpenUnseen DEF Open, IInv
<1>5. CASE GetForUser
  BY <1>1, <1>3, <1>5, PageUnseen DEF GetForUser, IInv
<1>6. ASSUME UNCHANGED <<tables, readerVars>> PROVE UnseenAhead'
  BY <1>6 DEF IInv, tables, readerVars, UnseenAhead, VisibleTo, Earlier
<1>7. CASE DeleteListing
  <2>1. Inserted' = {}
    BY <1>7 DEF DeleteListing, MayDelete, Inserted, requestVars
  <2>2. Rows'
    BY <1>7, <2>1, FS_EmptySet DEF DeleteListing, NoOrphans, ReplyOnlyToWriters,
       IdsDiffer, ListingHeld, RepliesFounded
  <2>3. UnseenAhead'
    BY <1>7 DEF DeleteListing, readerVars, IInv, UnseenAhead
  <2> QED
    BY <1>1, <2>2, <2>3 DEF IInv
<1>8. CASE Tick \/ UNCHANGED vars
  BY <1>1, <1>3, <1>6, <1>8 DEF Tick, vars, IInv
<1> QED
  BY <1>2, <1>4, <1>5, <1>7, <1>8 DEF Next

LEMMA InvHolds == Spec => []IInv
BY InitIInv, NextIInv, PTL DEF Spec

(* Every committed message joins the owner and one buyer, for any number   *)
(* of requests (the receiver chosen by Send).                              *)
THEOREM TypeCorrect == Spec => []TypeOK
<1>1. IInv => TypeOK
  BY DEF IInv
<1> QED
  BY <1>1, InvHolds, PTL

(* An owner's message is always younger than one from its receiver, though *)
(* Send's check and its INSERT are separate statements.                    *)
THEOREM AnswersOnly == Spec => []ReplyOnlyToWriters
<1>1. IInv => ReplyOnlyToWriters
  BY DEF IInv
<1> QED
  BY <1>1, InvHolds, PTL

(* GetForUser's OFFSET paging reaches every message there was at the       *)
(* start, for every page size and whatever becomes visible meanwhile.      *)
THEOREM NothingSkipped == Spec => []OldMessagesSeen
<1>1. IInv => OldMessagesSeen
  BY DEF IInv, UnseenAhead, OldMessagesSeen
<1> QED
  BY <1>1, InvHolds, PTL

-----------------------------------------------------------------------------
(* The refinement.                                                         *)

LEMMA SendPosts ==
  ASSUME IInv, NEW r \in Requests, Send(r)
  PROVE  [Posted!Next]_(Posted!vars)
<1>0. TypeOK
  BY DEF IInv
<1>1. CASE messages' = messages
  BY <1>0, <1>1, SendRows DEF Posted!vars
<1>2. CASE pc[r] = "commit" /\ messages' = messages \cup {draft[r]}
  <2> DEFINE m == draft[r]
  <2>1. exists /\ UNCHANGED exists
    BY <1>0, <1>2, SendRows DEF IInv, ListingHeld, Inserted
  <2>2. m \in Message /\ BetweenOwnerAndBuyer(m)
    <3>1. /\ m.from \in Users /\ m.to \in Users /\ BetweenOwnerAndBuyer(m)
          /\ m.id \in 1..(nextId - 1) /\ nextId \in 1..(MaxMessages + 1)
      BY <1>0, <1>2, Zenon DEF TypeOK
    <3>2. m.id \in 1..MaxMessages
      BY <3>1, ChatBoundsAssumption
    <3>3. m \in Draft
      BY <1>0 DEF TypeOK
    <3> QED
      BY <3>1, <3>2, <3>3 DEF Message, Draft
  <2>3. \A n \in messages : n.id # m.id
    BY <1>2 DEF IInv, IdsDiffer, Inserted
  <2>4. Posted!MayPost(m)
    <3>1. \/ m.from \in Buyers /\ m.to = Owner
          \/ m.from = Owner /\ m.to \in Buyers
      BY <2>2 DEF Message, BetweenOwnerAndBuyer, Users
    <3>2. m.from = Owner => Posted!HasWritten(m.to, m.id)
      BY <1>2, <2>1 DEF IInv, RepliesFounded, Written, Posted!HasWritten
    <3> QED
      BY <3>1, <3>2 DEF Posted!MayPost
  <2>5. Posted!Post(m)
    BY <1>2, <2>1, <2>3, <2>4 DEF Posted!Post
  <2> QED
    BY <2>2, <2>5 DEF Posted!Next
<1> QED
  BY <1>0, <1>1, <1>2, SendRows

LEMMA NextPosts ==
  ASSUME IInv, [Next]_vars
  PROVE  [Posted!Next]_(Posted!vars)
<1>1. CASE \E r \in Requests : Send(r)
  BY <1>1, SendPosts
<1>2. CASE DeleteListing
  BY <1>2 DEF DeleteListing, Posted!Next, Posted!Close
<1>3. CASE GetForUser \/ Tick \/ UNCHANGED vars \/ \E u \in Users : Open(u)
  BY <1>3 DEF GetForUser, Tick, Open, vars, tables, Posted!vars
<1> QED
  BY <1>1, <1>2, <1>3 DEF Next

(* Service.Send with its three separate statements, among any number of    *)
(* others and with the listing deleted at any moment, does what a single   *)
(* guarded step would do; in particular no message is left behind.         *)
THEOREM Refinement == Spec => RefinesConversation
<1>1. Init => Posted!Init
  BY DEF Init, Posted!Init
<1>2. IInv /\ [Next]_vars => [Posted!Next]_(Posted!vars)
  BY NextPosts
<1> QED
  BY <1>1, <1>2, InvHolds, PTL DEF Spec, RefinesConversation, Posted!Spec
=============================================================================
