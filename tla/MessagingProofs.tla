---------------------------- MODULE MessagingProofs ----------------------------
(* Proofs about Messaging, for any transactions, clients, members, ids,    *)
(* page sizes, horizon and fault assumption.                               *)
EXTENDS Messaging, FiniteSetTheorems, WellFoundedInduction, TLAPS

-----------------------------------------------------------------------------
(* The order of messages, and the page a query returns. *)

LEMMA LeastNatural ==
  ASSUME NEW S \in SUBSET Nat, S # {}
  PROVE  \E x \in S : \A y \in S : x <= y
<1> DEFINE R == OpToRel(<, Nat)
<1>1. PICK x \in S : \A y \in S : ~(<<y, x>> \in R)
  <2>1. IsWellFoundedOn(R, Nat)  BY NatLessThanWellFounded
  <2> HIDE DEF R
  <2>2. QED  BY <2>1, WFMin
<1>2. \A y \in S : y < x => <<y, x>> \in R
  BY DEF OpToRel
<1> HIDE DEF R
<1>3. ASSUME NEW y \in S  PROVE x <= y
  <2>1. ~(y < x)  BY <1>1, <1>2
  <2>2. QED  BY <2>1
<1>4. QED  BY <1>3

LEMMA MessageKey == \A m \in MessageRow : m.id \in Nat /\ m.at \in Nat
<1>1. 0 .. Horizon \subseteq Nat  BY ClockAssumption
<1>2. QED  BY <1>1, IdsAssumption DEF MessageRow

LEMMA NewerIsOrder ==
  ASSUME NEW l \in MessageRow, NEW m \in MessageRow, NEW n \in MessageRow
  PROVE  /\ ~Newer(m, m)
         /\ Newer(l, m) /\ Newer(m, n) => Newer(l, n)
         /\ m.id # n.id => Newer(m, n) \/ Newer(n, m)
BY MessageKey DEF Newer

\* A page with messages on it has an oldest one.
LEMMA PageHasOldest ==
  ASSUME NEW page \in SUBSET MessageRow, page # {},
         \A m, n \in page : m.id = n.id => m = n
  PROVE  \E k \in page : Oldest(page) = {k}
<1>1. \A k \in page : k.id \in Nat /\ k.at \in Nat  BY MessageKey
<1> DEFINE times == {m.at : m \in page}
<1>2. PICK a \in times : \A b \in times : a <= b
  <2>1. times \in SUBSET Nat /\ times # {}  BY <1>1
  <2>2. QED  BY <2>1, LeastNatural
<1> DEFINE ids == {m.id : m \in {n \in page : n.at = a}}
<1>3. PICK i \in ids : \A j \in ids : i <= j
  <2>1. ids \in SUBSET Nat /\ ids # {}  BY <1>1, <1>2
  <2>2. QED  BY <2>1, LeastNatural
<1>4. PICK k \in page : k.at = a /\ k.id = i  BY <1>3
<1>5. ASSUME NEW m \in page  PROVE m = k \/ Newer(m, k)
  <2>1. a <= m.at  BY <1>2
  <2>2. m.at = a => i <= m.id  BY <1>3
  <2>3. QED  BY <1>1, <1>4, <2>1, <2>2 DEF Newer
<1>6. k \in Oldest(page)  BY <1>5 DEF Oldest
<1>7. ASSUME NEW m \in Oldest(page)  PROVE m = k
  <2>1. m = k \/ Newer(k, m)  BY <1>7 DEF Oldest
  <2>2. m = k \/ Newer(m, k)  BY <1>5, <1>7 DEF Oldest
  <2>3. m \in MessageRow /\ k \in MessageRow  BY <1>7 DEF Oldest
  <2>4. QED  BY <2>1, <2>2, <2>3, NewerIsOrder
<1>8. QED  BY <1>6, <1>7

-----------------------------------------------------------------------------
(* Types. *)

\* The locals a handler has at each of its points.
LEMMA CallForm ==
  ASSUME MessagingTypeOK, NEW c \in Clients
  PROVE  /\ call[c].at \in {"find", "insert"}
              => /\ call[c].op \in Operation /\ call[c].tx \in Transactions
                 /\ call[c].limit \in Limits \cup {0}
                 /\ [call[c] EXCEPT !.at = "insert"] \in Call
         /\ call[c].at \in Operation
              => /\ call[c].tx \in Transactions
                 /\ call[c].limit \in Limits \cup {0}
                 /\ call[c].conversation \in Conversations
         /\ At(c, "store") => call[c].message \in MessageRow
<1>1. call[c] \in Call \cup {Idle}  BY DEF MessagingTypeOK
<1>2. QED  BY <1>1 DEF Call, Idle, Operation, At

LEMMA GotoType ==
  ASSUME MessagingTypeOK, NEW c \in Clients, NEW k \in Call \cup {Idle},
         Goto(c, k)
  PROVE  /\ call' \in [Clients -> Call \cup {Idle}]
         /\ call'[c] = k
         /\ \A d \in Clients : d # c => call'[d] = call[d]
BY DEF MessagingTypeOK, Goto

LEMMA EnterType ==
  ASSUME MessagingTypeOK, NEW c \in Clients, NEW t \in Transactions,
         NEW op \in Operation, NEW limit \in Limits \cup {0},
         Enter(c, op, t, limit)
  PROVE  /\ call' \in [Clients -> Call \cup {Idle}]
         /\ call'[c] = [at |-> "find", op |-> op, tx |-> t, limit |-> limit]
         /\ \A d \in Clients : d # c => call'[d] = call[d]
<1>1. [at |-> "find", op |-> op, tx |-> t, limit |-> limit] \in Call
  BY DEF Call
<1>2. QED  BY <1>1, GotoType DEF Enter

LEMMA WithType ==
  ASSUME MessagingTypeOK, NEW c \in Clients, NEW i \in Conversations,
         call[c].at \in {"find", "insert"}, With(c, i)
  PROVE  /\ call' \in [Clients -> Call \cup {Idle}]
         /\ call'[c] = [at |-> call[c].op, tx |-> call[c].tx,
                        limit |-> call[c].limit, conversation |-> i]
         /\ \A d \in Clients : d # c => call'[d] = call[d]
<1> DEFINE k == [at |-> call[c].op, tx |-> call[c].tx,
                 limit |-> call[c].limit, conversation |-> i]
<1>1. k \in Call  BY CallForm DEF Call
<1>2. QED  BY <1>1, GotoType DEF With

LEMMA ReturnType ==
  ASSUME MessagingTypeOK, NEW c \in Clients, Return(c)
  PROVE  /\ call' \in [Clients -> Call \cup {Idle}]
         /\ call'[c] = Idle
         /\ \A d \in Clients : d # c => call'[d] = call[d]
BY GotoType DEF Return

\* The message a handler will store.
LEMMA StampType ==
  ASSUME MessagingTypeOK, NEW c \in Clients, NEW i \in Ids, StampMessage(c, i)
  PROVE  \E m \in MessageRow :
           /\ m.id = i /\ m.conversation = call[c].conversation /\ m.from = c
           /\ call' \in [Clients -> Call \cup {Idle}]
           /\ call'[c] = [at |-> "store", message |-> m]
           /\ \A d \in Clients : d # c => call'[d] = call[d]
<1> DEFINE m == [id |-> i, conversation |-> call[c].conversation, from |-> c,
                 at |-> now]
<1>1. call[c].conversation \in Conversations
  BY CallForm DEF StampMessage, At, Operation
<1>2. m \in MessageRow  BY <1>1 DEF MessageRow, MessagingTypeOK
<1> HIDE DEF m
<1>3. [at |-> "store", message |-> m] \in Call  BY <1>2 DEF Call
<1>4. Goto(c, [at |-> "store", message |-> m])  BY DEF StampMessage, m
<1>5. QED  BY <1>2, <1>3, <1>4, GotoType DEF m

LEMMA GivenType ==
  ASSUME NEW w \in Walk, NEW all \in SUBSET MessageRow,
         NEW page \in SUBSET MessageRow, NEW cursor \in SUBSET MessageRow
  PROVE  Given(w, all, page, cursor) \in Walk
BY DEF Given, Walk

LEMMA GivenFields ==
  ASSUME NEW w \in Walk, NEW all, NEW page, NEW cursor,
         NEW v, v = Given(w, all, page, cursor)
  PROVE  /\ v.state = (IF cursor = {} THEN "end" ELSE "more")
         /\ v.tx = w.tx
         /\ v.start = (IF w.state = "new" THEN all ELSE w.start)
         /\ v.earlier = Seen(w) /\ v.page = page /\ v.cursor = cursor
BY DEF Given, Walk, Seen

LEMMA TypeInit == MessagingInit => MessagingTypeOK
BY ClockAssumption DEF MessagingInit, MessagingTypeOK

\* A list call belongs to a walk.
Listing == \A c \in Clients : Entitled(c)

LEMMA ReadPageWalk ==
  ASSUME MessagingTypeOK, Listing, NEW c \in Clients, ReadPage(c)
  PROVE  /\ walk[c] \in Walk
         /\ call[c].at = "list" /\ walk[c].state \in {"new", "more"}
         /\ walk[c].tx = call[c].tx
<1>1. walk[c].state \in {"new", "more"} /\ walk[c].tx = call[c].tx
  BY DEF ReadPage, Listing, Entitled, At
<1>2. walk[c] \in Walk  BY <1>1 DEF MessagingTypeOK, NoWalk
<1>3. QED  BY <1>1, <1>2 DEF ReadPage, At

LEMMA TypeStep ==
  ASSUME MessagingTypeOK, Listing, [MessagingNext]_messagingVars
  PROVE  MessagingTypeOK'
<1>1. CASE UNCHANGED messagingVars
  BY <1>1 DEF messagingVars, MessagingTypeOK
<1>2. CASE Tick
  BY <1>2, ClockAssumption DEF Tick, MessagingTypeOK
<1>3. ASSUME NEW c \in Clients, FindConversation(c)  PROVE MessagingTypeOK'
  <2>1. \A v \in conversation : v.id \in Conversations
    BY DEF MessagingTypeOK, ConversationRow
  <2>2. call[c].at \in {"find", "insert"}  BY <1>3 DEF FindConversation, At
  <2>3. [call[c] EXCEPT !.at = "insert"] \in Call  BY <2>2, CallForm
  <2>4. call' \in [Clients -> Call \cup {Idle}]
    BY <1>3, <2>1, <2>2, <2>3, WithType, GotoType
       DEF FindConversation, ConversationOf
  <2>5. QED  BY <1>3, <2>4 DEF FindConversation, MessagingTypeOK
<1>4. ASSUME NEW c \in Clients, NEW i \in Conversations, InsertConversation(c, i)
      PROVE  MessagingTypeOK'
  <2>1. call[c].at \in {"find", "insert"}  BY <1>4 DEF InsertConversation, At
  <2>2. [id |-> i, tx |-> call[c].tx] \in ConversationRow
    BY <2>1, CallForm DEF ConversationRow
  <2>3. call' \in [Clients -> Call \cup {Idle}]
    BY <1>4, <2>1, WithType DEF InsertConversation
  <2>4. QED  BY <1>4, <2>2, <2>3 DEF InsertConversation, MessagingTypeOK
<1>5. ASSUME NEW c \in Clients, InsertConflict(c) \/ RejectMessage(c) \/ Interrupted(c)
      PROVE  MessagingTypeOK'
  BY <1>5, ReturnType DEF InsertConflict, RejectMessage, Interrupted,
                          MessagingTypeOK
<1>6. ASSUME NEW c \in Clients, NEW i \in Ids, StampMessage(c, i)
      PROVE  MessagingTypeOK'
  BY <1>6, StampType DEF StampMessage, MessagingTypeOK
<1>7. ASSUME NEW c \in Clients, StoreMessage(c)  PROVE MessagingTypeOK'
  <2>1. call[c].message \in MessageRow  BY <1>7, CallForm DEF StoreMessage
  <2>2. QED  BY <1>7, <2>1, ReturnType DEF StoreMessage, MessagingTypeOK
<1>8. ASSUME NEW c \in Clients, ReadPage(c)  PROVE MessagingTypeOK'
  <2> DEFINE all == {m \in message : m.conversation = call[c].conversation}
             rows == {m \in all : PastCursor(m, walk[c].cursor)}
  <2>1. PICK page \in SUBSET rows :
          walk' = [walk EXCEPT ![c] =
                    Given(@, all, page, NextCursor(page, call[c].limit))]
    BY <1>8 DEF ReadPage
  <2>2. all \in SUBSET MessageRow /\ page \in SUBSET MessageRow
    BY DEF MessagingTypeOK
  <2>3. NextCursor(page, call[c].limit) \in SUBSET MessageRow
    BY <2>2 DEF NextCursor, Oldest
  <2>4. walk[c] \in Walk  BY <1>8, ReadPageWalk
  <2>5. Given(walk[c], all, page, NextCursor(page, call[c].limit)) \in Walk
    BY <2>2, <2>3, <2>4, GivenType
  <2>6. walk' \in [Clients -> Walk \cup {NoWalk}]
    BY <2>1, <2>5 DEF MessagingTypeOK
  <2>7. QED  BY <1>8, <2>6, ReturnType DEF ReadPage, MessagingTypeOK
<1>9. ASSUME NEW c \in Clients, NEW t \in Transactions, SendMessage(c, t)
      PROVE  MessagingTypeOK'
  BY <1>9, EnterType DEF SendMessage, MessagingTypeOK, Operation
<1>10. ASSUME NEW c \in Clients, NEW t \in Transactions, NEW limit \in Limits,
              ListMessages(c, t, limit)
       PROVE  MessagingTypeOK'
  <2>1. [state |-> "new", tx |-> t, start |-> {}, earlier |-> {}, page |-> {},
         cursor |-> {}] \in Walk
    BY DEF Walk
  <2>2. walk' \in [Clients -> Walk \cup {NoWalk}]
    BY <1>10, <2>1 DEF ListMessages, MessagingTypeOK
  <2>3. QED  BY <1>10, <2>2, EnterType DEF ListMessages, MessagingTypeOK, Operation
<1>11. ASSUME NEW c \in Clients, NEW limit \in Limits, ListMore(c, limit)
       PROVE  MessagingTypeOK'
  <2>1. walk[c].tx \in Transactions
    BY <1>11 DEF ListMore, MessagingTypeOK, Walk, NoWalk
  <2>2. QED  BY <1>11, <2>1, EnterType DEF ListMore, MessagingTypeOK, Operation
<1>12. QED
  BY <1>1, <1>2, <1>3, <1>4, <1>5, <1>6, <1>7, <1>8, <1>9, <1>10, <1>11,
     ReadersAssumption
  DEF MessagingNext, MessagingStep, ReaderStep

-----------------------------------------------------------------------------
(* Coherence. *)

\* A client whose call and walk do not change keeps what it relies on, for
\* conversations and messages are only ever added.
LEMMA OthersKept ==
  ASSUME Coherent, NEW d \in Clients,
         conversation \subseteq conversation', message \subseteq message',
         call'[d] = call[d], walk'[d] = walk[d]
  PROVE  /\ Entitled(d)'
         /\ (Walked(d) => d \in Members[walk[d].tx] /\ OnTrack(walk[d]))'
<1>1. Entitled(d)'
  <2>1. Entitled(d)  BY DEF Coherent
  <2>2. QED  BY <2>1 DEF Entitled, Belongs, Authored, At
<1>2. ASSUME Walked(d)'  PROVE (d \in Members[walk[d].tx] /\ OnTrack(walk[d]))'
  <2>1. d \in Members[walk[d].tx] /\ OnTrack(walk[d])
    BY <1>2 DEF Coherent, Walked
  <2>2. QED  BY <2>1 DEF OnTrack, Belongs, Seen
<1>3. QED  BY <1>1, <1>2

\* A step that changes no row and no walk is judged by its own client.
LEMMA CallStep ==
  ASSUME MessagingTypeOK, Coherent, NEW c \in Clients,
         UNCHANGED <<conversation, message, walk>>,
         \A d \in Clients : d # c => call'[d] = call[d],
         Entitled(c)',
         At(c, "store")' =>
           /\ \A m \in message : m.id # call'[c].message.id
           /\ \A d \in Clients :
                At(d, "store") => call[d].message.id # call'[c].message.id
  PROVE  Coherent'
<1>1. \A d \in Clients : Entitled(d)'
  BY OthersKept
<1>2. \A d \in Clients :
        (Walked(d) => d \in Members[walk[d].tx] /\ OnTrack(walk[d]))'
  BY DEF Coherent, Walked, OnTrack, Belongs, Seen
<1>3. Keyed'
  BY DEF Coherent, Keyed, At
<1>4. (OneConversation /\ PagesFollow /\ PagesAreComplete)'
  BY DEF Coherent, OneConversation, PagesFollow, PagesAreComplete, Walked, Seen
<1>5. \A m \in message' : Authored(m)'
  BY DEF Coherent, Authored
<1>6. QED  BY <1>1, <1>2, <1>3, <1>4, <1>5 DEF Coherent

LEMMA ReturnCoherent ==
  ASSUME MessagingTypeOK, Coherent, NEW c \in Clients, Return(c),
         UNCHANGED <<conversation, message, walk>>
  PROVE  Coherent'
<1>1. call'[c] = Idle /\ \A d \in Clients : d # c => call'[d] = call[d]
  BY ReturnType
<1>2. Entitled(c)' /\ ~At(c, "store")'
  BY <1>1 DEF Entitled, At, Idle, Operation
<1>3. QED  BY <1>1, <1>2, CallStep

LEMMA FindCoherent ==
  ASSUME MessagingTypeOK, Coherent, NEW c \in Clients, FindConversation(c)
  PROVE  Coherent'
<1>1. Entitled(c) /\ call[c].at = "find"
  BY DEF Coherent, FindConversation, At
<1>2. call[c].op \in Operation  BY <1>1, CallForm
<1>3. ASSUME NEW v \in ConversationOf(call[c].tx), With(c, v.id)
      PROVE  Coherent'
  <2>1. v \in conversation /\ v.tx = call[c].tx  BY <1>3 DEF ConversationOf
  <2>2. v.id \in Conversations  BY <2>1 DEF MessagingTypeOK, ConversationRow
  <2>3. /\ call'[c] = [at |-> call[c].op, tx |-> call[c].tx,
                       limit |-> call[c].limit, conversation |-> v.id]
        /\ \A d \in Clients : d # c => call'[d] = call[d]
    BY <1>1, <1>3, <2>2, WithType
  <2>4. UNCHANGED <<conversation, message, walk>>  BY DEF FindConversation
  <2>5. Entitled(c)' /\ ~At(c, "store")'
    BY <1>1, <1>2, <2>1, <2>3, <2>4 DEF Entitled, Belongs, At, Operation
  <2>6. QED  BY <2>3, <2>4, <2>5, CallStep
<1>4. CASE Goto(c, [call[c] EXCEPT !.at = "insert"])
  <2>1. call[c] \in [at : {"find", "insert"}, op : Operation, tx : Transactions,
                     limit : Limits \cup {0}]
    BY <1>1 DEF MessagingTypeOK, Call, Idle, Operation
  <2>2. [call[c] EXCEPT !.at = "insert"] \in Call  BY <1>1, CallForm
  <2>3. /\ call'[c] = [call[c] EXCEPT !.at = "insert"]
        /\ \A d \in Clients : d # c => call'[d] = call[d]
    BY <1>4, <2>2, GotoType
  <2>4. /\ call'[c].at = "insert" /\ call'[c].op = call[c].op
        /\ call'[c].tx = call[c].tx /\ call'[c].limit = call[c].limit
    BY <2>1, <2>3
  <2>5. UNCHANGED <<conversation, message, walk>>  BY DEF FindConversation
  <2>6. Entitled(c)' /\ ~At(c, "store")'
    BY <1>1, <2>4, <2>5 DEF Entitled, At, Operation
  <2>7. QED  BY <2>3, <2>5, <2>6, CallStep
<1>5. QED  BY <1>3, <1>4 DEF FindConversation

LEMMA InsertCoherent ==
  ASSUME MessagingTypeOK, Coherent, NEW c \in Clients, NEW i \in Conversations,
         InsertConversation(c, i)
  PROVE  Coherent'
<1> DEFINE row == [id |-> i, tx |-> call[c].tx]
<1>1. /\ conversation' = conversation \cup {row}
      /\ UNCHANGED <<message, walk>>
      /\ \A v \in conversation : v.tx # row.tx /\ v.id # row.id
  BY DEF InsertConversation, FirstConversation
<1>2. Entitled(c) /\ call[c].at = "insert"
  BY DEF Coherent, InsertConversation, At
<1>3. call[c].op \in Operation  BY <1>2, CallForm
<1>4. /\ call'[c] = [at |-> call[c].op, tx |-> call[c].tx,
                     limit |-> call[c].limit, conversation |-> i]
      /\ \A d \in Clients : d # c => call'[d] = call[d]
  BY <1>2, WithType DEF InsertConversation
<1>5. Entitled(c)' /\ ~At(c, "store")'
  <2>1. /\ call'[c].at = call[c].op /\ call'[c].tx = call[c].tx
        /\ call'[c].limit = call[c].limit /\ call'[c].conversation = i
    BY <1>4
  <2>2. row \in conversation' /\ row.id = i /\ row.tx = call[c].tx
    BY <1>1
  <2> HIDE DEF row
  <2>3. Belongs(call[c], call[c].tx)'  BY <2>1, <2>2 DEF Belongs
  <2>4. QED
    BY <1>1, <1>2, <1>3, <2>1, <2>3 DEF Entitled, At, Operation
<1>6. \A d \in Clients : Entitled(d)'
  BY <1>1, <1>4, <1>5, OthersKept
<1>7. \A d \in Clients :
        (Walked(d) => d \in Members[walk[d].tx] /\ OnTrack(walk[d]))'
  BY <1>1 DEF Coherent, Walked, OnTrack, Belongs, Seen
<1>8. OneConversation'  BY <1>1 DEF Coherent, OneConversation
<1>9. Keyed'
  BY <1>1, <1>4, <1>5 DEF Coherent, Keyed, At
<1>10. (PagesFollow /\ PagesAreComplete)'
  BY <1>1 DEF Coherent, PagesFollow, PagesAreComplete, Walked, Seen
<1>11. \A m \in message' : Authored(m)'
  BY <1>1 DEF Coherent, Authored
<1>12. QED  BY <1>6, <1>7, <1>8, <1>9, <1>10, <1>11 DEF Coherent

LEMMA EnterCoherent ==
  ASSUME MessagingTypeOK, Coherent, NEW c \in Clients, NEW t \in Transactions,
         NEW op \in Operation, NEW limit \in Limits \cup {0},
         Enter(c, op, t, limit), UNCHANGED <<conversation, message, walk>>,
         op = "list" => /\ walk[c].state \in {"new", "more"}
                        /\ walk[c].tx = t /\ limit # 0
  PROVE  Coherent'
<1>1. /\ call'[c] = [at |-> "find", op |-> op, tx |-> t, limit |-> limit]
      /\ \A d \in Clients : d # c => call'[d] = call[d]
  BY EnterType
<1>2. c \in Members[t]  BY DEF Enter
<1>3. Entitled(c)' /\ ~At(c, "store")'
  BY <1>1, <1>2 DEF Entitled, At, Operation
<1>4. QED  BY <1>1, <1>3, CallStep

LEMMA StampCoherent ==
  ASSUME MessagingTypeOK, Coherent, NEW c \in Clients, NEW i \in Ids,
         StampMessage(c, i)
  PROVE  Coherent'
<1>1. PICK m \in MessageRow :
        /\ m.id = i /\ m.conversation = call[c].conversation /\ m.from = c
        /\ call'[c] = [at |-> "store", message |-> m]
        /\ \A d \in Clients : d # c => call'[d] = call[d]
  BY StampType
<1>2. Entitled(c) /\ call[c].at = "send"  BY DEF Coherent, StampMessage, At
<1>3. UNCHANGED <<conversation, message, walk>>  BY DEF StampMessage
<1>4. Authored(m)
  BY <1>1, <1>2 DEF Entitled, Belongs, Authored, Operation
<1>5. Entitled(c)'
  BY <1>1, <1>3, <1>4 DEF Entitled, Authored, At, Operation
<1>6. /\ \A n \in message : n.id # i
      /\ \A d \in Clients : At(d, "store") => call[d].message.id # i
  BY DEF StampMessage, Unused
<1>7. QED  BY <1>1, <1>3, <1>5, <1>6, CallStep

LEMMA StoreCoherent ==
  ASSUME MessagingTypeOK, Coherent, NEW c \in Clients, StoreMessage(c)
  PROVE  Coherent'
<1>1. /\ message' = message \cup {call[c].message}
      /\ UNCHANGED <<conversation, walk>>
      /\ call'[c] = Idle /\ \A d \in Clients : d # c => call'[d] = call[d]
  BY ReturnType DEF StoreMessage
<1>2. At(c, "store") /\ Entitled(c)  BY DEF StoreMessage, Coherent
<1>3. Entitled(c)' /\ ~At(c, "store")'
  BY <1>1 DEF Entitled, At, Idle, Operation
<1>4. \A d \in Clients : Entitled(d)'
  BY <1>1, <1>3, OthersKept
<1>5. \A d \in Clients :
        (Walked(d) => d \in Members[walk[d].tx] /\ OnTrack(walk[d]))'
  BY <1>1 DEF Coherent, Walked, OnTrack, Belongs, Seen
<1>6. Keyed'
  BY <1>1, <1>2, <1>3 DEF Coherent, Keyed, At
<1>7. (OneConversation /\ PagesFollow /\ PagesAreComplete)'
  BY <1>1 DEF Coherent, OneConversation, PagesFollow, PagesAreComplete, Walked,
              Seen
<1>8. \A m \in message' : Authored(m)'
  BY <1>1, <1>2 DEF Coherent, Authored, Entitled
<1>9. QED  BY <1>4, <1>5, <1>6, <1>7, <1>8 DEF Coherent

LEMMA ListCoherent ==
  ASSUME MessagingTypeOK, Coherent, NEW c \in Clients, NEW t \in Transactions,
         NEW limit \in Limits, ListMessages(c, t, limit)
  PROVE  Coherent'
<1> DEFINE fresh == [state |-> "new", tx |-> t, start |-> {}, earlier |-> {},
                     page |-> {}, cursor |-> {}]
<1>1. /\ UNCHANGED <<conversation, message>>
      /\ walk'[c] = fresh
      /\ \A d \in Clients : d # c => walk'[d] = walk[d]
      /\ c \in Members[t]
  BY DEF ListMessages, MessagingTypeOK, Enter
<1>2. limit \in Limits \cup {0} /\ limit # 0 /\ "list" \in Operation
  BY LimitsAssumption DEF Operation
<1>3. /\ call'[c] = [at |-> "find", op |-> "list", tx |-> t, limit |-> limit]
      /\ \A d \in Clients : d # c => call'[d] = call[d]
  BY <1>2, EnterType DEF ListMessages
<1>4. Entitled(c)' /\ ~At(c, "store")'
  BY <1>1, <1>2, <1>3 DEF Entitled, At, Operation
<1>5. \A d \in Clients : Entitled(d)'
  BY <1>1, <1>3, <1>4, OthersKept
<1>6. (c \in Members[walk[c].tx] /\ OnTrack(walk[c]))'
  BY <1>1 DEF OnTrack, Seen
<1>7. \A d \in Clients :
        (Walked(d) => d \in Members[walk[d].tx] /\ OnTrack(walk[d]))'
  BY <1>1, <1>3, <1>6, OthersKept
<1>8. (OneConversation /\ PagesFollow /\ PagesAreComplete)'
  BY <1>1 DEF Coherent, OneConversation, PagesFollow, PagesAreComplete, Walked,
              Seen
<1>9. Keyed' /\ \A m \in message' : Authored(m)'
  BY <1>1, <1>3, <1>4 DEF Coherent, Keyed, Authored, At
<1>10. QED  BY <1>5, <1>7, <1>8, <1>9 DEF Coherent

\* The heart of the matter: the page past the cursor continues the walk.
LEMMA ReadPageCoherent ==
  ASSUME MessagingTypeOK, Coherent, NEW c \in Clients, ReadPage(c)
  PROVE  Coherent'
<1> DEFINE w == walk[c]
           limit == call[c].limit
           all == {m \in message : m.conversation = call[c].conversation}
           rows == {m \in all : PastCursor(m, w.cursor)}
<1>1. PICK page \in SUBSET rows :
        /\ IsPage(page, rows, limit)
        /\ walk' = [walk EXCEPT ![c] =
                     Given(@, all, page, NextCursor(page, limit))]
  BY DEF ReadPage
<1>2. /\ w \in Walk /\ call[c].at = "list" /\ w.state \in {"new", "more"}
      /\ w.tx = call[c].tx /\ limit # 0
      /\ Belongs(call[c], call[c].tx)
  <2>1. Entitled(c) /\ call[c].at = "list"  BY DEF Coherent, ReadPage, At
  <2>2. QED  BY <2>1, ReadPageWalk DEF Coherent, Listing, Entitled, At, Operation
<1>3. /\ UNCHANGED <<conversation, message>>
      /\ call'[c] = Idle /\ \A d \in Clients : d # c => call'[d] = call[d]
  BY ReturnType DEF ReadPage
<1> DEFINE cursor == NextCursor(page, limit)
           v == Given(w, all, page, cursor)
<1>4. walk'[c] = v /\ \A d \in Clients : d # c => walk'[d] = walk[d]
  BY <1>1 DEF MessagingTypeOK
<1>5. /\ v.state = (IF cursor = {} THEN "end" ELSE "more")
      /\ v.tx = w.tx /\ v.start = (IF w.state = "new" THEN all ELSE w.start)
      /\ v.earlier = Seen(w) /\ v.page = page /\ v.cursor = cursor
  <2> HIDE DEF w, all, cursor, v
  <2>1. v = Given(w, all, page, cursor)  BY DEF v
  <2>2. QED  BY <1>2, <2>1, GivenFields
<1>6. c \in Members[w.tx] /\ OnTrack(w)
  BY <1>2 DEF Coherent, Walked
\* All that is in the conversation of the call, and only that, is of its
\* transaction.
<1>7. \A m \in message : m \in all <=> Belongs(m, w.tx)
  <2>1. PICK r \in conversation : r.id = call[c].conversation /\ r.tx = w.tx
    BY <1>2 DEF Belongs
  <2>2. ASSUME NEW m \in message, m \in all  PROVE Belongs(m, w.tx)
    BY <2>1, <2>2 DEF Belongs
  <2>3. ASSUME NEW m \in message, Belongs(m, w.tx)  PROVE m \in all
    BY <2>1, <2>3 DEF Belongs, Coherent, OneConversation
  <2>4. QED  BY <2>2, <2>3
<1>8. /\ message \subseteq MessageRow /\ all \subseteq message
      /\ page \subseteq rows /\ rows \subseteq all
      /\ Seen(w) \subseteq all /\ w.start \subseteq all
  <2>1. message \subseteq MessageRow  BY DEF MessagingTypeOK
  <2>2. Seen(w) \subseteq all /\ w.start \subseteq all  BY <1>6, <1>7 DEF OnTrack
  <2>3. QED  BY <2>1, <2>2
<1>9. \A m, n \in message : m.id = n.id => m = n  BY DEF Coherent, Keyed
<1> HIDE DEF w, all
\* Nothing past the cursor has been seen, and the cursor separates the two.
<1>10. \A m \in Seen(w), n \in rows : Newer(m, n)
  <2>1. CASE w.state = "new"  BY <2>1, <1>6 DEF OnTrack
  <2>2. CASE w.state = "more"
    <3>1. PICK k \in w.page : /\ w.cursor = {k}
                              /\ \A m \in Seen(w) : m = k \/ Newer(m, k)
      BY <2>2, <1>6 DEF OnTrack
    <3>2. \A n \in rows : Newer(k, n)  BY <3>1 DEF PastCursor
    <3>3. k \in MessageRow /\ Seen(w) \subseteq MessageRow /\ rows \subseteq MessageRow
      BY <1>8 DEF Seen
    <3> HIDE DEF rows
    <3>4. ASSUME NEW m \in Seen(w), NEW n \in rows  PROVE Newer(m, n)
      <4>1. Newer(k, n) /\ (m = k \/ Newer(m, k))  BY <3>1, <3>2
      <4>2. QED  BY <4>1, <3>3, NewerIsOrder
    <3>5. QED  BY <3>4
  <2>3. QED  BY <1>2, <2>1, <2>2
\* What the first page had before it has been seen or is past the cursor.
<1>11. v.start \subseteq Seen(w) \cup rows
  <2>1. CASE w.state = "new"
    BY <2>1, <1>5, <1>6 DEF OnTrack, PastCursor
  <2>2. CASE w.state = "more"
    <3>1. PICK k \in w.page : /\ w.cursor = {k}
                              /\ \A m \in w.start : m \in Seen(w) \/ Newer(k, m)
      BY <2>2, <1>6 DEF OnTrack
    <3>2. QED  BY <2>2, <3>1, <1>5, <1>8 DEF PastCursor
  <2>3. QED  BY <1>2, <2>1, <2>2
<1> HIDE DEF rows
<1>12. \A m \in page, n \in rows \ page : Newer(m, n)  BY <1>1 DEF IsPage
<1>13. \/ page = rows /\ cursor = {}
       \/ \E k \in page : cursor = {k} /\ \A m \in page : m = k \/ Newer(m, k)
  <2>1. CASE Cardinality(page) # limit
    BY <1>1, <2>1 DEF IsPage, NextCursor
  <2>2. CASE Cardinality(page) = limit
    <3>1. page # {}  BY <1>2, <2>2, FS_EmptySet
    <3>2. page \subseteq message  BY <1>8
    <3>3. PICK k \in page : Oldest(page) = {k}
      <4>1. page \in SUBSET MessageRow  BY <1>8
      <4>2. \A m, n \in page : m.id = n.id => m = n  BY <1>9, <3>2
      <4>3. QED  BY <3>1, <4>1, <4>2, PageHasOldest
    <3>4. cursor = {k}  BY <2>2, <3>3 DEF NextCursor
    <3>5. \A m \in page : m = k \/ Newer(m, k)
      <4>1. k \in Oldest(page)  BY <3>3
      <4>2. QED  BY <4>1 DEF Oldest
    <3>6. QED  BY <3>4, <3>5
  <2>3. QED  BY <2>1, <2>2
<1> HIDE DEF cursor, v
<1>14. OnTrack(v)
  <2>1. v.start \cup Seen(v) \subseteq all  BY <1>5, <1>8, <1>11 DEF Seen
  <2>2. \A m \in v.start \cup Seen(v) : m \in message /\ Belongs(m, v.tx)
    BY <2>1, <1>5, <1>7, <1>8
  <2>3. v.state # "new"  BY <1>5
  <2>4. ASSUME v.state = "more"
        PROVE  \E k \in v.page :
                 /\ v.cursor = {k}
                 /\ \A m \in Seen(v) : m = k \/ Newer(m, k)
                 /\ \A m \in v.start : m \in Seen(v) \/ Newer(k, m)
    <3>1. PICK k \in page : cursor = {k} /\ \A m \in page : m = k \/ Newer(m, k)
      BY <1>5, <1>13, <2>4
    <3>2. \A m \in Seen(v) : m = k \/ Newer(m, k)
      BY <3>1, <1>5, <1>8, <1>10 DEF Seen
    <3>3. \A m \in v.start : m \in Seen(v) \/ Newer(k, m)
      BY <3>1, <1>5, <1>8, <1>11, <1>12 DEF Seen
    <3>4. QED  BY <3>1, <3>2, <3>3, <1>5
  <2>5. QED  BY <2>2, <2>3, <2>4 DEF OnTrack
<1>15. Entitled(c)' /\ ~At(c, "store")'
  BY <1>3 DEF Entitled, At, Idle, Operation
<1>16. \A d \in Clients : Entitled(d)'
  BY <1>3, <1>4, <1>15, OthersKept
<1>17. (c \in Members[walk[c].tx] /\ OnTrack(walk[c]))'
  BY <1>3, <1>4, <1>5, <1>6, <1>14 DEF OnTrack, Belongs
<1>18. \A d \in Clients :
         (Walked(d) => d \in Members[walk[d].tx] /\ OnTrack(walk[d]))'
  BY <1>3, <1>4, <1>17, OthersKept
<1>19. PagesFollow'
  <2>1. \A m \in v.earlier, n \in v.page : Newer(m, n)  BY <1>5, <1>8, <1>10
  <2>2. QED  BY <1>4, <2>1 DEF Coherent, PagesFollow, Walked
<1>20. PagesAreComplete'
  <2>1. v.state = "end" => v.start \subseteq Seen(v)
    BY <1>5, <1>11, <1>13 DEF Seen
  <2>2. QED  BY <1>4, <2>1 DEF Coherent, PagesAreComplete
<1>21. (OneConversation /\ Keyed)' /\ \A m \in message' : Authored(m)'
  BY <1>3, <1>15 DEF Coherent, OneConversation, Keyed, Authored, At
<1>22. QED  BY <1>16, <1>18, <1>19, <1>20, <1>21 DEF Coherent

LEMMA CoherentInit == MessagingInit => Coherent
BY DEF MessagingInit, Coherent, OneConversation, Keyed, Entitled, Walked, At,
       PagesFollow, PagesAreComplete, Idle, NoWalk, Operation

LEMMA CoherentStep ==
  ASSUME MessagingTypeOK, Coherent, [MessagingNext]_messagingVars
  PROVE  Coherent'
<1>1. CASE UNCHANGED messagingVars \/ Tick
  <2>1. UNCHANGED <<conversation, message, call, walk>>
    BY <1>1 DEF messagingVars, Tick
  <2>2. QED
    BY <2>1 DEF Coherent, OneConversation, Keyed, Authored, Entitled, Belongs,
                Walked, At, OnTrack, Seen, PagesFollow, PagesAreComplete
<1>2. ASSUME NEW c \in Clients, MessagingStep(c)  PROVE Coherent'
  <2>1. CASE FindConversation(c)  BY <2>1, FindCoherent
  <2>2. ASSUME NEW i \in Conversations, InsertConversation(c, i)  PROVE Coherent'
    BY <2>2, InsertCoherent
  <2>3. CASE InsertConflict(c) \/ RejectMessage(c) \/ Interrupted(c)
    BY <2>3, ReturnCoherent DEF InsertConflict, RejectMessage, Interrupted
  <2>4. ASSUME NEW i \in Ids, StampMessage(c, i)  PROVE Coherent'
    BY <2>4, StampCoherent
  <2>5. CASE StoreMessage(c)  BY <2>5, StoreCoherent
  <2>6. CASE ReadPage(c)  BY <2>6, ReadPageCoherent
  <2>7. ASSUME NEW t \in Transactions, SendMessage(c, t)  PROVE Coherent'
    BY <2>7, EnterCoherent DEF SendMessage, Operation
  <2>8. QED
    BY <1>2, <2>1, <2>2, <2>3, <2>4, <2>5, <2>6, <2>7 DEF MessagingStep
<1>3. ASSUME NEW c \in Clients, NEW t \in Transactions, NEW limit \in Limits,
             ListMessages(c, t, limit)
      PROVE  Coherent'
  BY <1>3, ListCoherent
<1>4. ASSUME NEW c \in Clients, NEW limit \in Limits, ListMore(c, limit)
      PROVE  Coherent'
  <2>1. walk[c].tx \in Transactions /\ walk[c].state = "more"
    BY <1>4 DEF ListMore, MessagingTypeOK, Walk, NoWalk
  <2>2. limit \in Limits \cup {0} /\ limit # 0 /\ "list" \in Operation
    BY LimitsAssumption DEF Operation
  <2>3. /\ Enter(c, "list", walk[c].tx, limit)
        /\ UNCHANGED <<conversation, message, walk>>
    BY <1>4 DEF ListMore
  <2>4. QED  BY <2>1, <2>2, <2>3, EnterCoherent
<1>5. QED
  BY <1>1, <1>2, <1>3, <1>4, ReadersAssumption DEF MessagingNext, ReaderStep

-----------------------------------------------------------------------------
(***************************************************************************)
(* AlwaysCoherent: whatever the number of clients, transactions and        *)
(* messages, the variables keep their types and Coherent is an invariant:  *)
(* the awaits of MessageService leave every handler with the conversation  *)
(* of its own transaction and every walk with its cursor.                  *)
(***************************************************************************)
THEOREM AlwaysCoherent == MessagingSpec => [](MessagingTypeOK /\ Coherent)
<1>1. MessagingInit => MessagingTypeOK /\ Coherent  BY TypeInit, CoherentInit
<1>2. MessagingTypeOK /\ Coherent /\ [MessagingNext]_messagingVars
        => (MessagingTypeOK /\ Coherent)'
  BY TypeStep, CoherentStep DEF Listing, Coherent
<1>3. QED  BY <1>1, <1>2, PTL DEF MessagingSpec

(***************************************************************************)
(* MessagingTypeCorrect: rows, handlers and walks keep their types, so that *)
(* a cursor is always a number a message can have had (MessageService).    *)
(***************************************************************************)
THEOREM MessagingTypeCorrect == MessagingSpec => []MessagingTypeOK
<1>1. QED  BY AlwaysCoherent, PTL

(***************************************************************************)
(* OneConversationAlways: a transaction never has two conversations, for   *)
(* any number of clients that make it at once (getOrCreateConversation).   *)
(***************************************************************************)
THEOREM OneConversationAlways == MessagingSpec => []OneConversation
<1>1. Coherent => OneConversation  BY DEF Coherent
<1>2. QED  BY <1>1, AlwaysCoherent, PTL

LEMMA CoherentMembers ==
  ASSUME Coherent  PROVE MembersOnly
<1> SUFFICES ASSUME NEW c \in Clients, Walked(c), NEW m \in Seen(walk[c])
             PROVE  /\ Belongs(m, walk[c].tx)
                    /\ {c, m.from} \subseteq Members[walk[c].tx]
  BY DEF MembersOnly
<1>1. c \in Members[walk[c].tx] /\ Belongs(m, walk[c].tx) /\ m \in message
  BY DEF Coherent, OnTrack
<1>2. PICK v \in conversation : v.id = m.conversation /\ v.tx = walk[c].tx
  BY <1>1 DEF Belongs
<1>3. PICK u \in conversation : u.id = m.conversation /\ m.from \in Members[u.tx]
  BY <1>1 DEF Coherent, Authored
<1>4. u = v  BY <1>2, <1>3 DEF Coherent, Keyed
<1>5. QED  BY <1>1, <1>2, <1>3, <1>4

(***************************************************************************)
(* OnlyForMembers: no page ever holds a message of another transaction, or *)
(* goes to a client who has no part in it (assertCanAccessTransaction      *)
(* before listMessages and sendMessage).                                   *)
(***************************************************************************)
THEOREM OnlyForMembers == MessagingSpec => []MembersOnly
<1>1. QED  BY AlwaysCoherent, CoherentMembers, PTL

(***************************************************************************)
(* PagesAlwaysFollow: pages never repeat or reorder a message, for any page *)
(* sizes and however messages arrive between them (listMessages).          *)
(***************************************************************************)
THEOREM PagesAlwaysFollow == MessagingSpec => []PagesFollow
<1>1. Coherent => PagesFollow  BY DEF Coherent
<1>2. QED  BY <1>1, AlwaysCoherent, PTL

(***************************************************************************)
(* PagesAlwaysComplete: a walk that has ended has given all there was when *)
(* it began, for any number of messages and pages (listMessages).          *)
(***************************************************************************)
THEOREM PagesAlwaysComplete == MessagingSpec => []PagesAreComplete
<1>1. Coherent => PagesAreComplete  BY DEF Coherent
<1>2. QED  BY <1>1, AlwaysCoherent, PTL
=============================================================================
