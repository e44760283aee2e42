------------------------------- MODULE Messaging -------------------------------
(***************************************************************************)
(* MessageService: the conversation of a transaction, made by whoever      *)
(* needs it first, messages sent to it, and its pages, newest first, which *)
(* a client follows from cursor to cursor while others go on sending.      *)
(*                                                                         *)
(* A client has one call in flight; each `await` is a step.  The access    *)
(* check reads only columns that never change and is part of the receipt   *)
(* of the call.  What the sanitizer does to the text is left out, but for  *)
(* the message of which nothing is left.                                   *)
(***************************************************************************)
EXTENDS Naturals, FiniteSets

CONSTANTS
  Transactions,    \* ids of the transactions
  Clients,         \* the sessions of users
  Members,         \* Members[t]: the clients that are the sender or the
                   \* traveler of t, or an ADMIN
  Readers,         \* those of the clients that ask for pages in this instance
  Conversations,   \* ids that conversations may get
  Ids,             \* ids that messages may get; uuids are ordered, and random
  Limits,          \* page sizes clients ask for
  Horizon,         \* the last moment of the clock
  Faults           \* whether an awaited call may reject, or the process die

ASSUME MembersAssumption == Members \in [Transactions -> SUBSET Clients]
ASSUME ReadersAssumption == Readers \subseteq Clients
ASSUME IdsAssumption == Ids \subseteq Nat
ASSUME LimitsAssumption == Limits \subseteq Nat \ {0}
ASSUME ClockAssumption == Horizon \in Nat

VARIABLES
  now,            \* the clock, in units of createdAt
  conversation,   \* the rows of Conversation
  message,        \* the rows of Message
  call,           \* call[c]: where the call of client c is
  walk            \* walk[c]: the pages client c has been given, and its cursor

messagingVars == <<now, conversation, message, call, walk>>

ConversationRow == [id : Conversations, tx : Transactions]

MessageRow ==
  [id : Ids, conversation : Conversations, from : Clients, at : 0 .. Horizon]

Idle == [at |-> "idle"]

Operation == {"send", "list"}

\* Points of a handler between two awaits, named for the await that is next;
\* limit is 0 where no page is asked for.
Call ==
  [at : {"find", "insert"}, op : Operation, tx : Transactions,
   limit : Limits \cup {0}]
  \cup [at : Operation, tx : Transactions, limit : Limits \cup {0},
        conversation : Conversations]
  \cup [at : {"store"}, message : MessageRow]

(***************************************************************************)
(* What a client knows of its pages.  page: the last one; earlier: those   *)
(* before it; cursor: the message whose id is nextCursor, none at the      *)
(* first page and after the last.  start is history: the messages there    *)
(* were when the first page was read.                                      *)
(***************************************************************************)
Walk ==
  [state : {"new", "more", "end"}, tx : Transactions,
   start : SUBSET MessageRow, earlier : SUBSET MessageRow,
   page : SUBSET MessageRow, cursor : SUBSET MessageRow]

NoWalk == [state |-> "none"]

MessagingTypeOK ==
  /\ now \in 0 .. Horizon
  /\ conversation \subseteq ConversationRow
  /\ message \subseteq MessageRow
  /\ call \in [Clients -> Call \cup {Idle}]
  /\ walk \in [Clients -> Walk \cup {NoWalk}]

MessagingInit ==
  /\ now = 0
  /\ conversation = {}
  /\ message = {}
  /\ call = [c \in Clients |-> Idle]
  /\ walk = [c \in Clients |-> NoWalk]

At(c, point) == call[c].at = point

Goto(c, k) == call' = [call EXCEPT ![c] = k]

Return(c) == Goto(c, Idle)

-----------------------------------------------------------------------------
(* MessageService.getOrCreateConversation                                  *)
(* An upsert that updates nothing is a SELECT and, if need be, an INSERT.  *)

Enter(c, op, t, limit) ==
  /\ call[c] = Idle
  /\ c \in Members[t]
  /\ Goto(c, [at |-> "find", op |-> op, tx |-> t, limit |-> limit])

\* Mutant: the id of the transaction is taken for that of the conversation.
WithTransaction(c, v) ==
  Goto(c, [at |-> call[c].op, tx |-> call[c].tx, limit |-> call[c].limit,
           conversation |-> call[c].tx])

With(c, v) ==
  Goto(c, [at |-> call[c].op, tx |-> call[c].tx, limit |-> call[c].limit,
           conversation |-> v])

\* Mutant: any conversation will do.
AnyConversation(t) == conversation

ConversationOf(t) == {v \in conversation : v.tx = t}

FindConversation(c) ==
  LET found == ConversationOf(call[c].tx)
  IN  /\ At(c, "find")
      /\ \/ \E v \in found : With(c, v.id)
         \/ found = {} /\ Goto(c, [call[c] EXCEPT !.at = "insert"])
      /\ UNCHANGED <<now, conversation, message, walk>>

\* Mutant: transactionId has an index that is not unique.
NotUnique(t) == TRUE

\* transactionId is @unique in Conversation.
FirstConversation(t) == \A v \in conversation : v.tx # t

InsertConversation(c, i) ==
  LET t == call[c].tx
  IN  /\ At(c, "insert")
      /\ FirstConversation(t)
      /\ \A v \in conversation : v.id # i
      /\ conversation' = conversation \cup {[id |-> i, tx |-> t]}
      /\ With(c, i)
      /\ UNCHANGED <<now, message, walk>>

InsertConflict(c) ==
  /\ At(c, "insert")
  /\ ~FirstConversation(call[c].tx)
  /\ Return(c)
  /\ UNCHANGED <<now, conversation, message, walk>>

-----------------------------------------------------------------------------
(* MessageService.sendMessage *)

SendMessage(c, t) ==
  /\ Enter(c, "send", t, 0)
  /\ UNCHANGED <<now, conversation, message, walk>>

\* Nothing is left of the text: the conversation has been made all the same.
RejectMessage(c) ==
  /\ At(c, "send")
  /\ Return(c)
  /\ UNCHANGED <<now, conversation, message, walk>>

\* The bound on messages: a new one needs an id nobody has.
Unused(i) ==
  /\ \A m \in message : m.id # i
  /\ \A d \in Clients : At(d, "store") => call[d].message.id # i

\* createdAt is taken before the row is there for others to see.
StampMessage(c, i) ==
  /\ At(c, "send")
  /\ Unused(i)
  /\ Goto(c, [at |-> "store",
              message |-> [id |-> i, conversation |-> call[c].conversation,
                           from |-> c, at |-> now]])
  /\ UNCHANGED <<now, conversation, message, walk>>

StoreMessage(c) ==
  /\ At(c, "store")
  /\ message' = message \cup {call[c].message}
  /\ Return(c)
  /\ UNCHANGED <<now, conversation, walk>>

-----------------------------------------------------------------------------
(* MessageService.listMessages *)

\* Mutant: orderBy createdAt alone.
LaterOnly(m, n) == m.at > n.at

\* orderBy createdAt desc, id desc.
Newer(m, n) == m.at > n.at \/ (m.at = n.at /\ m.id > n.id)

\* Mutant: cursor without skip.
FromCursor(m, cursor) == \A k \in cursor : Newer(k, m) \/ m = k

\* cursor, skip 1: what comes after the cursor in that order.
PastCursor(m, cursor) == \A k \in cursor : Newer(k, m)

\* take: the newest ones, as many as asked for.
IsPage(page, rows, limit) ==
  /\ \A m \in page, n \in rows \ page : Newer(m, n)
  /\ page = rows \/ Cardinality(page) = limit
  /\ Cardinality(page) <= limit

Oldest(page) == {m \in page : \A n \in page : n = m \/ Newer(n, m)}

\* Mutant: no cursor after a full page.
NoCursor(page, limit) == {}

NextCursor(page, limit) ==
  IF Cardinality(page) = limit THEN Oldest(page) ELSE {}

\* The first page of a client: no cursor.
ListMessages(c, t, limit) ==
  /\ Enter(c, "list", t, limit)
  /\ walk' = [walk EXCEPT ![c] = [state |-> "new", tx |-> t, start |-> {},
                                  earlier |-> {}, page |-> {}, cursor |-> {}]]
  /\ UNCHANGED <<now, conversation, message>>

\* A client that was given a cursor asks for the page after it, again if it
\* got no answer.
ListMore(c, limit) ==
  /\ walk[c].state = "more"
  /\ Enter(c, "list", walk[c].tx, limit)
  /\ UNCHANGED <<now, conversation, message, walk>>

Given(w, all, page, cursor) ==
  [w EXCEPT !.state = IF cursor = {} THEN "end" ELSE "more",
            !.start = IF w.state = "new" THEN all ELSE @,
            !.earlier = @ \cup w.page,
            !.page = page,
            !.cursor = cursor]

ReadPage(c) ==
  LET all  == {m \in message : m.conversation = call[c].conversation}
      rows == {m \in all : PastCursor(m, walk[c].cursor)}
  IN  /\ At(c, "list")
      /\ \E page \in SUBSET rows :
           /\ IsPage(page, rows, call[c].limit)
           /\ walk' = [walk EXCEPT ![c] =
                        Given(@, all, page, NextCursor(page, call[c].limit))]
      /\ Return(c)
      /\ UNCHANGED <<now, conversation, message>>

-----------------------------------------------------------------------------
Interrupted(c) ==
  /\ Faults
  /\ call[c] # Idle
  /\ Return(c)
  /\ UNCHANGED <<now, conversation, message, walk>>

Tick ==
  /\ now < Horizon
  /\ now' = now + 1
  /\ UNCHANGED <<conversation, message, call, walk>>

MessagingStep(c) ==
  \/ FindConversation(c)
  \/ \E i \in Conversations : InsertConversation(c, i)
  \/ InsertConflict(c)
  \/ RejectMessage(c) \/ \E i \in Ids : StampMessage(c, i)
  \/ StoreMessage(c)
  \/ ReadPage(c)
  \/ Interrupted(c)
  \/ \E t \in Transactions : SendMessage(c, t)

ReaderStep(c) ==
  \/ \E t \in Transactions, limit \in Limits : ListMessages(c, t, limit)
  \/ \E limit \in Limits : ListMore(c, limit)

MessagingNext ==
  \/ Tick
  \/ \E c \in Clients : MessagingStep(c)
  \/ \E c \in Readers : ReaderStep(c)

MessagingSpec == MessagingInit /\ [][MessagingNext]_messagingVars

-----------------------------------------------------------------------------
(* Properties. *)

Seen(w) == w.earlier \cup w.page

Walked(c) == walk[c].state # "none"

Belongs(m, t) == \E v \in conversation : v.id = m.conversation /\ v.tx = t

(***************************************************************************)
(* OneConversation: a transaction has one conversation, however many       *)
(* clients send their first message or list at the same time               *)
(* (getOrCreateConversation).                                              *)
(***************************************************************************)
OneConversation == \A v, w \in conversation : v.tx = w.tx => v = w

(***************************************************************************)
(* MembersOnly: whatever a client has been given was sent in the           *)
(* transaction it asked for, by a member of it, and the client is one too. *)
(* Only the transaction is checked, not the conversation the message is    *)
(* stored under or looked for (sendMessage, listMessages).                 *)
(***************************************************************************)
MembersOnly ==
  \A c \in Clients : Walked(c) =>
    \A m \in Seen(walk[c]) :
      Belongs(m, walk[c].tx) /\ {c, m.from} \subseteq Members[walk[c].tx]

(***************************************************************************)
(* PagesFollow: every message of a page is older than all the messages of  *)
(* the pages before it, and so given only once, although messages are      *)
(* stored between two pages, some with a createdAt the walk is already     *)
(* past (cursor and skip of listMessages).                                 *)
(***************************************************************************)
PagesFollow ==
  \A c \in Clients : Walked(c) =>
    \A m \in walk[c].earlier, n \in walk[c].page : Newer(m, n)

(***************************************************************************)
(* PagesAreComplete: a client that has followed the cursors to the end has *)
(* been given every message there was when its first page was read,        *)
(* whatever was sent meanwhile and whichever of its calls were cut short   *)
(* (nextCursor of listMessages).                                           *)
(***************************************************************************)
PagesAreComplete ==
  \A c \in Clients : walk[c].state = "end" => walk[c].start \subseteq Seen(walk[c])

(***************************************************************************)
(* Coherent: what makes the properties above inductive.  Handlers hold the *)
(* conversation of their own transaction, no two messages share an id, and *)
(* the cursor of a client is the oldest message it has been given, with    *)
(* everything it still misses behind it.                                   *)
(***************************************************************************)
Keyed ==
  /\ \A v, w \in conversation : v.id = w.id => v = w
  /\ \A m, n \in message : m.id = n.id => m = n
  /\ \A c \in Clients : At(c, "store") =>
       /\ \A m \in message : m.id # call[c].message.id
       /\ \A d \in Clients :
            At(d, "store") /\ call[d].message.id = call[c].message.id => c = d

Authored(m) ==
  \E v \in conversation : v.id = m.conversation /\ m.from \in Members[v.tx]

Entitled(c) ==
  /\ call[c].at \in {"find", "insert", "send", "list"}
       => c \in Members[call[c].tx]
  /\ call[c].at \in Operation => Belongs(call[c], call[c].tx)
  /\ At(c, "store") => Authored(call[c].message)
  /\ At(c, "list") \/ (call[c].at \in {"find", "insert"} /\ call[c].op = "list")
       => /\ walk[c].state \in {"new", "more"} /\ walk[c].tx = call[c].tx
          /\ call[c].limit # 0

OnTrack(w) ==
  /\ w.start \cup Seen(w) \subseteq message
  /\ \A m \in w.start \cup Seen(w) : Belongs(m, w.tx)
  /\ w.state = "new" => Seen(w) = {} /\ w.cursor = {}
  /\ w.state = "more" =>
       \E k \in w.page :
         /\ w.cursor = {k}
         /\ \A m \in Seen(w) : m = k \/ Newer(m, k)
         /\ \A m \in w.start : m \in Seen(w) \/ Newer(k, m)

Coherent ==
  /\ OneConversation
  /\ Keyed
  /\ \A m \in message : Authored(m)
  /\ \A c \in Clients : Entitled(c)
  /\ \A c \in Clients : Walked(c) =>
       c \in Members[walk[c].tx] /\ OnTrack(walk[c])
  /\ PagesFollow
  /\ PagesAreComplete
=============================================================================
