------------------------------ MODULE PartsProofs ------------------------------
(***************************************************************************)
(* Proofs about four components of MCParts, for any values of their        *)
(* bounds.  The first part: a message of GenerativeChat has the reply that *)
(* belongs to it, as long as no key came back while something of its last  *)
(* holder was left, and the chat shows its session's messages, as long as  *)
(* no answer went astray either.  The second: the folders, the tables and  *)
(* the page of DatasetsPage agree, as long as no dataset went while it was *)
(* loaded and no list reached the page late.  The third: what the socket   *)
(* of LiveMetrics has sent, and the one row of each step.  The fourth:     *)
(* which rows of a dataset Splits gives to what.                           *)
(***************************************************************************)
EXTENDS DatasetsPage, GenerativeChat, LiveMetrics, Splits, DataFacts, FiniteSetTheorems

ChatStatuses == PendingStatuses \cup {"finished", "error"}
MessageNumbers == 0..MaxMessages
Message == [chat : 0..MaxChats, made : MessageNumbers, status : ChatStatuses \cup {"absent"}, turn : Nat]
Reply == [made : MessageNumbers, seen : SUBSET MessageNumbers]
Shown == [id : MessageIds, made : MessageNumbers, status : ChatStatuses, answered : BOOLEAN]
Send == [id : MessageIds, made : MessageNumbers, chat : 1..MaxChats, step : {"posted", "enqueue"},
         live : BOOLEAN]
Drop == [id : MessageIds, step : {"asked", "done"}, live : BOOLEAN]
Fetched == [chat : 1..MaxChats, rows : SUBSET Shown, late : BOOLEAN]

\* A session whose deletion is under way is not the one that is open.
ChatsTyped ==
  /\ chats \subseteq 1..MaxChats /\ removing \subseteq chats
  /\ openChat \in (chats \ removing) \cup {0}

\* A key is not larger than the number of messages sent.
MessagesTyped ==
  /\ message \in [MessageIds -> Message] /\ replies \in [MessageIds -> Seq(Reply)]
  /\ \A p \in MessageIds : Sent(p) =>
       message[p].chat \in chats /\ message[p].status # "absent" /\ p <= tally.sent

\* Each message that was sent is enqueued once at most.
SendsTyped ==
  /\ tally \in [events : Nat, sent : MessageNumbers, turns : Nat]
  /\ sends \subseteq Send /\ IsFiniteSet(sends)
  /\ tally.turns + Cardinality(sends) <= tally.sent

WriterTyped ==
  /\ chatJobs \in Seq(MessageIds)
  /\ writer = noReply \/ writer \in [id : MessageIds, made : MessageNumbers, seen : SUBSET MessageNumbers,
                                     step : {"started", "replying", "replied"}]

ViewTyped ==
  /\ shownChat \subseteq Shown /\ polls \subseteq Shown /\ fetches \in Seq(Fetched)
  /\ drops \subseteq Drop
  /\ sending \in BOOLEAN /\ confused \in BOOLEAN /\ astray \in BOOLEAN

ChatTyped == ChatsTyped /\ MessagesTyped /\ SendsTyped /\ WriterTyped /\ ViewTyped

-----------------------------------------------------------------------------
\* What the constants of GenerativeChat are.
LEMMA ChatBounds ==
  /\ MaxChats \in Nat \ {0} /\ MaxMessages \in Nat \ {0} /\ MaxEvents \in Nat \ {0}
  /\ MaxFetches \in Nat \ {0} /\ MaxPolls \in Nat \ {0}
  BY GenerativeChatAssumption

\* The next key is free, and at most one more than the number of messages sent.
LEMMA NextMessageBound ==
  ASSUME MessagesTyped, SendsTyped
  PROVE  /\ NextMessage \in 1..(tally.sent + 1)
         /\ NextMessage \in MessageIds => ~Sent(NextMessage)
<1> DEFINE S == {0} \cup {p \in MessageIds : Sent(p)}
<1>1. tally.sent \in Nat /\ S \in SUBSET (0..tally.sent) /\ S # {}
  BY ChatBounds DEF MessagesTyped, SendsTyped, MessageIds, MessageNumbers
<1>2. Max(S) \in S /\ \A y \in S : y <= Max(S)
  <2> HIDE DEF S
  <2> QED
    BY <1>1, MaxIsMax
<1>3. NextMessage = 1 + Max(S)
  BY DEF NextMessage
<1>4. Max(S) \in 0..tally.sent
  BY <1>1, <1>2
<1>5. ~(1 + Max(S) \in S)
  <2> HIDE DEF S
  <2> QED
    BY <1>1, <1>2, <1>4
<1>6. NextMessage \in 1..(tally.sent + 1)
  <2> HIDE DEF S
  <2> QED
    BY <1>1, <1>3, <1>4
<1>7. ~(NextMessage \in S)
  <2> HIDE DEF S
  <2> QED
    BY <1>3, <1>5
<1> QED
  BY <1>6, <1>7

\* The next key of a session is not one of a session there is.
LEMMA NextChatIsNew ==
  ASSUME ChatsTyped
  PROVE  1 + Max({0} \cup chats) \in (Nat \ {0}) \ chats
<1> DEFINE S == {0} \cup chats
<1>1. MaxChats \in Nat /\ S \in SUBSET (0..MaxChats) /\ S # {}
  BY ChatBounds DEF ChatsTyped
<1> HIDE DEF S
<1>2. Max(S) \in S /\ \A y \in S : y <= Max(S)
  BY <1>1, MaxIsMax
<1>3. Max(S) \in 0..MaxChats
  BY <1>1, <1>2
<1>4. 1 + Max(S) \in Nat \ {0} /\ ~(1 + Max(S) \in S)
  BY <1>1, <1>2, <1>3
<1> QED
  BY <1>4 DEF S

\* What the API tells of a message has the shape of what the chat shows.
LEMMA AnswersTyped ==
  ASSUME MessagesTyped, NEW p \in MessageIds, Sent(p)
  PROVE  /\ AnswerOf(p) \in Shown /\ AnswerOf(p).id = p /\ AnswerOf(p).made = message[p].made
         /\ AnswerOf(p).status = message[p].status /\ AnswerOf(p).answered = (replies[p] # <<>>)
  BY DEF MessagesTyped, AnswerOf, Shown, Message

\* So have those to a whole chat.
LEMMA FetchTyped ==
  ASSUME ChatTyped, NEW s \in 1..MaxChats, Fetch(s)
  PROVE  fetches' \in Seq(Fetched)
<1> DEFINE rows == {AnswerOf(p) : p \in MessagesOf(s)}
<1>1. \A p \in MessagesOf(s) : p \in MessageIds /\ Sent(p)
  BY DEF MessagesOf, Sent, noMessage
<1>2. rows \subseteq Shown
  BY <1>1, AnswersTyped DEF ChatTyped
<1>3. [chat |-> s, rows |-> rows, late |-> FALSE] \in Fetched
  <2> HIDE DEF rows
  <2> QED
    BY <1>2 DEF Fetched
<1>4. fetches' = Append(fetches, [chat |-> s, rows |-> rows, late |-> FALSE])
  BY DEF Fetch
<1> HIDE DEF rows
<1> QED
  BY <1>3, <1>4, AtTheEnd DEF ChatTyped, ViewTyped

\* The sends of a chat that is left go on without it, and are not more.
LEMMA SendsLeft ==
  ASSUME SendsTyped, sends' = {[d EXCEPT !.live = FALSE] : d \in sends}, UNCHANGED tally.turns,
         UNCHANGED tally.sent, tally' \in [events : Nat, sent : MessageNumbers, turns : Nat]
  PROVE  SendsTyped'
<1> DEFINE f == [d \in sends |-> [d EXCEPT !.live = FALSE]]
<1>1. f \in Surjection(sends, sends')
  BY DEF Surjection
<1>2. IsFiniteSet(sends') /\ Cardinality(sends') <= Cardinality(sends)
  BY <1>1, FS_Surjection DEF SendsTyped
<1>3. Cardinality(sends) \in Nat /\ Cardinality(sends') \in Nat
  BY <1>2, FS_CardinalityType DEF SendsTyped
<1>4. sends' \subseteq Send
  BY DEF SendsTyped, Send
<1>5. tally.sent \in Nat /\ tally.turns \in Nat
  BY DEF SendsTyped, MessageNumbers
<1> QED
  BY <1>2, <1>3, <1>4, <1>5 DEF SendsTyped

\* The chat is unmounted.
LEMMA UnmountTyped ==
  ASSUME ViewTyped, Unmount, UNCHANGED confused, astray' \in BOOLEAN
  PROVE  ViewTyped'
<1> DEFINE left == {e \in drops : e.step = "asked"} \cup {a \in polls : a.status = "error"}
<1>1. \A d \in left : d.id \in MessageIds
  BY DEF ViewTyped, Shown, Drop
<1>2. drops' = {[id |-> d.id, step |-> "asked", live |-> FALSE] : d \in left}
  BY DEF Unmount
<1>3. drops' \subseteq Drop
  <2> HIDE DEF left
  <2>1. \A d \in left : [id |-> d.id, step |-> "asked", live |-> FALSE] \in Drop
    BY <1>1 DEF Drop
  <2> QED
    BY <1>2, <2>1
<1>4. <<>> \in Seq(Fetched)
  OBVIOUS
<1> QED
  BY <1>3, <1>4 DEF ViewTyped, Unmount

\* Rows are changed, and none is added.
LEMMA RowsChangeTyped ==
  ASSUME MessagesTyped, UNCHANGED <<chats, tally>>,
         message' \in [MessageIds -> Message], replies' \in [MessageIds -> Seq(Reply)],
         \A p \in MessageIds : message'[p] = noMessage \/
           (Sent(p) /\ message'[p].chat = message[p].chat /\ message'[p].status # "absent")
  PROVE  MessagesTyped'
  BY DEF MessagesTyped, Sent

\* Rows are removed.
LEMMA WithoutMessagesTyped ==
  ASSUME MessagesTyped, NEW gone, WithoutMessages(gone), UNCHANGED tally,
         \A p \in MessageIds : Sent(p) /\ p \notin gone => message[p].chat \in chats'
  PROVE  MessagesTyped'
<1>1. noMessage \in Message
  BY ChatBounds DEF noMessage, Message, MessageNumbers
<1>2. message' \in [MessageIds -> Message] /\ replies' \in [MessageIds -> Seq(Reply)]
  BY <1>1 DEF MessagesTyped, WithoutMessages
<1>3. \A p \in MessageIds : Sent(p)' => p \notin gone /\ Sent(p) /\ message'[p] = message[p]
  BY DEF WithoutMessages, Sent
<1> QED
  BY <1>2, <1>3 DEF MessagesTyped

\* A message is another's turn, or is gone on with.
LEMMA StatusTyped ==
  ASSUME MessagesTyped, NEW p \in MessageIds, Sent(p), NEW status \in ChatStatuses,
         message' = [message EXCEPT ![p].status = status], UNCHANGED <<chats, replies, tally>>
  PROVE  MessagesTyped'
<1> DEFINE row == [message[p] EXCEPT !.status = status]
<1>1. row \in Message /\ row.chat = message[p].chat /\ row.status = status
  BY DEF MessagesTyped, Message
<1>2. message' = [message EXCEPT ![p] = row]
  OBVIOUS
<1>3. status # "absent"
  BY DEF ChatStatuses, PendingStatuses
<1> HIDE DEF row
<1>4. message' \in [MessageIds -> Message]
  BY <1>1, <1>2 DEF MessagesTyped
<1>5. \A q \in MessageIds : message'[q] = IF q = p THEN row ELSE message[q]
  BY <1>2 DEF MessagesTyped
<1>6. \A q \in MessageIds : message'[q] = noMessage \/
           (Sent(q) /\ message'[q].chat = message[q].chat /\ message'[q].status # "absent")
  BY <1>1, <1>3, <1>5 DEF MessagesTyped, Sent
<1> QED
  BY <1>4, <1>6, RowsChangeTyped DEF MessagesTyped

\* In the initial state there is one session, and it is empty.
LEMMA ChatTypedInit == GenerativeChatInit => ChatTyped
<1> SUFFICES ASSUME GenerativeChatInit  PROVE ChatTyped
  OBVIOUS
<1>1. ChatsTyped
  BY ChatBounds DEF GenerativeChatInit, ChatsTyped
<1>2. noMessage \in Message
  BY ChatBounds DEF noMessage, Message, MessageNumbers
<1>3. MessagesTyped
  BY <1>2 DEF GenerativeChatInit, MessagesTyped, Sent
<1>4. SendsTyped
  BY ChatBounds, FS_EmptySet DEF GenerativeChatInit, SendsTyped, MessageNumbers
<1>5. WriterTyped
  BY DEF GenerativeChatInit, WriterTyped
<1>6. ViewTyped
  <2>1. <<>> \in Seq(Fetched)
    OBVIOUS
  <2> QED
    BY <2>1 DEF GenerativeChatInit, ViewTyped
<1> QED
  BY <1>1, <1>3, <1>4, <1>5, <1>6 DEF ChatTyped

\* The page's own steps keep the types.
LEMMA TypedChoose ==
  ASSUME ChatTyped, NEW s \in 1..MaxChats, ChooseChat(s)
  PROVE  ChatTyped'
<1>1. ChatsTyped'
  BY DEF ChatTyped, ChatsTyped, ChooseChat, chatTables
<1>2. tally' = tally \/ tally' = [tally EXCEPT !.events = @ + 1]
  BY DEF ChooseChat, Event
<1>3. SendsTyped'
  BY <1>2 DEF ChatTyped, SendsTyped, ChooseChat, chatTables
<1>4. MessagesTyped'
  BY <1>2 DEF ChatTyped, SendsTyped, MessagesTyped, ChooseChat, chatTables, Sent
<1>5. WriterTyped'
  BY DEF ChatTyped, WriterTyped, ChooseChat, chatQueue
<1>6. ViewTyped'
  BY FetchTyped DEF ChatTyped, ViewTyped, ChooseChat
<1> QED
  BY <1>1, <1>3, <1>4, <1>5, <1>6 DEF ChatTyped

\* So does a new session.
LEMMA TypedNewChat ==
  ASSUME ChatTyped, NewChat
  PROVE  ChatTyped'
<1> DEFINE s == 1 + Max({0} \cup chats)
<1>0. s \in (1..MaxChats) \ chats /\ chats' = chats \cup {s} /\ openChat' = s /\ Fetch(s)
      /\ UNCHANGED <<message, replies, chatQueue, shownChat, sending, sends, polls, drops,
                     removing, confused, astray, tally>>
  BY NextChatIsNew, ChatBounds DEF ChatTyped, NewChat
<1> HIDE DEF s
<1>1. ChatsTyped'
  BY <1>0 DEF ChatTyped, ChatsTyped
<1>3. SendsTyped'
  BY <1>0 DEF ChatTyped, SendsTyped
<1>4. MessagesTyped'
  BY <1>0 DEF ChatTyped, MessagesTyped, Sent
<1>5. WriterTyped'
  BY <1>0 DEF ChatTyped, WriterTyped, chatQueue
<1>6. ViewTyped'
  BY <1>0, FetchTyped DEF ChatTyped, ViewTyped
<1> QED
  BY <1>1, <1>3, <1>4, <1>5, <1>6 DEF ChatTyped

\* So does a change of parameters.
LEMMA TypedUpdate ==
  ASSUME ChatTyped, UpdateParameters
  PROVE  ChatTyped'
<1>1. ChatsTyped'
  BY DEF ChatTyped, ChatsTyped, UpdateParameters, chatTables, chatView
<1>3. SendsTyped'
  BY DEF ChatTyped, SendsTyped, UpdateParameters, Event
<1>4. MessagesTyped'
  BY DEF ChatTyped, SendsTyped, MessagesTyped, UpdateParameters, Event, chatTables, Sent
<1>5. WriterTyped'
  BY DEF ChatTyped, WriterTyped, UpdateParameters, chatQueue
<1>6. ViewTyped'
  <2>1. openChat \in 1..MaxChats
    BY ChatBounds DEF UpdateParameters, ChatTyped, ChatsTyped
  <2> QED
    BY <2>1, FetchTyped DEF ChatTyped, ViewTyped, UpdateParameters, chatView
<1> QED
  BY <1>1, <1>3, <1>4, <1>5, <1>6 DEF ChatTyped

\* So does a chat that is left.
LEMMA TypedLeave ==
  ASSUME ChatTyped, LeaveChat
  PROVE  ChatTyped'
<1>1. ChatsTyped'
  BY DEF ChatTyped, ChatsTyped, LeaveChat, chatTables, Unmount
<1>3. SendsTyped'
  <2>1. /\ UNCHANGED tally.turns /\ UNCHANGED tally.sent
        /\ tally' \in [events : Nat, sent : MessageNumbers, turns : Nat]
    BY DEF ChatTyped, SendsTyped, LeaveChat, Event
  <2> QED
    BY <2>1, SendsLeft DEF ChatTyped, LeaveChat
<1>4. MessagesTyped'
  BY DEF ChatTyped, SendsTyped, MessagesTyped, LeaveChat, Event, chatTables, Sent
<1>5. WriterTyped'
  BY DEF ChatTyped, WriterTyped, LeaveChat, chatQueue
<1>6. ViewTyped'
  BY UnmountTyped DEF ChatTyped, ViewTyped, LeaveChat
<1> QED
  BY <1>1, <1>3, <1>4, <1>5, <1>6 DEF ChatTyped

\* So does a reload.
LEMMA TypedReload ==
  ASSUME ChatTyped, ReloadChats
  PROVE  ChatTyped'
<1>1. ChatsTyped'
  BY DEF ChatTyped, ChatsTyped, ReloadChats, chatTables, Unmount
<1>3. SendsTyped'
  <2>1. tally.turns <= tally.sent /\ tally.turns \in Nat
    BY FS_CardinalityType DEF ChatTyped, SendsTyped, MessageNumbers
  <2>2. sends' = {} /\ tally' = [tally EXCEPT !.events = @ + 1]
    BY DEF ReloadChats, Event
  <2>3. IsFiniteSet({}) /\ Cardinality({}) = 0
    BY FS_EmptySet
  <2>4. /\ tally' \in [events : Nat, sent : MessageNumbers, turns : Nat]
        /\ tally'.turns = tally.turns /\ tally'.sent = tally.sent
    BY <2>2 DEF ChatTyped, SendsTyped
  <2> QED
    BY <2>1, <2>2, <2>3, <2>4 DEF SendsTyped
<1>4. MessagesTyped'
  BY DEF ChatTyped, SendsTyped, MessagesTyped, ReloadChats, Event, chatTables, Sent
<1>5. WriterTyped'
  BY DEF ChatTyped, WriterTyped, ReloadChats, chatQueue
<1>6. ViewTyped'
  BY UnmountTyped DEF ChatTyped, ViewTyped, ReloadChats
<1> QED
  BY <1>1, <1>3, <1>4, <1>5, <1>6 DEF ChatTyped

\* So does a session's deletion, on the page and on the server.
LEMMA TypedDelete ==
  ASSUME ChatTyped, NEW s \in 1..MaxChats, DeleteChat(s)
  PROVE  ChatTyped'
<1>1. ChatsTyped'
  BY DEF ChatTyped, ChatsTyped, DeleteChat, chatTables, Unmount, chatView
<1>2. /\ UNCHANGED tally.turns /\ UNCHANGED tally.sent
      /\ tally' \in [events : Nat, sent : MessageNumbers, turns : Nat]
  BY DEF ChatTyped, SendsTyped, DeleteChat, Event
<1>3. SendsTyped'
  <2>1. CASE s = openChat
    BY <1>2, <2>1, SendsLeft DEF ChatTyped, DeleteChat
  <2>2. CASE s # openChat
    BY <1>2, <2>2 DEF ChatTyped, DeleteChat, SendsTyped
  <2> QED
    BY <2>1, <2>2
<1>4. MessagesTyped'
  BY <1>2 DEF ChatTyped, MessagesTyped, DeleteChat, chatTables, Sent
<1>5. WriterTyped'
  BY DEF ChatTyped, WriterTyped, DeleteChat, chatQueue
<1>6. ViewTyped'
  <2>1. CASE s = openChat
    BY <2>1, UnmountTyped DEF ChatTyped, ViewTyped, DeleteChat
  <2>2. CASE s # openChat
    BY <2>2 DEF ChatTyped, ViewTyped, DeleteChat, chatView
  <2> QED
    BY <2>1, <2>2
<1> QED
  BY <1>1, <1>3, <1>4, <1>5, <1>6 DEF ChatTyped

\* The server's part takes the messages of the session with it.
LEMMA TypedDeleted ==
  ASSUME ChatTyped, NEW s \in 1..MaxChats, ChatDeleted(s)
  PROVE  ChatTyped'
<1>1. ChatsTyped'
  BY DEF ChatTyped, ChatsTyped, ChatDeleted, chatView
<1>3. SendsTyped'
  BY DEF ChatTyped, SendsTyped, ChatDeleted
<1>4. MessagesTyped'
  <2>1. \A p \in MessageIds : Sent(p) /\ p \notin MessagesOf(s) => message[p].chat \in chats'
    BY DEF ChatTyped, MessagesTyped, MessagesOf, ChatDeleted
  <2> QED
    BY <2>1, WithoutMessagesTyped DEF ChatTyped, ChatDeleted
<1>5. WriterTyped'
  BY DEF ChatTyped, WriterTyped, ChatDeleted, chatQueue
<1>6. ViewTyped'
  BY DEF ChatTyped, ViewTyped, ChatDeleted, chatView
<1> QED
  BY <1>1, <1>3, <1>4, <1>5, <1>6 DEF ChatTyped

\* A fetch that arrives replaces what is shown.
LEMMA TypedFetch ==
  ASSUME ChatTyped, FetchArrives
  PROVE  ChatTyped'
<1>1. ChatsTyped' /\ SendsTyped'
  BY DEF ChatTyped, ChatsTyped, SendsTyped, FetchArrives, chatTables
<1>2. MessagesTyped'
  BY DEF ChatTyped, MessagesTyped, FetchArrives, chatTables, Sent
<1>3. WriterTyped'
  BY DEF ChatTyped, WriterTyped, FetchArrives, chatQueue
<1>4. ViewTyped'
  <2>1. PICK i \in DOMAIN fetches :
          /\ shownChat' = fetches[i].rows
          /\ fetches' = RemoveAt([j \in DOMAIN fetches |->
                                    [fetches[j] EXCEPT !.late = @ \/ j < i]], i)
          /\ astray' = (astray \/ fetches[i].late \/ fetches[i].chat # openChat)
    BY DEF FetchArrives
  <2> DEFINE marked == [j \in DOMAIN fetches |-> [fetches[j] EXCEPT !.late = @ \/ j < i]]
  <2>2. \A j \in DOMAIN fetches : fetches[j] \in Fetched
    BY ElementsOfSeq DEF ChatTyped, ViewTyped
  <2>3. \A j \in DOMAIN fetches : [fetches[j] EXCEPT !.late = @ \/ j < i] \in Fetched
    BY <2>2 DEF Fetched
  <2>4. marked \in Seq(Fetched) /\ DOMAIN marked = DOMAIN fetches
    BY <2>3 DEF ChatTyped, ViewTyped
  <2>5. fetches' \in Seq(Fetched)
    <3> HIDE DEF marked
    <3>1. fetches' = RemoveAt(marked, i)
      BY <2>1 DEF marked
    <3> QED
      BY <2>4, <3>1, Removed
  <2>6. shownChat' \subseteq Shown /\ astray' \in BOOLEAN
    BY <2>1, <2>2 DEF Fetched, ChatTyped, ViewTyped
  <2> QED
    BY <2>5, <2>6 DEF ChatTyped, ViewTyped, FetchArrives
<1> QED
  BY <1>1, <1>2, <1>3, <1>4 DEF ChatTyped

\* The POST of a message adds a row of the next key.
LEMMA SendIsNew ==
  ASSUME ChatTyped, SendMessage
  PROVE  /\ NextMessage \in MessageIds /\ ~Sent(NextMessage) /\ openChat \in chats
         /\ tally.sent + 1 \in MessageNumbers /\ tally.sent \in Nat
         /\ NextMessage <= tally.sent + 1
         /\ tally' = [tally EXCEPT !.sent = @ + 1] /\ tally'.sent = tally.sent + 1
         /\ message' = [message EXCEPT ![NextMessage] =
                          [chat |-> openChat, made |-> tally.sent + 1, status |-> "waiting",
                           turn |-> 0]]
         /\ sends' = sends \cup {[id |-> NextMessage, made |-> tally.sent + 1, chat |-> openChat,
                                  step |-> "posted", live |-> TRUE]}
<1>1. tally.sent \in Nat /\ tally.sent + 1 \in MessageNumbers /\ tally' = [tally EXCEPT !.sent = @ + 1]
      /\ tally'.sent = tally.sent + 1
  BY ChatBounds DEF ChatTyped, SendsTyped, SendMessage, MessageNumbers
<1>2. NextMessage \in MessageIds /\ ~Sent(NextMessage) /\ NextMessage <= tally.sent + 1
  BY <1>1, NextMessageBound, ChatBounds DEF ChatTyped, MessageIds, MessageNumbers
<1>3. openChat \in chats
  BY DEF ChatTyped, ChatsTyped, SendMessage
<1> QED
  BY <1>1, <1>2, <1>3 DEF SendMessage

\* So that the types are kept.
LEMMA TypedSend ==
  ASSUME ChatTyped, SendMessage
  PROVE  ChatTyped'
<1> DEFINE p == NextMessage
           row == [chat |-> openChat, made |-> tally.sent + 1, status |-> "waiting", turn |-> 0]
           d == [id |-> p, made |-> tally.sent + 1, chat |-> openChat, step |-> "posted",
                 live |-> TRUE]
<1>1. /\ p \in MessageIds /\ openChat \in chats /\ tally.sent + 1 \in MessageNumbers
      /\ tally.sent \in Nat /\ p <= tally.sent + 1 /\ tally'.sent = tally.sent + 1
      /\ tally' = [tally EXCEPT !.sent = @ + 1]
      /\ message' = [message EXCEPT ![p] = row] /\ sends' = sends \cup {d}
  BY SendIsNew
<1>2. openChat \in 1..MaxChats
  BY <1>1 DEF ChatTyped, ChatsTyped
<1>3. row \in Message /\ row.status # "absent" /\ row.chat = openChat
  BY <1>1, <1>2, ChatBounds DEF Message, ChatStatuses, PendingStatuses
<1>4. d \in Send
  BY <1>1, <1>2 DEF Send
<1> HIDE DEF p, row, d
<1>5. ChatsTyped'
  BY DEF ChatTyped, ChatsTyped, SendMessage
<1>6. SendsTyped'
  <2>0. IsFiniteSet(sends) /\ Cardinality(sends) \in Nat
    BY FS_CardinalityType DEF ChatTyped, SendsTyped
  <2>1. IsFiniteSet(sends') /\ Cardinality(sends') <= Cardinality(sends) + 1
    <3>1. /\ IsFiniteSet(sends \cup {d})
          /\ Cardinality(sends \cup {d}) = IF d \in sends THEN Cardinality(sends)
                                            ELSE Cardinality(sends) + 1
      BY <2>0, FS_AddElement
    <3>2. sends' = sends \cup {d}
      BY <1>1
    <3> QED
      BY <2>0, <3>1, <3>2
  <2>2. tally' \in [events : Nat, sent : MessageNumbers, turns : Nat] /\ tally'.turns = tally.turns
        /\ tally.turns \in Nat
    BY <1>1 DEF ChatTyped, SendsTyped
  <2>3. tally'.turns + Cardinality(sends') <= tally'.sent
    <3>1. Cardinality(sends') \in Nat /\ tally.turns + Cardinality(sends) <= tally.sent
      BY <2>1, FS_CardinalityType DEF ChatTyped, SendsTyped
    <3> QED
      BY <1>1, <2>0, <2>1, <2>2, <3>1
  <2> QED
    BY <1>1, <1>4, <2>1, <2>2, <2>3 DEF ChatTyped, SendsTyped
<1>7. MessagesTyped'
  <2>1. message' \in [MessageIds -> Message] /\ replies' \in [MessageIds -> Seq(Reply)]
    <3>1. message \in [MessageIds -> Message] /\ replies \in [MessageIds -> Seq(Reply)]
      BY DEF ChatTyped, MessagesTyped
    <3>2. replies' = replies
      BY DEF SendMessage
    <3> QED
      BY <1>1, <1>3, <3>1, <3>2
  <2>2. ASSUME NEW q \in MessageIds, Sent(q)'
        PROVE  message'[q].chat \in chats' /\ message'[q].status # "absent" /\ q <= tally'.sent
    <3>1. CASE q = p
      BY <1>1, <1>3, <3>1 DEF ChatTyped, MessagesTyped, SendMessage
    <3>2. CASE q # p
      <4>1. message'[q] = message[q]
        BY <1>1, <3>2 DEF ChatTyped, MessagesTyped
      <4>2. Sent(q)
        BY <2>2, <4>1 DEF Sent
      <4>3. q <= tally.sent /\ q \in Nat /\ message[q].chat \in chats
            /\ message[q].status # "absent"
        BY <4>2 DEF ChatTyped, MessagesTyped, MessageIds
      <4> QED
        BY <1>1, <4>1, <4>3 DEF SendMessage
    <3> QED
      BY <3>1, <3>2
  <2> QED
    BY <2>1, <2>2 DEF MessagesTyped
<1>8. WriterTyped'
  BY DEF ChatTyped, WriterTyped, SendMessage, chatQueue
<1>9. ViewTyped'
  <2>1. confused' \in BOOLEAN
    <3>1. \E q : confused' = (confused \/ Remains(q))
      BY DEF SendMessage
    <3> QED
      BY <3>1 DEF Remains, ChatTyped, ViewTyped
  <2> QED
    BY <2>1 DEF ChatTyped, ViewTyped, SendMessage
<1> QED
  BY <1>5, <1>6, <1>7, <1>8, <1>9 DEF ChatTyped

\* One send goes on: they are not more.
LEMMA SendsGoOn ==
  ASSUME SendsTyped, NEW d \in sends, NEW e, sends' = (sends \ {d}) \cup {e}
  PROVE  IsFiniteSet(sends') /\ Cardinality(sends') <= Cardinality(sends)
         /\ Cardinality(sends) \in Nat /\ Cardinality(sends') \in Nat
<1> DEFINE rest == sends \ {d}
<1>1. IsFiniteSet(rest) /\ Cardinality(rest) = Cardinality(sends) - 1
      /\ Cardinality(sends) \in Nat
  BY FS_RemoveElement, FS_CardinalityType DEF SendsTyped
<1> HIDE DEF rest
<1>2. sends' = rest \cup {e}
  BY DEF rest
<1>3. IsFiniteSet(sends') /\ Cardinality(sends') <= Cardinality(rest) + 1
  BY <1>1, <1>2, FS_AddElement
<1> QED
  BY <1>1, <1>3, FS_CardinalityType

\* One send ends: they are one less.
LEMMA SendsEnd ==
  ASSUME SendsTyped, NEW d \in sends, sends' = sends \ {d}
  PROVE  IsFiniteSet(sends') /\ Cardinality(sends') = Cardinality(sends) - 1
         /\ Cardinality(sends) \in Nat
  BY FS_RemoveElement, FS_CardinalityType DEF SendsTyped

\* The message that was posted is shown, and its job is to be enqueued.
LEMMA TypedArrives ==
  ASSUME ChatTyped, NEW d \in sends, MessageArrives(d)
  PROVE  ChatTyped'
<1>0. d \in Send
  BY DEF ChatTyped, SendsTyped
<1>1. ChatsTyped'
  BY DEF ChatTyped, ChatsTyped, MessageArrives, chatTables
<1>2. MessagesTyped'
  BY DEF ChatTyped, MessagesTyped, MessageArrives, chatTables, Sent
<1>3. SendsTyped'
  <2> DEFINE e == [d EXCEPT !.step = "enqueue"]
  <2>1. e \in Send
    BY <1>0 DEF Send
  <2>2. sends' = (sends \ {d}) \cup {e} /\ UNCHANGED tally
    BY DEF MessageArrives
  <2> HIDE DEF e
  <2>3. IsFiniteSet(sends') /\ Cardinality(sends') <= Cardinality(sends)
         /\ Cardinality(sends) \in Nat /\ Cardinality(sends') \in Nat
    BY <2>2, SendsGoOn DEF ChatTyped
  <2>4. tally.turns \in Nat /\ tally.sent \in Nat
    BY ChatBounds DEF ChatTyped, SendsTyped, MessageNumbers
  <2> QED
    BY <2>1, <2>2, <2>3, <2>4 DEF ChatTyped, SendsTyped
<1>4. WriterTyped'
  BY DEF ChatTyped, WriterTyped, MessageArrives, chatQueue
<1>5. ViewTyped'
  <2>1. CASE ~d.live
    BY <2>1 DEF ChatTyped, ViewTyped, MessageArrives
  <2>2. CASE d.live
    <3>1. [id |-> d.id, made |-> d.made, status |-> "waiting", answered |-> FALSE] \in Shown
      BY <1>0 DEF Send, Shown, ChatStatuses, PendingStatuses
    <3>2. shownChat' \subseteq Shown /\ astray' \in BOOLEAN
      BY <2>2, <3>1 DEF MessageArrives, ChatTyped, ViewTyped
    <3>3. \A i \in DOMAIN fetches : fetches[i] \in Fetched
      BY ElementsOfSeq DEF ChatTyped, ViewTyped
    <3>4. \A i \in DOMAIN fetches :
            [fetches[i] EXCEPT !.late = @ \/ \A m \in fetches[i].rows : m.id # d.id] \in Fetched
      BY <3>3 DEF Fetched
    <3>5. fetches' = [i \in DOMAIN fetches |->
            [fetches[i] EXCEPT !.late = @ \/ \A m \in fetches[i].rows : m.id # d.id]]
      <4>1. GainsMessage(d.id)
        BY <2>2 DEF MessageArrives
      <4> QED
        BY <4>1 DEF GainsMessage
    <3>6. fetches' \in Seq(Fetched)
      BY <3>4, <3>5 DEF ChatTyped, ViewTyped
    <3> QED
      BY <3>2, <3>6 DEF MessageArrives, ChatTyped, ViewTyped
  <2> QED
    BY <2>1, <2>2
<1> QED
  BY <1>1, <1>2, <1>3, <1>4, <1>5 DEF ChatTyped

\* Its job is enqueued if it is there.
LEMMA TypedEnqueue ==
  ASSUME ChatTyped, NEW d \in sends, EnqueueMessage(d)
  PROVE  ChatTyped'
<1>0. d.id \in MessageIds /\ d.live \in BOOLEAN
  BY DEF ChatTyped, SendsTyped, Send
<1>1. IsFiniteSet(sends') /\ Cardinality(sends') = Cardinality(sends) - 1
      /\ Cardinality(sends) \in Nat /\ tally.turns \in Nat /\ tally.sent \in Nat
      /\ sends' \subseteq sends /\ tally.turns + Cardinality(sends) <= tally.sent
  <2>1. sends' = sends \ {d}
    BY DEF EnqueueMessage
  <2>2. SendsTyped
    BY DEF ChatTyped
  <2>3. tally.turns \in Nat /\ tally.sent \in Nat /\ tally.turns + Cardinality(sends) <= tally.sent
    BY ChatBounds DEF ChatTyped, SendsTyped, MessageNumbers
  <2> QED
    BY <2>1, <2>2, <2>3, SendsEnd
<1>2. ChatsTyped'
  BY DEF ChatTyped, ChatsTyped, EnqueueMessage
<1>3. ViewTyped'
  BY <1>0 DEF ChatTyped, ViewTyped, EnqueueMessage
<1>4. CASE ~Sent(d.id)
  <2>1. UNCHANGED <<tally, message, chatJobs, chats, replies, writer>>
    BY <1>4 DEF EnqueueMessage
  <2>2. MessagesTyped' /\ WriterTyped'
    BY <2>1 DEF ChatTyped, MessagesTyped, WriterTyped, Sent
  <2>3. SendsTyped'
    BY <2>1, <1>1 DEF ChatTyped, SendsTyped
  <2> QED
    BY <1>2, <1>3, <2>2, <2>3 DEF ChatTyped
<1>5. CASE Sent(d.id)
  <2> DEFINE row == [message[d.id] EXCEPT !.status = "delivered", !.turn = tally.turns + 1]
  <2>1. /\ tally' = [tally EXCEPT !.turns = @ + 1] /\ tally'.turns = tally.turns + 1
        /\ tally'.sent = tally.sent /\ tally' \in [events : Nat, sent : MessageNumbers, turns : Nat]
        /\ chatJobs' = Append(chatJobs, d.id) /\ UNCHANGED <<chats, replies, writer>>
    BY <1>5, <1>1 DEF EnqueueMessage, ChatTyped, SendsTyped
  <2>2. message' = [message EXCEPT ![d.id] = row]
    <3>1. message' = [message EXCEPT ![d.id].status = "delivered", ![d.id].turn = tally'.turns]
      BY <1>5 DEF EnqueueMessage
    <3>2. tally'.turns = tally.turns + 1
      BY <2>1
    <3>3. message' = [message EXCEPT ![d.id].status = "delivered", ![d.id].turn = tally.turns + 1]
      BY <3>1, <3>2
    <3>4. message \in [MessageIds -> Message]
      BY DEF ChatTyped, MessagesTyped
    <3> QED
      BY <3>3, <3>4, <1>0
  <2>3. row \in Message /\ row.status = "delivered" /\ row.chat = message[d.id].chat
    <3>1. message[d.id] \in Message /\ tally.turns + 1 \in Nat
      BY <1>0, <1>1 DEF ChatTyped, MessagesTyped
    <3> QED
      BY <3>1 DEF Message, ChatStatuses, PendingStatuses
  <2> HIDE DEF row
  <2>4. SendsTyped'
    BY <1>1, <2>1 DEF ChatTyped, SendsTyped
  <2>5. WriterTyped'
    BY <1>0, <2>1, AtTheEnd DEF ChatTyped, WriterTyped
  <2>6. MessagesTyped'
    <3>1. \A q \in MessageIds : message'[q] = IF q = d.id THEN row ELSE message[q]
      BY <2>2 DEF ChatTyped, MessagesTyped
    <3>2. message' \in [MessageIds -> Message]
      BY <1>0, <2>2, <2>3 DEF ChatTyped, MessagesTyped
    <3>3. \A q \in MessageIds : Sent(q)' => Sent(q) /\ message'[q].chat = message[q].chat
            /\ message'[q].status # "absent"
      BY <1>5, <2>3, <3>1 DEF ChatTyped, MessagesTyped, Sent
    <3> QED
      BY <2>1, <3>2, <3>3 DEF ChatTyped, MessagesTyped
  <2> QED
    BY <1>2, <1>3, <2>4, <2>5, <2>6 DEF ChatTyped
<1> QED
  BY <1>4, <1>5

\* The request fails.
LEMMA TypedSendFails ==
  ASSUME ChatTyped, NEW d \in sends, SendFails(d)
  PROVE  ChatTyped'
<1>1. IsFiniteSet(sends') /\ Cardinality(sends') = Cardinality(sends) - 1
      /\ Cardinality(sends) \in Nat /\ tally.turns \in Nat /\ tally.sent \in Nat
      /\ sends' \subseteq sends /\ tally.turns + Cardinality(sends) <= tally.sent
  <2>1. sends' = sends \ {d}
    BY DEF SendFails
  <2>2. SendsTyped
    BY DEF ChatTyped
  <2>3. tally.turns \in Nat /\ tally.sent \in Nat /\ tally.turns + Cardinality(sends) <= tally.sent
    BY ChatBounds DEF ChatTyped, SendsTyped, MessageNumbers
  <2> QED
    BY <2>1, <2>2, <2>3, SendsEnd
<1>2. tally' = [tally EXCEPT !.events = @ + 1]
  BY DEF SendFails, Event
<1>3. /\ tally' \in [events : Nat, sent : MessageNumbers, turns : Nat]
      /\ tally'.turns = tally.turns /\ tally'.sent = tally.sent
  BY <1>2 DEF ChatTyped, SendsTyped
<1>4. SendsTyped'
  BY <1>1, <1>3 DEF ChatTyped, SendsTyped
<1>5. ChatsTyped'
  BY DEF ChatTyped, ChatsTyped, SendFails, chatTables, chatView
<1>6. MessagesTyped'
  BY <1>3 DEF ChatTyped, MessagesTyped, SendFails, chatTables, Sent
<1>7. WriterTyped'
  BY DEF ChatTyped, WriterTyped, SendFails, chatQueue
<1>8. ViewTyped'
  BY DEF ChatTyped, ViewTyped, SendFails, chatView
<1> QED
  BY <1>4, <1>5, <1>6, <1>7, <1>8 DEF ChatTyped

\* The chat asks, and is answered.
LEMMA TypedAsks ==
  ASSUME ChatTyped, NEW m \in shownChat, ChatAsks(m)
  PROVE  ChatTyped'
<1>1. m.id \in MessageIds
  BY DEF ChatTyped, ViewTyped, Shown
<1>2. AnswerOf(m.id) \in Shown
  BY <1>1, AnswersTyped DEF ChatTyped, ChatAsks
<1>3. ViewTyped'
  BY <1>2 DEF ChatTyped, ViewTyped, ChatAsks, chatView
<1>4. ChatsTyped' /\ SendsTyped'
  BY DEF ChatTyped, ChatsTyped, SendsTyped, ChatAsks, chatTables, chatView
<1>5. MessagesTyped'
  BY DEF ChatTyped, MessagesTyped, ChatAsks, chatTables, Sent
<1>6. WriterTyped'
  BY DEF ChatTyped, WriterTyped, ChatAsks, chatQueue
<1> QED
  BY <1>3, <1>4, <1>5, <1>6 DEF ChatTyped

\* The answer is shown, or has the message deleted.
LEMMA TypedPoll ==
  ASSUME ChatTyped, NEW a \in polls, PollArrives(a)
  PROVE  ChatTyped'
<1>1. a \in Shown
  BY DEF ChatTyped, ViewTyped
<1>2. shownChat' \subseteq Shown
  BY <1>1 DEF ChatTyped, ViewTyped, PollArrives
<1>3. drops' \subseteq Drop
  <2>1. [id |-> a.id, step |-> "asked", live |-> TRUE] \in Drop
    BY <1>1 DEF Drop, Shown
  <2>2. drops' \subseteq drops \cup {[id |-> a.id, step |-> "asked", live |-> TRUE]}
    BY DEF PollArrives
  <2> QED
    BY <2>1, <2>2 DEF ChatTyped, ViewTyped
<1>4. ViewTyped'
  BY <1>2, <1>3 DEF ChatTyped, ViewTyped, PollArrives
<1>5. ChatsTyped' /\ SendsTyped'
  BY DEF ChatTyped, ChatsTyped, SendsTyped, PollArrives, chatTables
<1>6. MessagesTyped'
  BY DEF ChatTyped, MessagesTyped, PollArrives, chatTables, Sent
<1>7. WriterTyped'
  BY DEF ChatTyped, WriterTyped, PollArrives, chatQueue
<1> QED
  BY <1>4, <1>5, <1>6, <1>7 DEF ChatTyped

\* A message that failed is deleted.
LEMMA TypedDrop ==
  ASSUME ChatTyped, NEW d \in drops, DropHandled(d)
  PROVE  ChatTyped'
<1>1. d.id \in MessageIds /\ [d EXCEPT !.step = "done"] \in Drop
  BY DEF ChatTyped, ViewTyped, Drop
<1>2. ViewTyped'
  BY <1>1 DEF ChatTyped, ViewTyped, DropHandled, chatView
<1>3. ChatsTyped' /\ SendsTyped'
  BY DEF ChatTyped, ChatsTyped, SendsTyped, DropHandled, chatView
<1>4. \A p \in MessageIds : Sent(p) /\ p \notin {d.id} => message[p].chat \in chats'
  BY DEF ChatTyped, MessagesTyped, DropHandled
<1>5. MessagesTyped'
  BY <1>4, WithoutMessagesTyped DEF ChatTyped, DropHandled
<1>6. WriterTyped'
  BY DEF ChatTyped, WriterTyped, DropHandled, chatQueue
<1> QED
  BY <1>2, <1>3, <1>5, <1>6 DEF ChatTyped

\* And leaves what is shown.
LEMMA TypedDropArrives ==
  ASSUME ChatTyped, NEW d \in drops, DropArrives(d)
  PROVE  ChatTyped'
<1>1. \A i \in DOMAIN fetches : fetches[i] \in Fetched
  BY ElementsOfSeq DEF ChatTyped, ViewTyped
<1>2. \A i \in DOMAIN fetches :
        [fetches[i] EXCEPT !.late = @ \/ \E m \in fetches[i].rows : m.id = d.id] \in Fetched
  BY <1>1 DEF Fetched
<1>3. fetches' = [i \in DOMAIN fetches |->
        [fetches[i] EXCEPT !.late = @ \/ \E m \in fetches[i].rows : m.id = d.id]]
  BY DEF DropArrives, LosesMessage
<1>4. fetches' \in Seq(Fetched)
  BY <1>2, <1>3 DEF ChatTyped, ViewTyped
<1>5. ViewTyped'
  BY <1>4 DEF ChatTyped, ViewTyped, DropArrives
<1>6. ChatsTyped' /\ SendsTyped'
  BY DEF ChatTyped, ChatsTyped, SendsTyped, DropArrives, chatTables
<1>7. MessagesTyped'
  BY DEF ChatTyped, MessagesTyped, DropArrives, chatTables, Sent
<1>8. WriterTyped'
  BY DEF ChatTyped, WriterTyped, DropArrives, chatQueue
<1> QED
  BY <1>5, <1>6, <1>7, <1>8 DEF ChatTyped

\* GenerativeJob begins with a message.
LEMMA TypedTake ==
  ASSUME ChatTyped, TakeMessage
  PROVE  ChatTyped'
<1> DEFINE p == Head(chatJobs)
           seen == {message[q].made : q \in
                     {r \in MessagesOf(message[p].chat) : message[r].status = "finished"}}
<1>1. /\ p \in MessageIds /\ chatJobs' \in Seq(MessageIds) /\ writer = noReply
      /\ UNCHANGED <<chats, replies, chatView, chatAnswers, confused, astray, tally>>
      /\ IF Sent(p)
         THEN /\ writer' = [id |-> p, made |-> message[p].made, step |-> "started",
                            seen |-> seen]
              /\ message' = [message EXCEPT ![p].status = "started"]
         ELSE UNCHANGED <<writer, message>>
  BY DEF TakeMessage, ChatTyped, WriterTyped
<1>2. seen \subseteq MessageNumbers /\ message[p].made \in MessageNumbers
  <2>1. \A r \in MessageIds : message[r].made \in MessageNumbers
    BY DEF ChatTyped, MessagesTyped, Message
  <2> QED
    BY <1>1, <2>1 DEF MessagesOf
<1> HIDE DEF p, seen
<1>3. WriterTyped'
  BY <1>1, <1>2 DEF ChatTyped, WriterTyped
<1>4. MessagesTyped'
  <2>1. CASE Sent(p)
    BY <1>1, <2>1, StatusTyped DEF ChatTyped, ChatStatuses, PendingStatuses
  <2>2. CASE ~Sent(p)
    BY <1>1, <2>2 DEF ChatTyped, MessagesTyped, Sent
  <2> QED
    BY <2>1, <2>2
<1>5. ChatsTyped' /\ SendsTyped' /\ ViewTyped'
  BY <1>1 DEF ChatTyped, ChatsTyped, SendsTyped, ViewTyped, chatView, chatAnswers
<1> QED
  BY <1>3, <1>4, <1>5 DEF ChatTyped

\* And ends with it, one way or the other.
LEMMA TypedEnds ==
  ASSUME ChatTyped, MessageFails \/ FinishMessage
  PROVE  ChatTyped'
<1>1. PICK status \in ChatStatuses :
        message' = IF Sent(writer.id) THEN [message EXCEPT ![writer.id].status = status]
                   ELSE message
  BY DEF MessageFails, FinishMessage, ChatStatuses
<1>2. UNCHANGED <<chats, replies, chatJobs, chatView, chatAnswers, confused, astray, tally>>
      /\ writer' = noReply /\ writer.id \in MessageIds
  BY DEF MessageFails, FinishMessage, ChatTyped, WriterTyped, noReply
<1>3. MessagesTyped'
  <2>1. CASE Sent(writer.id)
    BY <1>1, <1>2, <2>1, StatusTyped DEF ChatTyped
  <2>2. CASE ~Sent(writer.id)
    BY <1>1, <1>2, <2>2 DEF ChatTyped, MessagesTyped, Sent
  <2> QED
    BY <2>1, <2>2
<1>4. ChatsTyped' /\ SendsTyped' /\ ViewTyped' /\ WriterTyped'
  BY <1>2 DEF ChatTyped, ChatsTyped, SendsTyped, ViewTyped, WriterTyped, chatView, chatAnswers
<1> QED
  BY <1>3, <1>4 DEF ChatTyped

\* The model is run, and its outputs are saved.
LEMMA TypedGenerate ==
  ASSUME ChatTyped, Generate \/ SaveReply
  PROVE  ChatTyped'
<1>1. /\ UNCHANGED <<chats, message, chatJobs, chatView, chatAnswers, confused, astray, tally>>
      /\ writer \in [id : MessageIds, made : MessageNumbers, seen : SUBSET MessageNumbers,
                     step : {"started", "replying", "replied"}]
  BY DEF Generate, SaveReply, ChatTyped, WriterTyped, noReply, chatTables
<1>2. WriterTyped'
  BY <1>1 DEF Generate, SaveReply, ChatTyped, WriterTyped
<1>3. replies' \in [MessageIds -> Seq(Reply)]
  <2>1. CASE Generate
    BY <2>1 DEF Generate, chatTables, ChatTyped, MessagesTyped
  <2>2. CASE SaveReply
    <3>1. [made |-> writer.made, seen |-> writer.seen] \in Reply
      BY <1>1 DEF Reply
    <3>2. Append(replies[writer.id], [made |-> writer.made, seen |-> writer.seen]) \in Seq(Reply)
      BY <1>1, <3>1, AtTheEnd DEF ChatTyped, MessagesTyped
    <3> QED
      BY <1>1, <2>2, <3>2 DEF SaveReply, ChatTyped, MessagesTyped
  <2> QED
    BY <2>1, <2>2
<1>4. MessagesTyped'
  BY <1>1, <1>3 DEF ChatTyped, MessagesTyped, Sent
<1>5. ChatsTyped' /\ SendsTyped' /\ ViewTyped'
  BY <1>1 DEF ChatTyped, ChatsTyped, SendsTyped, ViewTyped, chatView, chatAnswers
<1> QED
  BY <1>2, <1>4, <1>5 DEF ChatTyped

\* Every step keeps the types.
LEMMA ChatTypedStep == ChatTyped /\ [GenerativeChatNext]_generativeChatVars => ChatTyped'
<1> SUFFICES ASSUME ChatTyped, [GenerativeChatNext]_generativeChatVars  PROVE ChatTyped'
  OBVIOUS
<1>1. CASE UNCHANGED generativeChatVars
  BY <1>1 DEF generativeChatVars, chatTables, chatQueue, chatView, chatAnswers, ChatTyped,
              ChatsTyped, MessagesTyped, SendsTyped, WriterTyped, ViewTyped, Sent
<1>2. ASSUME NEW s \in 1..MaxChats, ChooseChat(s) \/ DeleteChat(s) \/ ChatDeleted(s)
      PROVE  ChatTyped'
  BY <1>2, TypedChoose, TypedDelete, TypedDeleted
<1>3. CASE NewChat \/ UpdateParameters \/ LeaveChat \/ ReloadChats \/ FetchArrives
  BY <1>3, TypedNewChat, TypedUpdate, TypedLeave, TypedReload, TypedFetch
<1>4. CASE SendMessage
  BY <1>4, TypedSend
<1>5. ASSUME NEW d \in sends, MessageArrives(d) \/ EnqueueMessage(d) \/ SendFails(d)
      PROVE  ChatTyped'
  BY <1>5, TypedArrives, TypedEnqueue, TypedSendFails
<1>6. ASSUME NEW m \in shownChat, ChatAsks(m)
      PROVE  ChatTyped'
  BY <1>6, TypedAsks
<1>7. ASSUME NEW a \in polls, PollArrives(a)
      PROVE  ChatTyped'
  BY <1>7, TypedPoll
<1>8. ASSUME NEW d \in drops, DropHandled(d) \/ DropArrives(d)
      PROVE  ChatTyped'
  BY <1>8, TypedDrop, TypedDropArrives
<1>9. CASE Writer
  BY <1>9, TypedTake, TypedEnds, TypedGenerate DEF Writer
<1> QED
  BY <1>1, <1>2, <1>3, <1>4, <1>5, <1>6, <1>7, <1>8, <1>9
     DEF GenerativeChatNext, SendStep, DropStep

\* What the types say is what GenerativeChatTypeOK asks for.
LEMMA ChatTypedIsTypeOK == ChatTyped => GenerativeChatTypeOK
<1> SUFFICES ASSUME ChatTyped  PROVE GenerativeChatTypeOK
  OBVIOUS
<1>1. chats \cup removing \subseteq 1..MaxChats /\ openChat \in chats \cup {0}
  BY DEF ChatTyped, ChatsTyped
<1>2. \A p \in MessageIds : Sent(p) =>
        message[p].chat \in chats /\ message[p].status \in ChatStatuses
  BY DEF ChatTyped, MessagesTyped, Message
<1>3. \A m \in shownChat \cup polls : m.id \in MessageIds /\ m.status \in ChatStatuses
  BY DEF ChatTyped, ViewTyped, Shown
<1>4. ToSet(chatJobs) \subseteq MessageIds /\ writer.id \in MessageIds \cup {0}
  <2>1. \A i \in DOMAIN chatJobs : chatJobs[i] \in MessageIds
    BY ElementsOfSeq DEF ChatTyped, WriterTyped
  <2> QED
    BY <2>1 DEF ToSet, ChatTyped, WriterTyped, noReply
<1>5. tally.turns <= tally.sent /\ tally.sent <= MaxMessages
  BY ChatBounds, FS_CardinalityType DEF ChatTyped, SendsTyped, MessageNumbers
<1>6. sending \in BOOLEAN /\ confused \in BOOLEAN /\ astray \in BOOLEAN
  BY DEF ChatTyped, ViewTyped
<1> QED
  BY <1>1, <1>2, <1>3, <1>4, <1>5, <1>6 DEF GenerativeChatTypeOK, ChatStatuses

\* Tables, queue and chat keep their shape, and no message is enqueued twice.
THEOREM ChatTypeCorrect == GenerativeChatSpec => []GenerativeChatTypeOK
<1>1. GenerativeChatSpec => []ChatTyped
  BY ChatTypedInit, ChatTypedStep, PTL DEF GenerativeChatSpec
<1> QED
  BY <1>1, ChatTypedIsTypeOK, PTL

-----------------------------------------------------------------------------
(* A message is in one place at a time, and has the reply that is its own.   *)

IsSent(p) == \E d \in sends : d.id = p
IsQueued(p) == \E i \in DOMAIN chatJobs : chatJobs[i] = p

\* The messages of p's chat that were answered and enqueued before it.
Earlier(q, p) ==
  /\ message[q].chat = message[p].chat /\ message[q].status = "finished"
  /\ message[q].turn < message[p].turn
Before(p) == {message[q].made : q \in {r \in MessageIds : Earlier(r, p)}}
ReplyTo(p) == <<[made |-> message[p].made, seen |-> Before(p)]>>

\* No message is twice in the queue, nor in two hands.
JobsApart ==
  /\ \A i, j \in DOMAIN chatJobs : i # j => chatJobs[i] # chatJobs[j]
  /\ ~IsQueued(writer.id)
  /\ \A d, e \in sends : d.id = e.id => d = e
  /\ \A d \in sends : ~IsQueued(d.id) /\ d.id # writer.id

\* Its status tells where it is, unless its row is gone.
Placed ==
  \A p \in MessageIds :
    /\ IsSent(p) => message[p].status \in {"absent", "waiting"}
    /\ IsQueued(p) => message[p].status \in {"absent", "delivered"}
    /\ message[p].status = "delivered" => IsQueued(p)
    /\ writer.id = p => message[p].status \in {"absent", "started"}
    /\ message[p].status = "started" => writer.id = p
    /\ message[p].status \in {"waiting", "delivered"} => replies[p] = <<>>

\* What was heard to have failed has, and its deletion harms no other.
ErrorIsFinal ==
  /\ \A a \in polls : a.status = "error" => message[a.id].status \in {"absent", "error"}
  /\ \A d \in drops : message[d.id].status \in {"absent", "error"}

\* Messages are worked on in the order in which they were enqueued.
InTurn ==
  /\ \A p \in MessageIds : message[p].turn <= tally.turns
  /\ \A i, j \in DOMAIN chatJobs : i < j /\ Sent(chatJobs[i]) /\ Sent(chatJobs[j]) =>
       message[chatJobs[i]].turn < message[chatJobs[j]].turn
  /\ \A p, q \in MessageIds :
       /\ message[p].status \in {"started", "finished"} /\ message[q].status = "delivered" =>
            message[p].turn < message[q].turn
       /\ message[p].status = "finished" /\ message[q].status = "started" =>
            message[p].turn < message[q].turn

\* What was taken for history still is, and is saved once.
WriterKnows ==
  \A p \in MessageIds : writer.id = p /\ message[p].status = "started" =>
    /\ writer.made = message[p].made /\ writer.seen = Before(p)
    /\ replies[p] = IF writer.step = "replied" THEN ReplyTo(p) ELSE <<>>

Answered == \A p \in MessageIds : message[p].status = "finished" => replies[p] = ReplyTo(p)

ReplyInv == JobsApart /\ Placed /\ ErrorIsFinal /\ InTurn /\ WriterKnows /\ Answered

-----------------------------------------------------------------------------
\* A row that is there is one with a status.
LEMMA AbsentIsNotSent ==
  ASSUME MessagesTyped, NEW p \in MessageIds
  PROVE  /\ Sent(p) = (message[p].status # "absent")
         /\ ~Sent(p) => message[p].turn = 0 /\ message[p].chat = 0
  BY DEF MessagesTyped, Sent, noMessage

\* The same messages before it, the same history.
LEMMA BeforeKept ==
  ASSUME NEW p \in MessageIds, message'[p].made = message[p].made,
         \A q \in MessageIds : Earlier(q, p)' = Earlier(q, p),
         \A q \in MessageIds : Earlier(q, p) => message'[q].made = message[q].made
  PROVE  Before(p)' = Before(p) /\ ReplyTo(p)' = ReplyTo(p)
<1>1. {r \in MessageIds : Earlier(r, p)'} = {r \in MessageIds : Earlier(r, p)}
  OBVIOUS
<1>2. Before(p)' = {message'[q].made : q \in {r \in MessageIds : Earlier(r, p)'}}
  BY DEF Before
<1>3. Before(p)' = Before(p)
  BY <1>1, <1>2 DEF Before
<1> QED
  BY <1>3 DEF ReplyTo

\* Tables, queue and writer are as they were.
LEMMA ReplyKept ==
  ASSUME ReplyInv, UNCHANGED <<message, replies, chatJobs, writer>>,
         tally'.turns = tally.turns,
         \A d \in sends' : \E e \in sends : d.id = e.id,
         \A d, e \in sends' : d.id = e.id => d = e,
         ErrorIsFinal'
  PROVE  ReplyInv'
<1>1. \A p \in MessageIds : Earlier(p, p)' = Earlier(p, p) /\ IsQueued(p)' = IsQueued(p)
        /\ (IsSent(p)' => IsSent(p))
  BY DEF Earlier, IsQueued, IsSent
<1>2. \A p \in MessageIds : Before(p)' = Before(p) /\ ReplyTo(p)' = ReplyTo(p)
  BY DEF Before, ReplyTo, Earlier
<1>3. JobsApart'
  BY DEF ReplyInv, JobsApart, IsQueued
<1>4. Placed'
  BY <1>1 DEF ReplyInv, Placed
<1>5. InTurn'
  BY DEF ReplyInv, InTurn, Sent
<1>6. WriterKnows' /\ Answered'
  BY <1>2 DEF ReplyInv, WriterKnows, Answered
<1> QED
  BY <1>3, <1>4, <1>5, <1>6 DEF ReplyInv

\* So they are while the page does not send.
LEMMA ReplyPage ==
  ASSUME ChatTyped, ReplyInv, UNCHANGED <<chatTables, chatQueue>>, tally'.turns = tally.turns,
         sends' \subseteq sends \/ sends' = {[d EXCEPT !.live = FALSE] : d \in sends},
         UNCHANGED <<polls, drops>> \/ Unmount
  PROVE  ReplyInv'
<1>1. UNCHANGED <<message, replies, chatJobs, writer>>
  BY DEF chatTables, chatQueue
<1>2. (\A d \in sends' : \E e \in sends : d.id = e.id)
      /\ (\A d, e \in sends' : d.id = e.id => d = e)
  <2>0. \A d, e \in sends : d.id = e.id => d = e
    BY DEF ReplyInv, JobsApart
  <2>1. CASE sends' \subseteq sends
    BY <2>0, <2>1
  <2>2. CASE sends' = {[d EXCEPT !.live = FALSE] : d \in sends}
    <3>1. \A d \in sends : [d EXCEPT !.live = FALSE].id = d.id
      BY DEF ChatTyped, SendsTyped, Send
    <3>2. \A d \in sends' : \E e \in sends : d = [e EXCEPT !.live = FALSE] /\ d.id = e.id
      BY <2>2, <3>1
    <3>3. ASSUME NEW d \in sends', NEW e \in sends', d.id = e.id  PROVE d = e
      <4>1. PICK f \in sends, g \in sends :
              /\ d = [f EXCEPT !.live = FALSE] /\ d.id = f.id
              /\ e = [g EXCEPT !.live = FALSE] /\ e.id = g.id
        BY <3>2
      <4>2. f = g
        BY <2>0, <3>3, <4>1
      <4> QED
        BY <4>1, <4>2
    <3> QED
      BY <3>2, <3>3
  <2> QED
    BY <2>1, <2>2
<1>3. ErrorIsFinal'
  <2>1. CASE UNCHANGED <<polls, drops>>
    BY <1>1, <2>1 DEF ReplyInv, ErrorIsFinal
  <2>2. CASE Unmount
    <3>1. ASSUME NEW d \in drops'  PROVE message[d.id].status \in {"absent", "error"}
      <4>1. PICK e \in {f \in drops : f.step = "asked"} \cup {a \in polls : a.status = "error"} :
              d = [id |-> e.id, step |-> "asked", live |-> FALSE]
        BY <2>2 DEF Unmount
      <4>2. d.id = e.id
        BY <4>1
      <4> QED
        BY <4>2 DEF ReplyInv, ErrorIsFinal
    <3>2. polls' = {}
      BY <2>2 DEF Unmount
    <3> QED
      BY <1>1, <3>1, <3>2 DEF ErrorIsFinal
  <2> QED
    BY <2>1, <2>2
<1> QED
  BY <1>1, <1>2, <1>3, ReplyKept

\* A message that was posted arrives.
LEMMA ReplyArrives ==
  ASSUME ChatTyped, ReplyInv, NEW d \in sends, MessageArrives(d)
  PROVE  ReplyInv'
<1> DEFINE e == [d EXCEPT !.step = "enqueue"]
<1>1. e.id = d.id /\ sends' = (sends \ {d}) \cup {e}
      /\ UNCHANGED <<message, replies, chatJobs, writer, tally, polls, drops>>
  BY DEF ChatTyped, SendsTyped, Send, MessageArrives, chatTables, chatQueue
<1> HIDE DEF e
<1>2. \A f, g \in sends : f.id = g.id => f = g
  BY DEF ReplyInv, JobsApart
<1>3. (\A f \in sends' : \E g \in sends : f.id = g.id)
      /\ (\A f, g \in sends' : f.id = g.id => f = g)
  BY <1>1, <1>2
<1>4. ErrorIsFinal'
  BY <1>1 DEF ReplyInv, ErrorIsFinal
<1> QED
  BY <1>1, <1>3, <1>4, ReplyKept

\* The chat asks for a message and hears of it.
LEMMA ReplyAsked ==
  ASSUME ChatTyped, ReplyInv,
         (\E m \in shownChat : ChatAsks(m)) \/ (\E a \in polls : PollArrives(a))
           \/ \E d \in drops : DropArrives(d)
  PROVE  ReplyInv'
<1>1. UNCHANGED <<message, replies, chatJobs, writer, tally, sends>>
  BY DEF ChatAsks, PollArrives, DropArrives, chatTables, chatQueue
<1>2. ErrorIsFinal'
  <2>1. ASSUME NEW m \in shownChat, ChatAsks(m)  PROVE ErrorIsFinal'
    <3>1. m.id \in MessageIds /\ Sent(m.id)
      BY <2>1 DEF ChatTyped, ViewTyped, Shown, ChatAsks
    <3>2. AnswerOf(m.id).id = m.id /\ AnswerOf(m.id).status = message[m.id].status
      BY <3>1, AnswersTyped DEF ChatTyped
    <3>3. polls' = polls \cup {AnswerOf(m.id)} /\ drops' = drops
      BY <2>1 DEF ChatAsks
    <3> QED
      BY <1>1, <3>2, <3>3 DEF ReplyInv, ErrorIsFinal
  <2>2. ASSUME NEW a \in polls, PollArrives(a)  PROVE ErrorIsFinal'
    <3>1. polls' \subseteq polls /\ \A d \in drops' : d \in drops \/ (d.id = a.id /\ a.status = "error")
      BY <2>2 DEF PollArrives
    <3> QED
      BY <1>1, <3>1 DEF ReplyInv, ErrorIsFinal
  <2>3. ASSUME NEW d \in drops, DropArrives(d)  PROVE ErrorIsFinal'
    BY <1>1, <2>3 DEF ReplyInv, ErrorIsFinal, DropArrives
  <2> QED
    BY <2>1, <2>2, <2>3
<1>3. \A d, e \in sends : d.id = e.id => d = e
  BY DEF ReplyInv, JobsApart
<1> QED
  BY <1>1, <1>2, <1>3, ReplyKept

\* Messages are removed that no other has for history.
LEMMA ReplyRemoved ==
  ASSUME ChatTyped, ReplyInv, NEW gone, WithoutMessages(gone),
         \A p \in MessageIds, q \in gone :
           p \notin gone /\ message[q].chat = message[p].chat => message[q].status # "finished",
         gone \subseteq MessageIds,
         UNCHANGED <<chatQueue, tally, sends, polls>>,
         \A d \in drops' : \E e \in drops : d.id = e.id
  PROVE  ReplyInv'
<1>1. \A p \in MessageIds :
        /\ p \notin gone => message'[p] = message[p] /\ replies'[p] = replies[p]
        /\ p \in gone => message'[p] = noMessage /\ replies'[p] = <<>>
  BY DEF WithoutMessages
<1>2. noMessage.status = "absent" /\ noMessage.turn = 0
  BY DEF noMessage
<1>3. UNCHANGED <<chatJobs, writer>>
  BY DEF chatQueue
<1>4. ASSUME NEW p \in MessageIds, p \notin gone
      PROVE  Before(p)' = Before(p) /\ ReplyTo(p)' = ReplyTo(p)
  <2>1. \A q \in MessageIds : Earlier(q, p)' = Earlier(q, p)
    BY <1>1, <1>2, <1>4 DEF Earlier
  <2>2. \A q \in MessageIds : Earlier(q, p) => message'[q].made = message[q].made
    BY <1>1, <1>4 DEF Earlier
  <2> QED
    BY <1>1, <1>4, <2>1, <2>2, BeforeKept
<1>5. JobsApart'
  BY <1>3 DEF ReplyInv, JobsApart, IsQueued
<1>6. Placed'
  <2>1. \A p \in MessageIds : IsQueued(p)' = IsQueued(p) /\ IsSent(p)' = IsSent(p)
    BY <1>3 DEF IsQueued, IsSent
  <2> QED
    BY <1>1, <1>2, <1>3, <2>1 DEF ReplyInv, Placed
<1>7. ErrorIsFinal'
  <2>1. \A p \in MessageIds : message[p].status \in {"absent", "error"} =>
          message'[p].status \in {"absent", "error"}
    BY <1>1, <1>2
  <2>2. \A a \in polls : a.id \in MessageIds
    BY DEF ChatTyped, ViewTyped, Shown
  <2>3. \A d \in drops : d.id \in MessageIds
    BY DEF ChatTyped, ViewTyped, Drop
  <2> QED
    BY <2>1, <2>2, <2>3 DEF ReplyInv, ErrorIsFinal
<1>8. InTurn'
  <2>1. \A p \in MessageIds : message[p].turn \in Nat
    BY DEF ChatTyped, MessagesTyped, Message
  <2>2. tally.turns \in Nat /\ UNCHANGED tally
    BY DEF ChatTyped, SendsTyped
  <2>3. \A p \in MessageIds : message'[p].turn <= tally'.turns
    BY <1>1, <1>2, <2>1, <2>2 DEF ReplyInv, InTurn
  <2>4. \A p \in MessageIds : Sent(p)' => Sent(p) /\ message'[p] = message[p]
    BY <1>1 DEF Sent
  <2>5. \A i \in DOMAIN chatJobs : chatJobs[i] \in MessageIds
    BY ElementsOfSeq DEF ChatTyped, WriterTyped
  <2>6. \A i, j \in DOMAIN chatJobs' : i < j /\ Sent(chatJobs[i])' /\ Sent(chatJobs[j])' =>
          message'[chatJobs[i]].turn < message'[chatJobs[j]].turn
    BY <1>3, <2>4, <2>5 DEF ReplyInv, InTurn
  <2>7. \A p, q \in MessageIds :
       /\ message'[p].status \in {"started", "finished"} /\ message'[q].status = "delivered" =>
            message'[p].turn < message'[q].turn
       /\ message'[p].status = "finished" /\ message'[q].status = "started" =>
            message'[p].turn < message'[q].turn
    BY <1>1, <1>2 DEF ReplyInv, InTurn
  <2> QED
    BY <1>3, <2>3, <2>6, <2>7 DEF InTurn, Sent
<1>9. WriterKnows' /\ Answered'
  BY <1>1, <1>2, <1>3, <1>4 DEF ReplyInv, WriterKnows, Answered
<1> QED
  BY <1>5, <1>6, <1>7, <1>8, <1>9 DEF ReplyInv

\* A message that failed is deleted, or a whole session.
LEMMA ReplyDropped ==
  ASSUME ChatTyped, ReplyInv, NEW d \in drops, DropHandled(d)
  PROVE  ReplyInv'
<1>1. d.id \in MessageIds /\ message[d.id].status # "finished"
  BY DEF ChatTyped, ViewTyped, Drop, ReplyInv, ErrorIsFinal
<1>2. \A e \in drops' : \E f \in drops : e.id = f.id
  <2>1. [d EXCEPT !.step = "done"].id = d.id
    BY DEF ChatTyped, ViewTyped, Drop
  <2>2. \A e \in drops' : e \in drops \/ e = [d EXCEPT !.step = "done"]
    BY DEF DropHandled
  <2> QED
    BY <2>1, <2>2
<1>3. UNCHANGED <<chatQueue, tally, sends, polls>> /\ WithoutMessages({d.id})
  BY DEF DropHandled
<1> QED
  BY <1>1, <1>2, <1>3, ReplyRemoved

\* Of a session every message goes.
LEMMA ReplyChatDeleted ==
  ASSUME ChatTyped, ReplyInv, NEW s \in 1..MaxChats, ChatDeleted(s)
  PROVE  ReplyInv'
<1>1. \A p \in MessageIds, q \in MessagesOf(s) :
        p \notin MessagesOf(s) /\ message[q].chat = message[p].chat =>
          message[q].status # "finished"
  BY DEF MessagesOf
<1>2. UNCHANGED <<chatQueue, tally, sends, polls, drops>> /\ WithoutMessages(MessagesOf(s))
      /\ MessagesOf(s) \subseteq MessageIds
  BY DEF ChatDeleted, MessagesOf
<1> QED
  BY <1>1, <1>2, ReplyRemoved

\* A message is sent, with a key of which nothing is left.
LEMMA ReplySend ==
  ASSUME ChatTyped, ReplyInv, SendMessage, ~confused'
  PROVE  ReplyInv'
<1> DEFINE p == NextMessage
           row == [chat |-> openChat, made |-> tally.sent + 1, status |-> "waiting", turn |-> 0]
           d == [id |-> p, made |-> tally.sent + 1, chat |-> openChat, step |-> "posted",
                 live |-> TRUE]
<1>1. /\ p \in MessageIds /\ ~Sent(p) /\ message' = [message EXCEPT ![p] = row]
      /\ sends' = sends \cup {d}
  BY SendIsNew
<1>2. row.status = "waiting" /\ row.turn = 0 /\ d.id = p
  OBVIOUS
<1>3. ~Remains(p)
  BY DEF SendMessage
<1>4. UNCHANGED <<replies, chatJobs, writer, polls, drops>> /\ tally'.turns = tally.turns
  BY DEF SendMessage, chatQueue, ChatTyped, SendsTyped
<1> HIDE DEF p, row, d
<1>5. /\ replies[p] = <<>> /\ writer.id # p /\ ~IsQueued(p)
      /\ \A e \in sends \cup polls \cup drops : e.id # p
  BY <1>3 DEF Remains, IsQueued, ToSet
<1>6. message[p].status = "absent"
  BY <1>1, AbsentIsNotSent DEF ChatTyped
<1>7. \A q \in MessageIds : message'[q] = IF q = p THEN row ELSE message[q]
  BY <1>1 DEF ChatTyped, MessagesTyped
<1>8. ASSUME NEW q \in MessageIds, q # p
      PROVE  Before(q)' = Before(q) /\ ReplyTo(q)' = ReplyTo(q)
  <2>1. \A r \in MessageIds : Earlier(r, q)' = Earlier(r, q)
    BY <1>2, <1>6, <1>7, <1>8 DEF Earlier
  <2>2. \A r \in MessageIds : Earlier(r, q) => message'[r].made = message[r].made
    BY <1>6, <1>7 DEF Earlier
  <2> QED
    BY <1>7, <1>8, <2>1, <2>2, BeforeKept
<1>9. JobsApart'
  BY <1>1, <1>2, <1>4, <1>5 DEF ReplyInv, JobsApart, IsQueued
<1>10. Placed'
  <2>1. \A q \in MessageIds : IsQueued(q)' = IsQueued(q) /\ (q # p => IsSent(q)' = IsSent(q))
    BY <1>1, <1>2, <1>4 DEF IsQueued, IsSent
  <2> QED
    BY <1>1, <1>2, <1>4, <1>5, <1>7, <2>1 DEF ReplyInv, Placed
<1>11. ErrorIsFinal'
  <2>1. \A a \in polls : a.id \in MessageIds /\ a.id # p
    BY <1>5 DEF ChatTyped, ViewTyped, Shown
  <2>2. \A e \in drops : e.id \in MessageIds /\ e.id # p
    BY <1>5 DEF ChatTyped, ViewTyped, Drop
  <2> QED
    BY <1>4, <1>7, <2>1, <2>2 DEF ReplyInv, ErrorIsFinal
<1>12. InTurn'
  <2>1. tally.turns \in Nat
    BY DEF ChatTyped, SendsTyped
  <2>2. \A q \in MessageIds : message'[q].turn <= tally'.turns
    BY <1>2, <1>4, <1>7, <2>1 DEF ReplyInv, InTurn
  <2>3. \A i \in DOMAIN chatJobs : chatJobs[i] \in MessageIds /\ chatJobs[i] # p
    BY <1>5, ElementsOfSeq DEF ChatTyped, WriterTyped, IsQueued
  <2>4. \A i \in DOMAIN chatJobs : message'[chatJobs[i]] = message[chatJobs[i]]
    BY <1>7, <2>3
  <2>5. \A i, j \in DOMAIN chatJobs' : i < j /\ Sent(chatJobs[i])' /\ Sent(chatJobs[j])' =>
          message'[chatJobs[i]].turn < message'[chatJobs[j]].turn
    BY <1>4, <2>4 DEF ReplyInv, InTurn, Sent
  <2>6. \A q, r \in MessageIds :
       /\ message'[q].status \in {"started", "finished"} /\ message'[r].status = "delivered" =>
            message'[q].turn < message'[r].turn
       /\ message'[q].status = "finished" /\ message'[r].status = "started" =>
            message'[q].turn < message'[r].turn
    BY <1>2, <1>7 DEF ReplyInv, InTurn
  <2> QED
    BY <1>4, <2>2, <2>5, <2>6 DEF InTurn, Sent
<1>13. WriterKnows' /\ Answered'
  BY <1>2, <1>4, <1>7, <1>8 DEF ReplyInv, WriterKnows, Answered
<1> QED
  BY <1>9, <1>10, <1>11, <1>12, <1>13 DEF ReplyInv

\* A message is enqueued, behind those that were enqueued before.
LEMMA ReplyEnqueue ==
  ASSUME ChatTyped, ReplyInv, NEW d \in sends, EnqueueMessage(d)
  PROVE  ReplyInv'
<1>1. UNCHANGED <<replies, writer, polls, drops>> /\ sends' = sends \ {d}
  BY DEF EnqueueMessage
<1>2. \A e, f \in sends : e.id = f.id => e = f
  BY DEF ReplyInv, JobsApart
<1>3. CASE ~Sent(d.id)
  <2>1. UNCHANGED <<message, chatJobs, tally>>
    BY <1>3 DEF EnqueueMessage
  <2>2. ErrorIsFinal'
    BY <1>1, <2>1 DEF ReplyInv, ErrorIsFinal
  <2> QED
    BY <1>1, <1>2, <2>1, <2>2, ReplyKept
<1>4. CASE Sent(d.id)
  <2> DEFINE p == d.id
  <2>1. p \in MessageIds
    BY DEF ChatTyped, SendsTyped, Send
  <2>2. message[p].status = "waiting" /\ replies[p] = <<>> /\ ~IsQueued(p) /\ writer.id # p
    <3>1. message[p].status # "absent"
      BY <1>4, <2>1, AbsentIsNotSent DEF ChatTyped
    <3>2. IsSent(p)
      BY DEF IsSent
    <3> QED
      BY <2>1, <3>1, <3>2 DEF ReplyInv, Placed, JobsApart
  <2>3. /\ tally'.turns = tally.turns + 1 /\ tally.turns \in Nat
        /\ chatJobs' = Append(chatJobs, p)
        /\ message' = [message EXCEPT ![p].status = "delivered", ![p].turn = tally'.turns]
    BY <1>4 DEF EnqueueMessage, ChatTyped, SendsTyped
  <2> HIDE DEF p
  <2>4. /\ message'[p].status = "delivered" /\ message'[p].turn = tally.turns + 1
        /\ message'[p].chat = message[p].chat /\ message'[p].made = message[p].made
    <3>1. message \in [MessageIds -> Message] /\ message[p] \in Message
      BY <2>1 DEF ChatTyped, MessagesTyped
    <3> QED
      BY <2>1, <2>3, <3>1 DEF Message
  <2>5. \A q \in MessageIds : q # p => message'[q] = message[q]
    BY <2>1, <2>3 DEF ChatTyped, MessagesTyped
  <2>6. /\ DOMAIN chatJobs = 1..Len(chatJobs) /\ Len(chatJobs) \in Nat
        /\ DOMAIN chatJobs' = 1..(Len(chatJobs) + 1)
        /\ \A i \in DOMAIN chatJobs : chatJobs'[i] = chatJobs[i] /\ chatJobs[i] \in MessageIds
        /\ chatJobs'[Len(chatJobs) + 1] = p
    BY <2>1, <2>3, AtTheEnd, ElementsOfSeq DEF ChatTyped, WriterTyped
  <2>7. ASSUME NEW q \in MessageIds  PROVE IsQueued(q)' = (IsQueued(q) \/ q = p)
    <3>1. ASSUME NEW i \in DOMAIN chatJobs', chatJobs'[i] = q  PROVE IsQueued(q) \/ q = p
      <4>1. i \in DOMAIN chatJobs \/ i = Len(chatJobs) + 1
        BY <2>6
      <4> QED
        BY <2>6, <3>1, <4>1 DEF IsQueued
    <3>2. ASSUME NEW i \in DOMAIN chatJobs, chatJobs[i] = q
          PROVE  \E j \in DOMAIN chatJobs' : chatJobs'[j] = q
      <4>1. i \in DOMAIN chatJobs' /\ chatJobs'[i] = q
        BY <2>6, <3>2
      <4> QED
        BY <4>1
    <3>3. Len(chatJobs) + 1 \in DOMAIN chatJobs'
      BY <2>6
    <3>4. q = p => \E j \in DOMAIN chatJobs' : chatJobs'[j] = q
      BY <2>6, <3>3
    <3> QED
      BY <3>1, <3>2, <3>4 DEF IsQueued
  <2>8. ASSUME NEW q \in MessageIds, message[q].status \in {"started", "finished"}
        PROVE  Before(q)' = Before(q) /\ ReplyTo(q)' = ReplyTo(q)
    <3>1. q # p
      BY <2>2, <2>8
    <3>2. \A r \in MessageIds : Earlier(r, q)' = Earlier(r, q)
      BY <2>2, <2>4, <2>5, <3>1 DEF Earlier
    <3>3. \A r \in MessageIds : Earlier(r, q) => message'[r].made = message[r].made
      BY <2>2, <2>5 DEF Earlier
    <3> QED
      BY <2>5, <3>1, <3>2, <3>3, BeforeKept
  <2>9. JobsApart'
    <3>1. \A i, j \in DOMAIN chatJobs' : i # j => chatJobs'[i] # chatJobs'[j]
      BY <2>2, <2>6 DEF ReplyInv, JobsApart, IsQueued
    <3>2. \A e \in sends' : e \in sends /\ e.id # p /\ e.id \in MessageIds
      BY <1>1, <1>2 DEF p, ChatTyped, SendsTyped, Send
    <3>3. \A e \in sends' : ~IsQueued(e.id)' /\ e.id # writer'.id
      <4> TAKE e \in sends'
      <4>1. e \in sends /\ e.id # p /\ e.id \in MessageIds
        BY <3>2
      <4>2. ~IsQueued(e.id) /\ e.id # writer.id
        BY <4>1 DEF ReplyInv, JobsApart
      <4>3. ~\E i \in DOMAIN chatJobs' : chatJobs'[i] = e.id
        BY <2>6, <4>1, <4>2 DEF IsQueued
      <4> QED
        BY <1>1, <4>2, <4>3 DEF IsQueued
    <3>4. ~IsQueued(writer.id)'
      <4>1. ~IsQueued(writer.id) /\ writer' = writer
        BY <1>1 DEF ReplyInv, JobsApart
      <4>2. ~\E i \in DOMAIN chatJobs' : chatJobs'[i] = writer.id
        BY <2>2, <2>6, <4>1 DEF IsQueued
      <4> QED
        BY <4>1, <4>2 DEF IsQueued
    <3> QED
      BY <1>1, <1>2, <3>1, <3>3, <3>4 DEF JobsApart
  <2>10. Placed'
    <3>1. \A q \in MessageIds : IsSent(q)' => IsSent(q) /\ q # p
      BY <1>1, <1>2 DEF IsSent, p
    <3> QED
      BY <1>1, <2>1, <2>2, <2>4, <2>5, <2>7, <3>1 DEF ReplyInv, Placed
  <2>11. ErrorIsFinal'
    <3>1. \A a \in polls : a.id \in MessageIds
      BY DEF ChatTyped, ViewTyped, Shown
    <3>2. \A e \in drops : e.id \in MessageIds
      BY DEF ChatTyped, ViewTyped, Drop
    <3>3. \A q \in MessageIds : message[q].status \in {"absent", "error"} =>
            message'[q] = message[q]
      BY <2>2, <2>5
    <3> QED
      BY <1>1, <3>1, <3>2, <3>3 DEF ReplyInv, ErrorIsFinal
  <2>12. InTurn'
    <3>1. \A q \in MessageIds : message[q].turn <= tally.turns /\ message[q].turn \in Nat
      BY DEF ReplyInv, InTurn, ChatTyped, MessagesTyped, Message
    <3>2. ASSUME NEW q \in MessageIds  PROVE message'[q].turn <= tally'.turns
      <4>1. CASE q = p
        BY <2>3, <2>4, <4>1
      <4>2. CASE q # p
        <5>1. message'[q].turn = message[q].turn
          BY <2>5, <4>2
        <5> QED
          BY <2>3, <3>1, <5>1
      <4> QED
        BY <4>1, <4>2
    <3>3. ASSUME NEW i \in DOMAIN chatJobs', NEW j \in DOMAIN chatJobs', i < j,
                 message'[chatJobs'[i]] # noMessage, message'[chatJobs'[j]] # noMessage
          PROVE  message'[chatJobs'[i]].turn < message'[chatJobs'[j]].turn
      <4>1. i \in DOMAIN chatJobs /\ i \in Int /\ j \in Int
        BY <2>6, <3>3
      <4>2. chatJobs'[i] = chatJobs[i] /\ chatJobs[i] \in MessageIds /\ chatJobs[i] # p
        BY <2>2, <2>6, <4>1 DEF IsQueued
      <4>3. message'[chatJobs[i]] = message[chatJobs[i]]
        BY <2>5, <4>2
      <4>4. CASE j \in DOMAIN chatJobs
        <5>1. chatJobs'[j] = chatJobs[j] /\ chatJobs[j] \in MessageIds /\ chatJobs[j] # p
          BY <2>2, <2>6, <4>4 DEF IsQueued
        <5>2. message'[chatJobs[j]] = message[chatJobs[j]]
          BY <2>5, <5>1
        <5> QED
          BY <3>3, <4>1, <4>2, <4>3, <4>4, <5>1, <5>2 DEF ReplyInv, InTurn, Sent
      <4>5. CASE j \notin DOMAIN chatJobs
        <5>1. chatJobs'[j] = p
          BY <2>6, <4>5
        <5> QED
          BY <2>3, <2>4, <3>1, <4>2, <4>3, <5>1
      <4> QED
        BY <4>4, <4>5
    <3>4. \A q, r \in MessageIds :
       /\ message'[q].status \in {"started", "finished"} /\ message'[r].status = "delivered" =>
            message'[q].turn < message'[r].turn
       /\ message'[q].status = "finished" /\ message'[r].status = "started" =>
            message'[q].turn < message'[r].turn
      <4> TAKE q, r \in MessageIds
      <4>1. CASE r = p /\ q # p
        <5>1. message'[q].turn = message[q].turn /\ message'[r].turn = tally.turns + 1
          BY <2>4, <2>5, <4>1
        <5> QED
          BY <2>3, <3>1, <5>1
      <4>2. CASE q = p
        BY <2>4, <4>2
      <4>3. CASE r # p /\ q # p
        BY <2>5, <4>3 DEF ReplyInv, InTurn
      <4> QED
        BY <4>1, <4>2, <4>3
    <3> QED
      BY <3>2, <3>3, <3>4 DEF InTurn, Sent
  <2>13. WriterKnows' /\ Answered'
    BY <1>1, <2>4, <2>5, <2>8 DEF ReplyInv, WriterKnows, Answered
  <2> QED
    BY <2>9, <2>10, <2>11, <2>12, <2>13 DEF ReplyInv
<1> QED
  BY <1>3, <1>4

\* What is behind the first element of a sequence.
LEMMA TheRest ==
  ASSUME NEW S, NEW s \in Seq(S), s # <<>>
  PROVE  /\ DOMAIN s = 1..Len(s) /\ Len(s) \in Nat /\ Len(s) >= 1 /\ Head(s) = s[1]
         /\ DOMAIN Tail(s) = 1..(Len(s) - 1)
         /\ \A i \in DOMAIN Tail(s) : i + 1 \in DOMAIN s /\ Tail(s)[i] = s[i + 1]
<1>1. /\ DOMAIN s = 1..Len(s) /\ Len(s) \in Nat /\ Len(s) >= 1 /\ Head(s) = s[1]
  OBVIOUS
<1>2. /\ Tail(s) \in Seq(S) /\ Len(Tail(s)) = Len(s) - 1
      /\ \A i \in 1..(Len(s) - 1) : Tail(s)[i] = s[i + 1]
  BY HeadTailProperties
<1>3. DOMAIN Tail(s) = 1..(Len(s) - 1)
  BY <1>2
<1> QED
  BY <1>1, <1>2, <1>3

\* The first message of the queue is taken, or found to be gone.
LEMMA ReplyTake ==
  ASSUME ChatTyped, ReplyInv, TakeMessage
  PROVE  ReplyInv'
<1> DEFINE p == Head(chatJobs)
           seen == {message[q].made : q \in
                     {r \in MessagesOf(message[p].chat) : message[r].status = "finished"}}
<1>1. /\ chatJobs # <<>> /\ chatJobs' = Tail(chatJobs) /\ writer = noReply
      /\ UNCHANGED <<replies, tally, sends, polls, drops>>
      /\ IF Sent(p)
         THEN /\ writer' = [id |-> p, made |-> message[p].made, step |-> "started",
                            seen |-> seen]
              /\ message' = [message EXCEPT ![p].status = "started"]
         ELSE UNCHANGED <<writer, message>>
  BY DEF TakeMessage, chatAnswers
<1>2. /\ DOMAIN chatJobs = 1..Len(chatJobs) /\ Len(chatJobs) \in Nat /\ Len(chatJobs) >= 1
      /\ p = chatJobs[1] /\ DOMAIN chatJobs' = 1..(Len(chatJobs) - 1)
      /\ \A i \in DOMAIN chatJobs' : i + 1 \in DOMAIN chatJobs /\ chatJobs'[i] = chatJobs[i + 1]
  BY <1>1, TheRest DEF ChatTyped, WriterTyped
<1>3. \A i \in DOMAIN chatJobs : chatJobs[i] \in MessageIds
  BY ElementsOfSeq DEF ChatTyped, WriterTyped
<1>4. p \in MessageIds /\ 1 \in DOMAIN chatJobs
  BY <1>2, <1>3
<1>5. /\ \A i, j \in DOMAIN chatJobs : i # j => chatJobs[i] # chatJobs[j]
      /\ \A d, e \in sends : d.id = e.id => d = e
      /\ \A d \in sends : ~IsQueued(d.id)
  BY DEF ReplyInv, JobsApart
<1>6. \A q : IsQueued(q)' => IsQueued(q) /\ q # p
  <2> SUFFICES ASSUME NEW i \in DOMAIN chatJobs'
               PROVE  IsQueued(chatJobs'[i]) /\ chatJobs'[i] # p
    BY DEF IsQueued
  <2>1. i + 1 \in DOMAIN chatJobs /\ chatJobs'[i] = chatJobs[i + 1] /\ i + 1 # 1
    BY <1>2
  <2> QED
    BY <1>2, <1>4, <1>5, <2>1 DEF IsQueued
<1>7. \A q : IsQueued(q) /\ q # p => IsQueued(q)'
  <2> SUFFICES ASSUME NEW i \in DOMAIN chatJobs, chatJobs[i] # p
               PROVE  \E j \in DOMAIN chatJobs' : chatJobs'[j] = chatJobs[i]
    BY DEF IsQueued
  <2>1. i - 1 \in DOMAIN chatJobs' /\ (i - 1) + 1 = i
    BY <1>2
  <2>2. chatJobs'[i - 1] = chatJobs[i]
    BY <1>2, <2>1
  <2> QED
    BY <2>1, <2>2
<1>8. IsQueued(p)
  BY <1>2, <1>4 DEF IsQueued
<1>9. \A i, j \in DOMAIN chatJobs' : i # j => chatJobs'[i] # chatJobs'[j]
  <2> TAKE i, j \in DOMAIN chatJobs'
  <2>1. /\ i + 1 \in DOMAIN chatJobs /\ chatJobs'[i] = chatJobs[i + 1]
        /\ j + 1 \in DOMAIN chatJobs /\ chatJobs'[j] = chatJobs[j + 1]
        /\ (i # j => i + 1 # j + 1)
    BY <1>2
  <2> QED
    BY <1>5, <2>1
<1>10. ASSUME NEW i \in DOMAIN chatJobs', NEW j \in DOMAIN chatJobs', i < j,
              Sent(chatJobs'[i]), Sent(chatJobs'[j])
       PROVE  message[chatJobs'[i]].turn < message[chatJobs'[j]].turn
  <2>1. /\ i + 1 \in DOMAIN chatJobs /\ chatJobs'[i] = chatJobs[i + 1]
        /\ j + 1 \in DOMAIN chatJobs /\ chatJobs'[j] = chatJobs[j + 1]
        /\ i + 1 < j + 1
    BY <1>2, <1>10
  <2> QED
    BY <1>10, <2>1 DEF ReplyInv, InTurn
<1> HIDE DEF p, seen
<1>11. CASE ~Sent(p)
  <2>1. UNCHANGED <<writer, message>> /\ message[p].status = "absent"
    BY <1>1, <1>4, <1>11, AbsentIsNotSent DEF ChatTyped
  <2>2. \A q \in MessageIds : Before(q)' = Before(q) /\ ReplyTo(q)' = ReplyTo(q)
    BY <2>1 DEF Before, ReplyTo, Earlier
  <2>3. JobsApart'
    <3>1. ~IsQueued(writer.id)' /\ \A d \in sends' : ~IsQueued(d.id)' /\ d.id # writer'.id
      BY <1>1, <1>6, <2>1 DEF ReplyInv, JobsApart, IsQueued
    <3> QED
      BY <1>1, <1>5, <1>9, <3>1 DEF JobsApart
  <2>4. Placed'
    <3>1. \A q \in MessageIds : IsSent(q)' = IsSent(q)
      BY <1>1 DEF IsSent
    <3> QED
      BY <1>1, <1>6, <1>7, <2>1, <3>1 DEF ReplyInv, Placed
  <2>5. ErrorIsFinal'
    BY <1>1, <2>1 DEF ReplyInv, ErrorIsFinal
  <2>6. InTurn'
    BY <1>1, <1>10, <2>1 DEF ReplyInv, InTurn, Sent
  <2>7. WriterKnows' /\ Answered'
    BY <1>1, <2>1, <2>2 DEF ReplyInv, WriterKnows, Answered
  <2> QED
    BY <2>3, <2>4, <2>5, <2>6, <2>7 DEF ReplyInv
<1>12. CASE Sent(p)
  <2>1. /\ writer' = [id |-> p, made |-> message[p].made, step |-> "started", seen |-> seen]
        /\ message' = [message EXCEPT ![p].status = "started"]
    BY <1>1, <1>12
  <2>2. /\ writer'.id = p /\ writer'.made = message[p].made /\ writer'.step = "started"
        /\ writer'.seen = seen
    BY <2>1
  <2>3. /\ message'[p].status = "started" /\ message'[p].turn = message[p].turn
        /\ message'[p].chat = message[p].chat /\ message'[p].made = message[p].made
        /\ \A q \in MessageIds : q # p => message'[q] = message[q]
    <3>1. message \in [MessageIds -> Message] /\ message[p] \in Message
      BY <1>4 DEF ChatTyped, MessagesTyped
    <3> QED
      BY <1>4, <2>1, <3>1 DEF Message
  <2>4. message[p].status = "delivered" /\ replies[p] = <<>>
    <3>1. message[p].status # "absent"
      BY <1>4, <1>12, AbsentIsNotSent DEF ChatTyped
    <3> QED
      BY <1>4, <1>8, <3>1 DEF ReplyInv, Placed
  <2>5. \A q \in MessageIds : Before(q)' = Before(q) /\ ReplyTo(q)' = ReplyTo(q)
    <3> TAKE q \in MessageIds
    <3>1. \A r \in MessageIds : Earlier(r, q)' = Earlier(r, q)
      BY <2>3, <2>4 DEF Earlier
    <3>2. \A r \in MessageIds : message'[r].made = message[r].made
      BY <2>3
    <3> QED
      BY <3>1, <3>2, BeforeKept
  <2>6. \A q \in MessageIds : message[q].status # "started"
    <3>1. writer.id = 0
      BY <1>1 DEF noReply
    <3>2. 0 \notin MessageIds
      BY DEF MessageIds
    <3> QED
      BY <3>1, <3>2 DEF ReplyInv, Placed
  <2>7. seen = Before(p)
    <3>1. \A r \in MessageIds : message[r].status = "finished" => message[r].turn < message[p].turn
      BY <1>4, <2>4 DEF ReplyInv, InTurn
    <3>2. {r \in MessagesOf(message[p].chat) : message[r].status = "finished"}
            = {r \in MessageIds : Earlier(r, p)}
      BY <3>1 DEF MessagesOf, Earlier
    <3> QED
      BY <3>2 DEF seen, Before
  <2>8. JobsApart'
    <3>1. ~IsQueued(writer.id)'
      <4>1. \A q : q = p => ~IsQueued(q)'
        BY <1>6
      <4>2. ~\E i \in DOMAIN chatJobs' : chatJobs'[i] = p
        BY <4>1 DEF IsQueued
      <4> QED
        BY <2>2, <4>2 DEF IsQueued
    <3>2. ASSUME NEW d \in sends'  PROVE ~IsQueued(d.id)' /\ d.id # writer'.id
      <4>1. d \in sends /\ ~IsQueued(d.id)
        BY <1>1, <1>5
      <4>2. ~\E i \in DOMAIN chatJobs' : chatJobs'[i] = d.id
        BY <1>6, <4>1 DEF IsQueued
      <4> QED
        BY <1>8, <2>2, <4>1, <4>2 DEF IsQueued
    <3> QED
      BY <1>1, <1>5, <1>9, <3>1, <3>2 DEF JobsApart
  <2>9. Placed'
    <3>1. \A q \in MessageIds : IsSent(q)' = IsSent(q) /\ (IsSent(q) => q # p)
      BY <1>1, <1>5, <1>8 DEF IsSent
    <3>2. ASSUME NEW q \in MessageIds
          PROVE  /\ IsSent(q)' => message'[q].status \in {"absent", "waiting"}
                 /\ IsQueued(q)' => message'[q].status \in {"absent", "delivered"}
                 /\ message'[q].status = "delivered" => IsQueued(q)'
                 /\ writer'.id = q => message'[q].status \in {"absent", "started"}
                 /\ message'[q].status = "started" => writer'.id = q
                 /\ message'[q].status \in {"waiting", "delivered"} => replies'[q] = <<>>
      <4>1. CASE q = p
        BY <1>6, <2>2, <2>3, <3>1, <4>1
      <4>2. CASE q # p
        BY <1>1, <1>6, <1>7, <2>2, <2>3, <2>6, <3>1, <4>2 DEF ReplyInv, Placed
      <4> QED
        BY <4>1, <4>2
    <3> QED
      BY <3>2 DEF Placed
  <2>10. ErrorIsFinal'
    <3>1. \A a \in polls : a.id \in MessageIds
      BY DEF ChatTyped, ViewTyped, Shown
    <3>2. \A e \in drops : e.id \in MessageIds
      BY DEF ChatTyped, ViewTyped, Drop
    <3>3. \A q \in MessageIds : message[q].status \in {"absent", "error"} =>
            message'[q] = message[q]
      BY <2>3, <2>4
    <3> QED
      BY <1>1, <3>1, <3>2, <3>3 DEF ReplyInv, ErrorIsFinal
  <2>11. InTurn'
    <3>1. \A q \in MessageIds : message'[q].turn = message[q].turn
      BY <2>3
    <3>2. ASSUME NEW i \in DOMAIN chatJobs', NEW j \in DOMAIN chatJobs', i < j,
                 message'[chatJobs'[i]] # noMessage, message'[chatJobs'[j]] # noMessage
          PROVE  message'[chatJobs'[i]].turn < message'[chatJobs'[j]].turn
      <4>1. /\ chatJobs'[i] \in MessageIds /\ chatJobs'[i] # p
            /\ chatJobs'[j] \in MessageIds /\ chatJobs'[j] # p
        BY <1>2, <1>3, <1>6 DEF IsQueued
      <4>2. message'[chatJobs'[i]] = message[chatJobs'[i]]
            /\ message'[chatJobs'[j]] = message[chatJobs'[j]]
        BY <2>3, <4>1
      <4> QED
        BY <1>10, <3>2, <4>2 DEF Sent
    <3>3. \A q, r \in MessageIds :
       /\ message'[q].status \in {"started", "finished"} /\ message'[r].status = "delivered" =>
            message'[q].turn < message'[r].turn
       /\ message'[q].status = "finished" /\ message'[r].status = "started" =>
            message'[q].turn < message'[r].turn
      <4> TAKE q, r \in MessageIds
      <4>1. CASE r = p
        BY <2>3, <2>4, <4>1 DEF ReplyInv, InTurn
      <4>2. CASE r # p /\ q # p
        BY <2>3, <2>6, <4>2 DEF ReplyInv, InTurn
      <4>3. CASE r # p /\ q = p
        <5>1. message[r].status = "delivered" => message[p].turn < message[r].turn
          <6> HAVE message[r].status = "delivered"
          <6>1. IsQueued(r) /\ Sent(r)
            BY AbsentIsNotSent DEF ReplyInv, Placed, ChatTyped
          <6>2. PICK i \in DOMAIN chatJobs : chatJobs[i] = r
            BY <6>1 DEF IsQueued
          <6>3. 1 < i
            BY <1>2, <4>3, <6>2
          <6> QED
            BY <1>2, <1>4, <1>12, <6>1, <6>2, <6>3 DEF ReplyInv, InTurn
        <5> QED
          BY <2>3, <2>6, <4>3, <5>1
      <4> QED
        BY <4>1, <4>2, <4>3
    <3> QED
      BY <1>1, <3>1, <3>2, <3>3 DEF ReplyInv, InTurn, Sent
  <2>12. WriterKnows' /\ Answered'
    <3>1. WriterKnows'
      BY <1>1, <2>2, <2>3, <2>4, <2>5, <2>7 DEF WriterKnows
    <3>2. Answered'
      BY <1>1, <2>3, <2>5 DEF ReplyInv, Answered
    <3> QED
      BY <3>1, <3>2
  <2> QED
    BY <2>8, <2>9, <2>10, <2>11, <2>12 DEF ReplyInv
<1> QED
  BY <1>11, <1>12

\* The model has run, and its outputs are saved.
LEMMA ReplySaved ==
  ASSUME ChatTyped, ReplyInv, Generate \/ SaveReply
  PROVE  ReplyInv'
<1> DEFINE p == writer.id
<1>1. /\ UNCHANGED <<message, chatJobs, tally, sends, polls, drops>>
      /\ p \in MessageIds /\ writer.step # "idle"
  BY DEF Generate, SaveReply, chatTables, chatAnswers, ChatTyped, WriterTyped, noReply
<1> HIDE DEF p
<1>2. \A q \in MessageIds : Before(q)' = Before(q) /\ ReplyTo(q)' = ReplyTo(q)
  BY <1>1 DEF Before, ReplyTo, Earlier
<1>3. \A q \in MessageIds : IsQueued(q)' = IsQueued(q) /\ IsSent(q)' = IsSent(q)
  BY <1>1 DEF IsQueued, IsSent
<1>4. 0 \notin MessageIds
  BY DEF MessageIds
<1>5. ErrorIsFinal' /\ InTurn'
  BY <1>1 DEF ReplyInv, ErrorIsFinal, InTurn, Sent
<1>6. CASE Generate /\ ~Sent(p)
  <2>1. writer' = noReply /\ writer'.id = 0 /\ UNCHANGED replies /\ message[p].status = "absent"
    BY <1>1, <1>6, AbsentIsNotSent DEF Generate, noReply, chatTables, p, ChatTyped
  <2>2. JobsApart'
    <3>1. \A i \in DOMAIN chatJobs : chatJobs[i] # 0
      BY <1>4, ElementsOfSeq DEF ChatTyped, WriterTyped
    <3>2. \A d \in sends : d.id # 0
      BY <1>4 DEF ChatTyped, SendsTyped, Send
    <3> QED
      BY <1>1, <2>1, <3>1, <3>2 DEF ReplyInv, JobsApart, IsQueued
  <2>3. Placed'
    <3>1. \A q \in MessageIds : message[q].status # "started"
      BY <2>1 DEF ReplyInv, Placed, p
    <3> QED
      BY <1>1, <1>3, <1>4, <2>1, <3>1 DEF ReplyInv, Placed
  <2>4. WriterKnows' /\ Answered'
    BY <1>1, <1>2, <1>4, <2>1 DEF ReplyInv, WriterKnows, Answered
  <2> QED
    BY <1>5, <2>2, <2>3, <2>4 DEF ReplyInv
<1>7. CASE Generate /\ Sent(p)
  <2>1. /\ writer.step = "started" /\ writer' = [writer EXCEPT !.step = "replying"]
        /\ UNCHANGED replies
    BY <1>7 DEF Generate, chatTables, p
  <2>2. writer'.id = writer.id /\ writer'.made = writer.made /\ writer'.seen = writer.seen
        /\ writer'.step = "replying"
    BY <2>1 DEF ChatTyped, WriterTyped, noReply
  <2>3. JobsApart'
    BY <1>1, <2>2 DEF ReplyInv, JobsApart, IsQueued
  <2>4. Placed'
    BY <1>1, <1>3, <2>1, <2>2 DEF ReplyInv, Placed
  <2>5. WriterKnows' /\ Answered'
    BY <1>1, <1>2, <2>1, <2>2 DEF ReplyInv, WriterKnows, Answered
  <2> QED
    BY <1>5, <2>3, <2>4, <2>5 DEF ReplyInv
<1>8. CASE SaveReply
  <2>1. /\ writer.step = "replying" /\ writer' = [writer EXCEPT !.step = "replied"]
        /\ replies' = [replies EXCEPT ![p] =
                         Append(@, [made |-> writer.made, seen |-> writer.seen])]
    BY <1>8 DEF SaveReply, p
  <2>2. writer'.id = writer.id /\ writer'.made = writer.made /\ writer'.seen = writer.seen
        /\ writer'.step = "replied"
    BY <2>1 DEF ChatTyped, WriterTyped, noReply
  <2>3. /\ \A q \in MessageIds : q # p => replies'[q] = replies[q]
        /\ replies'[p] = Append(replies[p], [made |-> writer.made, seen |-> writer.seen])
    BY <1>1, <2>1 DEF ChatTyped, MessagesTyped
  <2>4. message[p].status \in {"absent", "started"}
    BY <1>1 DEF ReplyInv, Placed, p
  <2>5. JobsApart'
    BY <1>1, <2>2 DEF ReplyInv, JobsApart, IsQueued
  <2>6. Placed'
    BY <1>1, <1>3, <2>2, <2>3, <2>4 DEF ReplyInv, Placed
  <2>7. ASSUME message[p].status = "started"
        PROVE  replies'[p] = ReplyTo(p)
    <3>1. /\ replies[p] = <<>> /\ writer.made = message[p].made /\ writer.seen = Before(p)
      BY <1>1, <2>1, <2>7 DEF ReplyInv, WriterKnows, p
    <3> QED
      BY <2>3, <3>1 DEF ReplyTo
  <2>8. WriterKnows'
    <3>1. ASSUME NEW q \in MessageIds, writer'.id = q, message'[q].status = "started"
          PROVE  /\ writer'.made = message'[q].made /\ writer'.seen = Before(q)'
                 /\ replies'[q] = IF writer'.step = "replied" THEN ReplyTo(q)' ELSE <<>>
      <4>1. q = p
        BY <2>2, <3>1 DEF p
      <4>2. message[p].status = "started"
        BY <1>1, <3>1, <4>1
      <4>3. writer.made = message[p].made /\ writer.seen = Before(p)
        BY <1>1, <4>2 DEF ReplyInv, WriterKnows, p
      <4> QED
        BY <1>1, <1>2, <2>2, <2>7, <4>1, <4>2, <4>3
    <3> QED
      BY <3>1 DEF WriterKnows
  <2>9. Answered'
    BY <1>1, <1>2, <2>3, <2>4 DEF ReplyInv, Answered
  <2> QED
    BY <1>5, <2>5, <2>6, <2>8, <2>9 DEF ReplyInv
<1> QED
  BY <1>6, <1>7, <1>8

\* Work on a message ends.
LEMMA ReplyEnds ==
  ASSUME ChatTyped, ReplyInv, MessageFails \/ FinishMessage
  PROVE  ReplyInv'
<1> DEFINE p == writer.id
<1>1. /\ UNCHANGED <<replies, chatJobs, tally, sends, polls, drops>>
      /\ p \in MessageIds /\ writer' = noReply /\ writer'.id = 0
  BY DEF MessageFails, FinishMessage, chatAnswers, ChatTyped, WriterTyped, noReply
<1>2. PICK status \in {"error", "finished"} :
        /\ message' = IF Sent(p) THEN [message EXCEPT ![p].status = status] ELSE message
        /\ status = "finished" => writer.step = "replied"
  BY DEF MessageFails, FinishMessage
<1> HIDE DEF p
<1>3. 0 \notin MessageIds
  BY DEF MessageIds
<1>4. \A q \in MessageIds : IsQueued(q)' = IsQueued(q) /\ IsSent(q)' = IsSent(q)
  BY <1>1 DEF IsQueued, IsSent
<1>5. JobsApart'
  <2>1. \A i \in DOMAIN chatJobs : chatJobs[i] # 0
    BY <1>3, ElementsOfSeq DEF ChatTyped, WriterTyped
  <2>2. \A d \in sends : d.id # 0
    BY <1>3 DEF ChatTyped, SendsTyped, Send
  <2> QED
    BY <1>1, <2>1, <2>2 DEF ReplyInv, JobsApart, IsQueued
<1>6. message[p].status \in {"absent", "started"}
      /\ \A q \in MessageIds : message[q].status = "started" => q = p
  BY <1>1 DEF ReplyInv, Placed, p
<1>7. CASE ~Sent(p)
  <2>1. UNCHANGED message /\ message[p].status = "absent"
    BY <1>1, <1>2, <1>7, AbsentIsNotSent DEF ChatTyped
  <2>2. \A q \in MessageIds : Before(q)' = Before(q) /\ ReplyTo(q)' = ReplyTo(q)
    BY <2>1 DEF Before, ReplyTo, Earlier
  <2>3. Placed'
    BY <1>1, <1>3, <1>4, <1>6, <2>1 DEF ReplyInv, Placed
  <2>4. ErrorIsFinal' /\ InTurn'
    BY <1>1, <2>1 DEF ReplyInv, ErrorIsFinal, InTurn, Sent
  <2>5. WriterKnows' /\ Answered'
    BY <1>1, <1>3, <2>1, <2>2 DEF ReplyInv, WriterKnows, Answered
  <2> QED
    BY <1>5, <2>3, <2>4, <2>5 DEF ReplyInv
<1>8. CASE Sent(p)
  <2>1. message[p].status = "started"
    BY <1>1, <1>6, <1>8, AbsentIsNotSent DEF ChatTyped
  <2>2. /\ message'[p].status = status /\ message'[p].turn = message[p].turn
        /\ message'[p].chat = message[p].chat /\ message'[p].made = message[p].made
        /\ \A q \in MessageIds : q # p => message'[q] = message[q]
    <3>1. message \in [MessageIds -> Message] /\ message[p] \in Message
      BY <1>1 DEF ChatTyped, MessagesTyped
    <3> QED
      BY <1>1, <1>2, <1>8, <3>1 DEF Message
  <2>3. \A q \in MessageIds : message[q].turn \in Nat
    BY DEF ChatTyped, MessagesTyped, Message
  <2>4. \A q \in MessageIds : message[q].status = "finished" => message[q].turn < message[p].turn
    BY <1>1, <2>1 DEF ReplyInv, InTurn
  <2>5. ASSUME NEW q \in MessageIds, message'[q].status = "finished"
        PROVE  Before(q)' = Before(q) /\ ReplyTo(q)' = ReplyTo(q)
    <3>1. message[q].turn <= message[p].turn
      BY <1>1, <2>2, <2>3, <2>4, <2>5
    <3>2. ASSUME NEW r \in MessageIds  PROVE Earlier(r, q)' = Earlier(r, q)
      <4>1. message'[q].turn = message[q].turn /\ message'[q].chat = message[q].chat
            /\ message'[r].turn = message[r].turn /\ message'[r].chat = message[r].chat
        BY <2>2
      <4>2. CASE r = p
        BY <1>1, <2>1, <2>3, <3>1, <4>1, <4>2 DEF Earlier
      <4>3. CASE r # p
        BY <2>2, <4>1, <4>3 DEF Earlier
      <4> QED
        BY <4>2, <4>3
    <3>3. \A r \in MessageIds : message'[r].made = message[r].made
      BY <2>2
    <3> QED
      BY <3>2, <3>3, BeforeKept
  <2>6. Placed'
    <3>1. ~IsQueued(p) /\ ~IsSent(p)
      BY <1>1, <2>1 DEF ReplyInv, Placed
    <3> QED
      BY <1>1, <1>3, <1>4, <1>6, <2>2, <3>1 DEF ReplyInv, Placed
  <2>7. ErrorIsFinal'
    <3>1. \A a \in polls : a.id \in MessageIds
      BY DEF ChatTyped, ViewTyped, Shown
    <3>2. \A e \in drops : e.id \in MessageIds
      BY DEF ChatTyped, ViewTyped, Drop
    <3>3. \A q \in MessageIds : message[q].status \in {"absent", "error"} =>
            message'[q] = message[q]
      BY <2>1, <2>2
    <3> QED
      BY <1>1, <3>1, <3>2, <3>3 DEF ReplyInv, ErrorIsFinal
  <2>8. InTurn'
    <3>1. \A q \in MessageIds : message'[q].turn = message[q].turn
      BY <2>2
    <3>2. \A i \in DOMAIN chatJobs : chatJobs[i] \in MessageIds /\ chatJobs[i] # p
      BY <1>1, <2>1, ElementsOfSeq DEF ChatTyped, WriterTyped, ReplyInv, Placed, IsQueued
    <3>3. \A i \in DOMAIN chatJobs : message'[chatJobs[i]] = message[chatJobs[i]]
      BY <2>2, <3>2
    <3>4. \A q, r \in MessageIds :
       /\ message'[q].status \in {"started", "finished"} /\ message'[r].status = "delivered" =>
            message'[q].turn < message'[r].turn
       /\ message'[q].status = "finished" /\ message'[r].status = "started" =>
            message'[q].turn < message'[r].turn
      <4> TAKE q, r \in MessageIds
      <4>1. message'[r].status = "delivered" => r # p /\ message[r].status = "delivered"
        BY <2>2
      <4>2. message'[r].status # "started"
        BY <1>6, <2>2
      <4>3. message'[q].status \in {"started", "finished"} =>
              message[q].status \in {"started", "finished"}
        BY <2>1, <2>2
      <4> QED
        BY <3>1, <4>1, <4>2, <4>3 DEF ReplyInv, InTurn
    <3> QED
      BY <1>1, <3>1, <3>3, <3>4 DEF ReplyInv, InTurn, Sent
  <2>9. WriterKnows'
    BY <1>1, <1>3 DEF WriterKnows
  <2>10. Answered'
    <3>1. ASSUME NEW q \in MessageIds, message'[q].status = "finished"
          PROVE  replies'[q] = ReplyTo(q)'
      <4>1. CASE q = p
        <5>1. writer.step = "replied"
          BY <1>2, <2>2, <3>1, <4>1
        <5>2. replies[p] = ReplyTo(p)
          BY <1>1, <2>1, <5>1 DEF ReplyInv, WriterKnows, p
        <5> QED
          BY <1>1, <2>5, <3>1, <4>1, <5>2
      <4>2. CASE q # p
        BY <1>1, <2>2, <2>5, <3>1, <4>2 DEF ReplyInv, Answered
      <4> QED
        BY <4>1, <4>2
    <3> QED
      BY <3>1 DEF Answered
  <2> QED
    BY <1>5, <2>6, <2>7, <2>8, <2>9, <2>10 DEF ReplyInv
<1> QED
  BY <1>7, <1>8

\* A key that came back stays a key that came back.
LEMMA ConfusedStays ==
  ASSUME ChatTyped, GenerativeChatNext
  PROVE  confused => confused'
  BY DEF ChatTyped, ViewTyped, GenerativeChatNext, ChooseChat, DeleteChat, ChatDeleted, NewChat,
         UpdateParameters, LeaveChat, ReloadChats, FetchArrives, SendMessage, SendStep,
         MessageArrives, EnqueueMessage, SendFails, ChatAsks, PollArrives, DropStep, DropHandled,
         DropArrives, Writer, TakeMessage, MessageFails, Generate, SaveReply, FinishMessage

\* In the initial state there is nothing to be confused.
LEMMA ReplyInit == GenerativeChatInit => ReplyInv
<1> SUFFICES ASSUME GenerativeChatInit  PROVE ReplyInv
  OBVIOUS
<1>1. /\ \A p \in MessageIds : message[p].status = "absent" /\ message[p].turn = 0
      /\ chatJobs = <<>> /\ writer.id = 0 /\ sends = {} /\ polls = {} /\ drops = {}
      /\ tally.turns = 0 /\ 0 \notin MessageIds
  BY DEF GenerativeChatInit, noMessage, noReply, MessageIds
<1>2. DOMAIN chatJobs = {}
  BY <1>1
<1>3. JobsApart /\ Placed /\ ErrorIsFinal
  BY <1>1, <1>2 DEF JobsApart, Placed, ErrorIsFinal, IsQueued, IsSent
<1>4. InTurn /\ WriterKnows /\ Answered
  BY <1>1, <1>2 DEF InTurn, WriterKnows, Answered
<1> QED
  BY <1>3, <1>4 DEF ReplyInv

\* Every step keeps messages and replies together.
LEMMA ReplyStep ==
  ASSUME ChatTyped, ReplyInv, [GenerativeChatNext]_generativeChatVars, ~confused'
  PROVE  ReplyInv'
<1>1. CASE UNCHANGED generativeChatVars
  <2>1. UNCHANGED <<chatTables, chatQueue, tally, sends, polls, drops>>
    BY <1>1 DEF generativeChatVars, chatAnswers
  <2> QED
    BY <2>1, ReplyPage
<1>2. ASSUME NEW s \in 1..MaxChats, ChooseChat(s)  PROVE ReplyInv'
  <2>1. UNCHANGED <<chatTables, chatQueue, sends, polls, drops>> /\ tally'.turns = tally.turns
    BY <1>2 DEF ChooseChat, Event, ChatTyped, SendsTyped
  <2> QED
    BY <2>1, ReplyPage
<1>3. ASSUME NEW s \in 1..MaxChats, DeleteChat(s)  PROVE ReplyInv'
  <2>1. /\ UNCHANGED <<chatTables, chatQueue>> /\ tally'.turns = tally.turns
        /\ (sends' = sends \/ sends' = {[d EXCEPT !.live = FALSE] : d \in sends})
        /\ (UNCHANGED <<polls, drops>> \/ Unmount)
    BY <1>3 DEF DeleteChat, Event, ChatTyped, SendsTyped
  <2> QED
    BY <2>1, ReplyPage
<1>4. ASSUME NEW s \in 1..MaxChats, ChatDeleted(s)  PROVE ReplyInv'
  BY <1>4, ReplyChatDeleted
<1>5. CASE NewChat
  <2>1. UNCHANGED <<message, replies, chatJobs, writer, sends, polls, drops, tally>>
    BY <1>5 DEF NewChat, chatQueue
  <2>2. ErrorIsFinal' /\ \A d, e \in sends : d.id = e.id => d = e
    BY <2>1 DEF ReplyInv, ErrorIsFinal, JobsApart
  <2> QED
    BY <2>1, <2>2, ReplyKept
<1>6. CASE UpdateParameters \/ LeaveChat \/ ReloadChats \/ FetchArrives
  <2>1. /\ UNCHANGED <<chatTables, chatQueue>> /\ tally'.turns = tally.turns
        /\ (sends' \subseteq sends \/ sends' = {[d EXCEPT !.live = FALSE] : d \in sends})
        /\ (UNCHANGED <<polls, drops>> \/ Unmount)
    BY <1>6 DEF UpdateParameters, LeaveChat, ReloadChats, FetchArrives, Event, ChatTyped, SendsTyped
  <2> QED
    BY <2>1, ReplyPage
<1>7. CASE SendMessage
  BY <1>7, ReplySend
<1>8. ASSUME NEW d \in sends, MessageArrives(d) \/ EnqueueMessage(d)  PROVE ReplyInv'
  BY <1>8, ReplyArrives, ReplyEnqueue
<1>9. ASSUME NEW d \in sends, SendFails(d)  PROVE ReplyInv'
  <2>1. /\ UNCHANGED <<chatTables, chatQueue, polls, drops>> /\ tally'.turns = tally.turns
        /\ sends' \subseteq sends
    BY <1>9 DEF SendFails, Event, ChatTyped, SendsTyped
  <2> QED
    BY <2>1, ReplyPage
<1>10. CASE \E m \in shownChat : ChatAsks(m)
  BY <1>10, ReplyAsked
<1>11. CASE \E a \in polls : PollArrives(a)
  BY <1>11, ReplyAsked
<1>12. ASSUME NEW d \in drops, DropHandled(d) \/ DropArrives(d)  PROVE ReplyInv'
  BY <1>12, ReplyDropped, ReplyAsked
<1>13. CASE Writer
  BY <1>13, ReplyTake, ReplySaved, ReplyEnds DEF Writer
<1> QED
  BY <1>1, <1>2, <1>3, <1>4, <1>5, <1>6, <1>7, <1>8, <1>9, <1>10, <1>11, <1>12, <1>13
     DEF GenerativeChatNext, SendStep, DropStep

\* A FINISHED message has one reply, its own, made from the messages of its
\* chat that were enqueued before it and answered.
THEOREM RepliesAreOwnHolds == GenerativeChatSpec => []RepliesAreOwn
<1> DEFINE ChatInv == ChatTyped /\ (~confused => ReplyInv)
<1>1. GenerativeChatInit => ChatInv
  BY ChatTypedInit, ReplyInit
<1>2. ChatInv /\ [GenerativeChatNext]_generativeChatVars => ChatInv'
  <2> SUFFICES ASSUME ChatInv, [GenerativeChatNext]_generativeChatVars  PROVE ChatInv'
    OBVIOUS
  <2>1. ChatTyped'
    BY ChatTypedStep
  <2>2. ~confused' => ~confused
    BY ConfusedStays DEF generativeChatVars
  <2>3. ~confused' => ReplyInv'
    BY <2>2, ReplyStep
  <2> QED
    BY <2>1, <2>3
<1>3. ChatInv => RepliesAreOwn
  <2> SUFFICES ASSUME ChatInv, ~confused, NEW p \in MessageIds, message[p].status = "finished"
               PROVE  replies[p] = <<[made |-> message[p].made,
                        seen |-> {message[q].made : q \in
                          {r \in MessagesOf(message[p].chat) : message[r].status = "finished"
                                                   /\ message[r].turn < message[p].turn}}]>>
    BY DEF RepliesAreOwn
  <2>1. {r \in MessagesOf(message[p].chat) : message[r].status = "finished"
                                                   /\ message[r].turn < message[p].turn}
          = {r \in MessageIds : Earlier(r, p)}
    BY DEF MessagesOf, Earlier
  <2>2. replies[p] = ReplyTo(p)
    BY DEF ReplyInv, Answered
  <2> QED
    BY <2>1, <2>2 DEF ReplyTo, Before
<1> QED
  BY <1>1, <1>2, <1>3, PTL DEF GenerativeChatSpec

-----------------------------------------------------------------------------
(* The chat that is open follows its session: what it shows, or will show    *)
(* when it is told what is under way.                                        *)

IsOver(status) == status \in {"finished", "error"}
DonePoll(p) == [id |-> p, step |-> "done", live |-> TRUE]
IdsOf(rows) == {m.id : m \in rows}

\* Who shows these messages has those of session s, but for one that is being
\* sent and one whose deletion was answered.
Follows(ids, s) ==
  /\ \A p \in MessagesOf(s) \ ids : \E d \in sends : d.id = p /\ d.step = "posted" /\ d.live
  /\ \A p \in ids \ MessagesOf(s) : DonePoll(p) \in drops

\* With no chat open nothing is told to any.
NothingOpen == openChat = 0 =>
  /\ shownChat = {} /\ fetches = <<>> /\ polls = {} /\ ~sending
  /\ \A d \in sends : ~d.live
  /\ \A d \in drops : d.step = "asked" /\ ~d.live

\* What is being sent to a session that is there is there and has not been
\* enqueued, and nothing else waits for that.
SendsKnow ==
  /\ \A d \in sends : d.live /\ d.chat \in chats => Sent(d.id)
  /\ \A d \in sends : Sent(d.id) => message[d.id].chat = d.chat
  /\ \A p \in MessageIds : message[p].status = "waiting" => IsSent(p)

\* A deletion that was answered is done.
DropsKnow == \A d \in drops : d.step = "done" => d.live /\ ~Sent(d.id)

\* The input is disabled until a list arrives or a message is enqueued.
InputReturns == sending =>
  fetches # <<>> \/ \E d \in sends : d.live /\ d.chat = openChat

\* What is told of an end is so, and stays so.
Truthful(m) ==
  /\ m.status = "finished" => m.answered
  /\ IsOver(m.status) => message[m.id].status \in {"absent", m.status}
AnswersTruthful ==
  /\ \A m \in shownChat \cup polls : Truthful(m)
  /\ \A i \in DOMAIN fetches : \A m \in fetches[i].rows : Truthful(m)

\* A list that will replace what is shown follows its session; with none
\* under way what is shown does.
ListsFollow == \A i \in DOMAIN fetches :
  ~fetches[i].late /\ fetches[i].chat \in chats => Follows(IdsOf(fetches[i].rows), fetches[i].chat)
ShownFollows == openChat # 0 /\ fetches = <<>> => Follows(ShownIds, openChat)

CurrentInv ==
  /\ NothingOpen /\ SendsKnow /\ DropsKnow /\ InputReturns /\ AnswersTruthful
  /\ ListsFollow /\ ShownFollows

-----------------------------------------------------------------------------
\* What was about to be told is about to be told.
StillSent == \A d \in sends : d.step = "posted" /\ d.live =>
  \E e \in sends' : e.id = d.id /\ e.step = "posted" /\ e.live
StillDropped == \A p : DonePoll(p) \in drops => DonePoll(p) \in drops'

\* An end is not undone, and a message that is gone does not come back.
EndsStay == \A p \in MessageIds :
  IsOver(message[p].status) \/ message[p].status = "absent" =>
    message'[p].status \in {"absent", message[p].status}

\* Where the messages of a session stay, who follows it goes on to.
LEMMA FollowsStays ==
  ASSUME NEW ids, NEW s, Follows(ids, s), MessagesOf(s)' = MessagesOf(s), StillSent, StillDropped
  PROVE  Follows(ids, s)'
  BY DEF Follows, StillSent, StillDropped

\* So do the lists under way, those that were there before.
LEMMA MessageListsStay ==
  ASSUME ListsFollow, StillSent, StillDropped,
         \A s \in chats' : MessagesOf(s)' = MessagesOf(s),
         \A i \in DOMAIN fetches' : ~fetches'[i].late /\ fetches'[i].chat \in chats' =>
           \E j \in DOMAIN fetches :
             /\ ~fetches[j].late /\ fetches[j].chat \in chats
             /\ fetches[j].chat = fetches'[i].chat /\ fetches[j].rows = fetches'[i].rows
  PROVE  ListsFollow'
<1> SUFFICES ASSUME NEW i \in DOMAIN fetches', ~fetches'[i].late, fetches'[i].chat \in chats'
             PROVE  Follows(IdsOf(fetches[i].rows), fetches[i].chat)'
  BY DEF ListsFollow
<1>1. PICK j \in DOMAIN fetches :
        /\ ~fetches[j].late /\ fetches[j].chat \in chats
        /\ fetches[j].chat = fetches'[i].chat /\ fetches[j].rows = fetches'[i].rows
  OBVIOUS
<1>2. PICK ids : ids = IdsOf(fetches[j].rows)
  OBVIOUS
<1>3. PICK s : s = fetches[j].chat
  OBVIOUS
<1>4. Follows(ids, s)
  BY <1>1, <1>2, <1>3 DEF ListsFollow
<1>5. MessagesOf(s)' = MessagesOf(s)
  BY <1>1, <1>3
<1>6. Follows(ids, s)'
  BY <1>4, <1>5, FollowsStays
<1>7. ids = IdsOf(fetches'[i].rows) /\ s = fetches'[i].chat
  BY <1>1, <1>2, <1>3
<1> QED
  BY <1>6, <1>7 DEF Follows, IdsOf

\* So does what is shown.
LEMMA ShownStays ==
  ASSUME ShownFollows, UNCHANGED <<openChat, shownChat>>, fetches' = <<>> => fetches = <<>>,
         openChat # 0 => MessagesOf(openChat)' = MessagesOf(openChat), StillSent, StillDropped
  PROVE  ShownFollows'
<1> SUFFICES ASSUME openChat # 0, fetches = <<>>  PROVE Follows(ShownIds, openChat)'
  BY DEF ShownFollows
<1>1. PICK ids : ids = ShownIds
  OBVIOUS
<1>2. PICK s : s = openChat
  OBVIOUS
<1>3. Follows(ids, s) /\ MessagesOf(s)' = MessagesOf(s)
  BY <1>1, <1>2 DEF ShownFollows
<1>4. Follows(ids, s)'
  BY <1>3, FollowsStays
<1> QED
  BY <1>1, <1>2, <1>4 DEF Follows, ShownIds

\* What was truthful stays so while ends are not undone.
LEMMA TruthStays ==
  ASSUME EndsStay, NEW m, m.id \in MessageIds, Truthful(m), ChatTyped
  PROVE  Truthful(m)'
  BY DEF EndsStay, Truthful, IsOver

\* So what is told does.
LEMMA AnswersStay ==
  ASSUME ChatTyped, AnswersTruthful, EndsStay,
         \A m \in shownChat' \cup polls' : m \in shownChat \cup polls \/ Truthful(m)',
         \A i \in DOMAIN fetches' :
           \/ \E j \in DOMAIN fetches : fetches'[i].rows = fetches[j].rows
           \/ \A m \in fetches'[i].rows : Truthful(m)'
  PROVE  AnswersTruthful'
<1>1. \A m \in shownChat \cup polls : m.id \in MessageIds /\ Truthful(m)
  BY DEF ChatTyped, ViewTyped, Shown, AnswersTruthful
<1>2. \A m \in shownChat \cup polls : Truthful(m)'
  BY <1>1, TruthStays
<1>3. ASSUME NEW j \in DOMAIN fetches, NEW m \in fetches[j].rows  PROVE Truthful(m)'
  <2>1. fetches[j] \in Fetched
    BY ElementsOfSeq DEF ChatTyped, ViewTyped
  <2>2. m.id \in MessageIds /\ Truthful(m)
    BY <2>1 DEF Fetched, Shown, AnswersTruthful
  <2> QED
    BY <2>2, TruthStays
<1> QED
  BY <1>2, <1>3 DEF AnswersTruthful

\* What the API tells of a message is truthful: one that is FINISHED has its
\* reply.
LEMMA AnswerIsTruthful ==
  ASSUME ChatTyped, ReplyInv, NEW p \in MessageIds, Sent(p)
  PROVE  Truthful(AnswerOf(p))
<1>1. /\ AnswerOf(p).id = p /\ AnswerOf(p).status = message[p].status
      /\ AnswerOf(p).answered = (replies[p] # <<>>)
  BY AnswersTyped DEF ChatTyped
<1>2. message[p].status = "finished" => replies[p] # <<>>
  <2>1. PICK r : r = [made |-> message[p].made, seen |-> Before(p)]
    OBVIOUS
  <2>2. message[p].status = "finished" => replies[p] = <<r>>
    BY <2>1 DEF ReplyInv, Answered, ReplyTo
  <2> QED
    BY <2>2
<1> QED
  BY <1>1, <1>2 DEF Truthful

\* The consumer writes statuses, and nothing is told.
LEMMA CurrentKept ==
  ASSUME ChatTyped, CurrentInv, EndsStay,
         UNCHANGED <<chats, chatView, sends, fetches, polls, drops>>,
         \A p \in MessageIds : Sent(p)' = Sent(p) /\ message'[p].chat = message[p].chat
           /\ (message'[p].status = "waiting" => message[p].status = "waiting")
  PROVE  CurrentInv'
<1>1. UNCHANGED <<chats, openChat, shownChat, sending, sends, fetches, polls, drops>>
  BY DEF chatView
<1>2. \A s : MessagesOf(s)' = MessagesOf(s)
  BY DEF MessagesOf
<1>3. StillSent /\ StillDropped
  BY <1>1 DEF StillSent, StillDropped
<1>4. NothingOpen' /\ InputReturns'
  BY <1>1 DEF CurrentInv, NothingOpen, InputReturns
<1>5. SendsKnow' /\ DropsKnow'
  <2>1. \A d \in sends : d.id \in MessageIds
    BY DEF ChatTyped, SendsTyped, Send
  <2>2. \A d \in drops : d.id \in MessageIds
    BY DEF ChatTyped, ViewTyped, Drop
  <2>3. \A p \in MessageIds : IsSent(p)' = IsSent(p)
    BY <1>1 DEF IsSent
  <2> QED
    BY <1>1, <2>1, <2>2, <2>3 DEF CurrentInv, SendsKnow, DropsKnow
<1>6. AnswersTruthful'
  BY <1>1, AnswersStay DEF CurrentInv
<1>7. ListsFollow'
  BY <1>1, <1>2, <1>3, MessageListsStay DEF CurrentInv
<1>8. ShownFollows'
  BY <1>1, <1>2, <1>3, ShownStays DEF CurrentInv
<1> QED
  BY <1>4, <1>5, <1>6, <1>7, <1>8 DEF CurrentInv

\* A chat is fetched: the list has the messages of its session.
LEMMA CurrentAsked ==
  ASSUME ChatTyped, ReplyInv, CurrentInv, NEW s \in 1..MaxChats, Fetch(s), openChat' = s,
         chats' = chats \/ (openChat = 0 /\ chats \subseteq chats'),
         UNCHANGED <<message, replies, shownChat, sending, sends, polls, drops>>
  PROVE  CurrentInv'
<1> DEFINE rows == {AnswerOf(p) : p \in MessagesOf(s)}
           list == [chat |-> s, rows |-> rows, late |-> FALSE]
<1>1. \A p \in MessagesOf(s) : p \in MessageIds /\ Sent(p)
  BY DEF MessagesOf, Sent, noMessage
<1>2. \A p \in MessagesOf(s) : AnswerOf(p) \in Shown /\ AnswerOf(p).id = p /\ Truthful(AnswerOf(p))
  BY <1>1, AnswersTyped, AnswerIsTruthful DEF ChatTyped
<1>3. rows \subseteq Shown /\ IdsOf(rows) = MessagesOf(s) /\ \A m \in rows : Truthful(m)
  BY <1>2 DEF IdsOf
<1>4. fetches' = Append(fetches, list) /\ list.rows = rows /\ list.chat = s /\ s # 0
  BY DEF Fetch
<1>5. list \in Fetched
  <2> HIDE DEF rows
  <2> QED
    BY <1>3 DEF Fetched
<1> HIDE DEF rows, list
<1>6. /\ fetches' # <<>> /\ DOMAIN fetches' = 1..(Len(fetches) + 1)
      /\ DOMAIN fetches = 1..Len(fetches) /\ Len(fetches) \in Nat
      /\ \A i \in DOMAIN fetches : fetches'[i] = fetches[i]
      /\ fetches'[Len(fetches) + 1] = list
  <2>1. fetches \in Seq(Fetched)
    BY DEF ChatTyped, ViewTyped
  <2> QED
    BY <1>4, <1>5, <2>1, AtTheEnd
<1>7. \A i \in DOMAIN fetches' : i \in DOMAIN fetches \/ fetches'[i] = list
  BY <1>6
<1>8. \A p : MessagesOf(p)' = MessagesOf(p) /\ Sent(p)' = Sent(p)
  BY DEF MessagesOf, Sent
<1>9. \A m : Truthful(m)' = Truthful(m)
  BY DEF Truthful
<1>10. NothingOpen' /\ InputReturns' /\ ShownFollows'
  BY <1>4, <1>6 DEF NothingOpen, InputReturns, ShownFollows
<1>11. SendsKnow' /\ DropsKnow'
  <2>1. \A d \in sends : d.live /\ d.chat \in chats' => d.chat \in chats
    BY DEF CurrentInv, NothingOpen
  <2> QED
    BY <1>8, <2>1 DEF CurrentInv, SendsKnow, DropsKnow, IsSent
<1>12. AnswersTruthful'
  BY <1>3, <1>4, <1>6, <1>7, <1>9 DEF CurrentInv, AnswersTruthful
<1>13. ListsFollow'
  <2> SUFFICES ASSUME NEW i \in DOMAIN fetches', ~fetches'[i].late, fetches'[i].chat \in chats'
               PROVE  Follows(IdsOf(fetches[i].rows), fetches[i].chat)'
    BY DEF ListsFollow
  <2>1. CASE fetches'[i] = list
    <3>1. PICK ids : ids = MessagesOf(s)
      OBVIOUS
    <3>2. Follows(ids, s)'
      BY <1>8, <3>1 DEF Follows
    <3>3. ids = IdsOf(fetches'[i].rows) /\ s = fetches'[i].chat
      BY <1>3, <1>4, <2>1, <3>1
    <3> QED
      BY <3>2, <3>3 DEF Follows, IdsOf
  <2>2. CASE i \in DOMAIN fetches
    <3>1. fetches'[i] = fetches[i] /\ fetches # <<>>
      BY <1>6, <2>2
    <3>2. chats' = chats
      BY <3>1 DEF CurrentInv, NothingOpen
    <3>3. Follows(IdsOf(fetches[i].rows), fetches[i].chat)
      BY <2>2, <3>1, <3>2 DEF CurrentInv, ListsFollow
    <3> QED
      BY <1>8, <3>1, <3>3 DEF Follows, IdsOf
  <2> QED
    BY <1>7, <2>1, <2>2
<1> QED
  BY <1>10, <1>11, <1>12, <1>13 DEF CurrentInv

\* The chat is left: nothing is told any more.
LEMMA CurrentLeft ==
  ASSUME ChatTyped, CurrentInv, Unmount, UNCHANGED <<chats, message>>,
         \A d \in sends' : ~d.live /\ \E e \in sends : e.id = d.id /\ e.chat = d.chat,
         \A d \in sends : \E e \in sends' : e.id = d.id
  PROVE  CurrentInv'
<1>1. /\ openChat' = 0 /\ shownChat' = {} /\ sending' = FALSE /\ fetches' = <<>> /\ polls' = {}
      /\ \A d \in drops' : d.step = "asked" /\ ~d.live
  BY DEF Unmount
<1>2. NothingOpen' /\ DropsKnow' /\ InputReturns' /\ ShownFollows'
  BY <1>1 DEF NothingOpen, DropsKnow, InputReturns, ShownFollows
<1>3. SendsKnow'
  BY DEF CurrentInv, SendsKnow, Sent, IsSent
<1>4. DOMAIN fetches' = {}
  BY <1>1
<1>5. AnswersTruthful' /\ ListsFollow'
  BY <1>1, <1>4 DEF AnswersTruthful, ListsFollow
<1> QED
  BY <1>2, <1>3, <1>5 DEF CurrentInv

\* A session goes that is not the one that is open.
LEMMA CurrentChatDeleted ==
  ASSUME ChatTyped, CurrentInv, NEW s \in 1..MaxChats, ChatDeleted(s)
  PROVE  CurrentInv'
<1>1. /\ s \in removing /\ chats' = chats \ {s} /\ WithoutMessages(MessagesOf(s))
      /\ UNCHANGED <<openChat, shownChat, sending, sends, fetches, polls, drops>>
  BY DEF ChatDeleted, chatView
<1>2. openChat # s /\ openChat \in chats' \cup {0} /\ chats' \subseteq 1..MaxChats
  BY <1>1 DEF ChatTyped, ChatsTyped
<1>3. \A p \in MessageIds :
        message'[p] = IF message[p].chat = s THEN noMessage ELSE message[p]
  BY <1>1 DEF WithoutMessages, MessagesOf
<1>4. noMessage.chat = 0 /\ noMessage.status = "absent"
  BY DEF noMessage
<1>5. ASSUME NEW r \in chats'  PROVE MessagesOf(r)' = MessagesOf(r)
  <2>1. r # 0 /\ r # s
    BY <1>1, <1>2, <1>5
  <2> QED
    BY <1>3, <1>4, <2>1 DEF MessagesOf
<1>6. StillSent /\ StillDropped
  BY <1>1 DEF StillSent, StillDropped
<1>7. EndsStay
  BY <1>3, <1>4 DEF EndsStay
<1>8. NothingOpen' /\ InputReturns'
  BY <1>1 DEF CurrentInv, NothingOpen, InputReturns
<1>9. \A p \in MessageIds : Sent(p)' => Sent(p) /\ message'[p] = message[p]
  BY <1>3 DEF Sent
<1>10. SendsKnow' /\ DropsKnow'
  <2>1. \A d \in sends : d.id \in MessageIds
    BY DEF ChatTyped, SendsTyped, Send
  <2>2. \A d \in drops : d.id \in MessageIds
    BY DEF ChatTyped, ViewTyped, Drop
  <2>3. \A p \in MessageIds : IsSent(p)' = IsSent(p)
    BY <1>1 DEF IsSent
  <2>4. \A p \in MessageIds : message'[p].status = "waiting" => message[p].status = "waiting"
    BY <1>3, <1>4
  <2>5. ASSUME NEW d \in sends, d.live, d.chat \in chats'  PROVE Sent(d.id)'
    <3>1. Sent(d.id) /\ message[d.id].chat = d.chat
      BY <1>1, <2>5 DEF CurrentInv, SendsKnow
    <3>2. message'[d.id] = message[d.id]
      BY <1>1, <1>3, <2>1, <2>5, <3>1
    <3> QED
      BY <3>1, <3>2 DEF Sent
  <2>6. SendsKnow'
    BY <1>1, <1>9, <2>1, <2>3, <2>4, <2>5 DEF CurrentInv, SendsKnow
  <2>7. DropsKnow'
    BY <1>1, <1>9, <2>2 DEF CurrentInv, DropsKnow
  <2> QED
    BY <2>6, <2>7
<1>11. AnswersTruthful'
  BY <1>1, <1>7, AnswersStay DEF CurrentInv
<1>12. ListsFollow'
  BY <1>1, <1>5, <1>6, MessageListsStay DEF CurrentInv
<1>13. ShownFollows'
  BY <1>1, <1>2, <1>5, <1>6, ShownStays DEF CurrentInv
<1> QED
  BY <1>8, <1>10, <1>11, <1>12, <1>13 DEF CurrentInv

\* A list arrives that is not late: it replaces what is shown.
LEMMA CurrentListArrives ==
  ASSUME ChatTyped, CurrentInv, FetchArrives, ~astray'
  PROVE  CurrentInv'
<1> DEFINE marked(i) == [j \in DOMAIN fetches |-> [fetches[j] EXCEPT !.late = @ \/ j < i]]
<1>1. PICK i \in DOMAIN fetches :
        /\ shownChat' = fetches[i].rows /\ fetches' = RemoveAt(marked(i), i)
        /\ astray' = (astray \/ fetches[i].late \/ fetches[i].chat # openChat)
  BY DEF FetchArrives
<1>2. UNCHANGED <<chats, message, replies, openChat, sends, polls, drops>> /\ sending' = FALSE
  BY DEF FetchArrives, chatTables
<1>3. ~fetches[i].late /\ fetches[i].chat = openChat
  BY <1>1
<1>4. openChat # 0 /\ openChat \in chats
  BY <1>1 DEF CurrentInv, NothingOpen, ChatTyped, ChatsTyped
<1>5. fetches \in Seq(Fetched)
  BY DEF ChatTyped, ViewTyped
<1>6. ASSUME NEW k \in DOMAIN fetches'
      PROVE  \E j \in DOMAIN fetches :
               /\ fetches'[k].chat = fetches[j].chat /\ fetches'[k].rows = fetches[j].rows
               /\ ~fetches'[k].late => ~fetches[j].late
  <2>1. PICK t : t = marked(i)
    OBVIOUS
  <2>2. /\ t \in Seq(Fetched) /\ DOMAIN t = DOMAIN fetches
        /\ \A j \in DOMAIN fetches :
             /\ t[j].chat = fetches[j].chat /\ t[j].rows = fetches[j].rows
             /\ ~t[j].late => ~fetches[j].late
    <3>1. PICK n \in Nat : fetches \in [1..n -> Fetched] /\ DOMAIN fetches = 1..n
      BY <1>5
    <3>2. \A j \in 1..n :
            /\ t[j] \in Fetched /\ t[j].chat = fetches[j].chat /\ t[j].rows = fetches[j].rows
            /\ ~t[j].late => ~fetches[j].late
      BY <2>1, <3>1 DEF Fetched
    <3>3. t \in [1..n -> Fetched]
      BY <2>1, <3>1, <3>2
    <3> QED
      BY <3>1, <3>2, <3>3
  <2>3. /\ DOMAIN RemoveAt(t, i) = 1..(Len(t) - 1) /\ DOMAIN t = 1..Len(t) /\ Len(t) \in Nat
        /\ \A j \in 1..(Len(t) - 1) : RemoveAt(t, i)[j] = IF j < i THEN t[j] ELSE t[j + 1]
    BY <2>2, Removed
  <2>4. PICK j \in DOMAIN t : fetches'[k] = t[j]
    <3>1. fetches' = RemoveAt(t, i) /\ k \in 1..(Len(t) - 1)
      BY <1>1, <1>6, <2>1, <2>3
    <3>2. CASE k < i
      BY <2>3, <3>1, <3>2
    <3>3. CASE ~(k < i)
      BY <2>3, <3>1, <3>3
    <3> QED
      BY <3>2, <3>3
  <2> QED
    BY <2>2, <2>4
<1> HIDE DEF marked
<1>7. \A p : MessagesOf(p)' = MessagesOf(p) /\ Sent(p)' = Sent(p)
  BY <1>2 DEF MessagesOf, Sent
<1>8. StillSent /\ StillDropped /\ EndsStay
  BY <1>2 DEF StillSent, StillDropped, EndsStay
<1>9. NothingOpen' /\ InputReturns'
  BY <1>2, <1>4 DEF NothingOpen, InputReturns
<1>10. SendsKnow' /\ DropsKnow'
  BY <1>2, <1>7 DEF CurrentInv, SendsKnow, DropsKnow, IsSent
<1>11. AnswersTruthful'
  <2>1. \A m : Truthful(m)' = Truthful(m)
    BY <1>2 DEF Truthful
  <2>2. \A m \in shownChat' \cup polls' : Truthful(m)
    BY <1>1, <1>2 DEF CurrentInv, AnswersTruthful
  <2>3. ASSUME NEW k \in DOMAIN fetches', NEW m \in fetches'[k].rows  PROVE Truthful(m)
    BY <1>6 DEF CurrentInv, AnswersTruthful
  <2> QED
    BY <2>1, <2>2, <2>3 DEF AnswersTruthful
<1>12. ListsFollow'
  <2>1. \A k \in DOMAIN fetches' : ~fetches'[k].late /\ fetches'[k].chat \in chats' =>
          \E j \in DOMAIN fetches :
            /\ ~fetches[j].late /\ fetches[j].chat \in chats
            /\ fetches[j].chat = fetches'[k].chat /\ fetches[j].rows = fetches'[k].rows
    BY <1>2, <1>6
  <2> QED
    BY <1>7, <1>8, <2>1, MessageListsStay DEF CurrentInv
<1>13. ShownFollows'
  <2>1. PICK ids : ids = IdsOf(fetches[i].rows)
    OBVIOUS
  <2>2. PICK s : s = openChat
    OBVIOUS
  <2>3. Follows(ids, s)
    BY <1>1, <1>3, <1>4, <2>1, <2>2 DEF CurrentInv, ListsFollow
  <2>4. Follows(ids, s)'
    BY <1>7, <1>8, <2>3, FollowsStays
  <2>5. ids = ShownIds' /\ s = openChat'
    BY <1>1, <1>2, <2>1, <2>2 DEF ShownIds, IdsOf
  <2> QED
    BY <2>4, <2>5 DEF ShownFollows, Follows
<1> QED
  BY <1>9, <1>10, <1>11, <1>12, <1>13 DEF CurrentInv

\* A message is sent, with a key that nobody knows.
LEMMA CurrentSend ==
  ASSUME ChatTyped, CurrentInv, SendMessage, ~confused'
  PROVE  CurrentInv'
<1> DEFINE p == NextMessage
           row == [chat |-> openChat, made |-> tally.sent + 1, status |-> "waiting", turn |-> 0]
           d == [id |-> p, made |-> tally.sent + 1, chat |-> openChat, step |-> "posted",
                 live |-> TRUE]
<1>1. /\ p \in MessageIds /\ ~Sent(p) /\ message' = [message EXCEPT ![p] = row]
      /\ sends' = sends \cup {d} /\ openChat # 0 /\ openChat \in chats
  BY SendIsNew DEF SendMessage
<1>2. /\ row.status = "waiting" /\ row.chat = openChat /\ d.id = p /\ d.chat = openChat
      /\ d.step = "posted" /\ d.live
  OBVIOUS
<1>3. ~Remains(p)
  BY DEF SendMessage
<1>4. UNCHANGED <<chats, openChat, shownChat, fetches, polls, drops>>
  BY DEF SendMessage
<1> HIDE DEF p, row, d
<1>5. /\ \A m \in shownChat \cup polls : m.id # p
      /\ \A e \in drops \cup sends : e.id # p
      /\ \A i \in DOMAIN fetches : \A m \in fetches[i].rows : m.id # p
  BY <1>3 DEF Remains, ShownIds
<1>6. \A q \in MessageIds : message'[q] = IF q = p THEN row ELSE message[q]
  BY <1>1 DEF ChatTyped, MessagesTyped
<1>7. row # noMessage /\ message[p].chat = 0
  BY <1>1, <1>2, AbsentIsNotSent DEF ChatTyped, noMessage
<1>8. \A q \in MessageIds : Sent(q)' = (Sent(q) \/ q = p)
  BY <1>6, <1>7 DEF Sent
<1>9. \A s : MessagesOf(s)' \subseteq MessagesOf(s) \cup {p}
  BY <1>6 DEF MessagesOf
<1>10. \A s : s # 0 => MessagesOf(s) \subseteq MessagesOf(s)'
  BY <1>6, <1>7 DEF MessagesOf
<1>11. ASSUME NEW ids, NEW s, s # 0, Follows(ids, s)  PROVE Follows(ids, s)'
  <2>1. ASSUME NEW q \in MessagesOf(s)' \ ids
        PROVE  \E e \in sends' : e.id = q /\ e.step = "posted" /\ e.live
    BY <1>1, <1>2, <1>9, <1>11, <2>1 DEF Follows
  <2>2. ASSUME NEW q \in ids \ MessagesOf(s)'  PROVE DonePoll(q) \in drops'
    BY <1>4, <1>10, <1>11, <2>2 DEF Follows
  <2> QED
    BY <2>1, <2>2 DEF Follows
<1>12. NothingOpen' /\ InputReturns'
  BY <1>1, <1>2, <1>4 DEF NothingOpen, InputReturns
<1>13. SendsKnow' /\ DropsKnow'
  <2>1. \A e \in sends : e.id \in MessageIds /\ e.id # p
    BY <1>5 DEF ChatTyped, SendsTyped, Send
  <2>2. \A e \in drops : e.id \in MessageIds /\ e.id # p
    BY <1>5 DEF ChatTyped, ViewTyped, Drop
  <2>3. \A q \in MessageIds : IsSent(q)' = (IsSent(q) \/ q = p)
    BY <1>1, <1>2 DEF IsSent
  <2>4. \A e \in sends' : e \in sends \/ e = d
    BY <1>1
  <2>5. \A e \in sends' : e.live /\ e.chat \in chats' => Sent(e.id)'
    BY <1>1, <1>2, <1>4, <1>8, <2>1, <2>4 DEF CurrentInv, SendsKnow
  <2>6. \A e \in sends' : Sent(e.id)' => message'[e.id].chat = e.chat
    <3>1. ASSUME NEW e \in sends, Sent(e.id)'  PROVE message'[e.id].chat = e.chat
      BY <1>6, <1>8, <2>1, <3>1 DEF CurrentInv, SendsKnow
    <3>2. message'[d.id].chat = d.chat
      BY <1>1, <1>2, <1>6
    <3> QED
      BY <2>4, <3>1, <3>2
  <2>7. \A q \in MessageIds : message'[q].status = "waiting" => IsSent(q)'
    BY <1>6, <2>3 DEF CurrentInv, SendsKnow
  <2>8. DropsKnow'
    BY <1>4, <1>8, <2>2 DEF CurrentInv, DropsKnow
  <2> QED
    BY <2>5, <2>6, <2>7, <2>8 DEF SendsKnow
<1>14. AnswersTruthful'
  <2>1. \A m : m.id \in MessageIds /\ m.id # p => Truthful(m)' = Truthful(m)
    BY <1>6 DEF Truthful
  <2>2. \A m \in shownChat \cup polls : m.id \in MessageIds
    BY DEF ChatTyped, ViewTyped, Shown
  <2>3. \A i \in DOMAIN fetches : \A m \in fetches[i].rows : m.id \in MessageIds
    <3>1. \A i \in DOMAIN fetches : fetches[i] \in Fetched
      BY ElementsOfSeq DEF ChatTyped, ViewTyped
    <3> QED
      BY <3>1 DEF Fetched, Shown
  <2> QED
    BY <1>4, <1>5, <2>1, <2>2, <2>3 DEF CurrentInv, AnswersTruthful
<1>15. ListsFollow'
  <2> SUFFICES ASSUME NEW i \in DOMAIN fetches, ~fetches[i].late, fetches[i].chat \in chats
               PROVE  Follows(IdsOf(fetches[i].rows), fetches[i].chat)'
    BY <1>4 DEF ListsFollow
  <2>1. PICK ids : ids = IdsOf(fetches[i].rows)
    OBVIOUS
  <2>2. PICK s : s = fetches[i].chat
    OBVIOUS
  <2>3. s # 0 /\ Follows(ids, s)
    BY <2>1, <2>2 DEF CurrentInv, ListsFollow, ChatTyped, ChatsTyped
  <2>4. Follows(ids, s)'
    BY <1>11, <2>3
  <2> QED
    BY <1>4, <2>1, <2>2, <2>4 DEF Follows, IdsOf
<1>16. ShownFollows'
  <2> SUFFICES ASSUME fetches = <<>>  PROVE Follows(ShownIds, openChat)'
    BY <1>4 DEF ShownFollows
  <2>1. PICK ids : ids = ShownIds
    OBVIOUS
  <2>2. PICK s : s = openChat
    OBVIOUS
  <2>3. s # 0 /\ Follows(ids, s)
    BY <1>1, <2>1, <2>2 DEF CurrentInv, ShownFollows
  <2>4. Follows(ids, s)'
    BY <1>11, <2>3
  <2> QED
    BY <1>4, <2>1, <2>2, <2>4 DEF Follows, ShownIds
<1> QED
  BY <1>12, <1>13, <1>14, <1>15, <1>16 DEF CurrentInv

\* A message that was posted is shown; lists that have not got it are late.
LEMMA CurrentArrives ==
  ASSUME ChatTyped, ReplyInv, CurrentInv, NEW d \in sends, MessageArrives(d), ~astray'
  PROVE  CurrentInv'
<1> DEFINE f == [d EXCEPT !.step = "enqueue"]
           new == [id |-> d.id, made |-> d.made, status |-> "waiting", answered |-> FALSE]
<1>1. /\ f.id = d.id /\ f.chat = d.chat /\ f.live = d.live /\ d.id \in MessageIds
      /\ new.id = d.id /\ new.status = "waiting"
  BY DEF ChatTyped, SendsTyped, Send
<1>2. /\ d.step = "posted" /\ sends' = (sends \ {d}) \cup {f}
      /\ UNCHANGED <<chats, message, replies, openChat, sending, polls, drops>>
      /\ ~d.live => UNCHANGED <<shownChat, fetches>>
      /\ d.live => shownChat' = shownChat \cup {new} /\ GainsMessage(d.id) /\ d.chat = openChat
  BY DEF MessageArrives, chatTables
<1> HIDE DEF f, new
<1>3. \A p : MessagesOf(p)' = MessagesOf(p) /\ Sent(p)' = Sent(p)
  BY <1>2 DEF MessagesOf, Sent
<1>4. /\ \A e \in sends' : e \in sends \/ e = f
      /\ \A e \in sends : e \in sends' \/ e = d
      /\ f \in sends'
  BY <1>2
<1>5. d.live => openChat # 0 /\ openChat \in chats /\ Sent(d.id) /\ d.id \in MessagesOf(openChat)
  <2> SUFFICES ASSUME d.live  PROVE openChat # 0 /\ openChat \in chats /\ Sent(d.id)
                                    /\ d.id \in MessagesOf(openChat)
    OBVIOUS
  <2>1. openChat # 0 /\ openChat \in chats
    BY DEF CurrentInv, NothingOpen, ChatTyped, ChatsTyped
  <2>2. Sent(d.id) /\ message[d.id].chat = openChat
    BY <1>2, <2>1 DEF CurrentInv, SendsKnow
  <2> QED
    BY <1>1, <2>1, <2>2 DEF MessagesOf
<1>6. /\ DOMAIN fetches' = DOMAIN fetches /\ (fetches' = <<>>) = (fetches = <<>>)
      /\ \A i \in DOMAIN fetches :
           /\ fetches'[i].chat = fetches[i].chat /\ fetches'[i].rows = fetches[i].rows
           /\ ~fetches'[i].late => ~fetches[i].late
           /\ ~fetches'[i].late /\ d.live => d.id \in IdsOf(fetches[i].rows)
  <2>1. CASE ~d.live
    BY <1>2, <2>1
  <2>2. CASE d.live
    <3>1. fetches' = [i \in DOMAIN fetches |->
            [fetches[i] EXCEPT !.late = @ \/ \A m \in fetches[i].rows : m.id # d.id]]
      BY <1>2, <2>2 DEF GainsMessage
    <3>2. PICK n \in Nat : fetches \in [1..n -> Fetched] /\ DOMAIN fetches = 1..n
      BY DEF ChatTyped, ViewTyped
    <3>3. DOMAIN fetches' = 1..n /\ \A i \in 1..n :
            /\ fetches'[i] \in Fetched
            /\ fetches'[i].chat = fetches[i].chat /\ fetches'[i].rows = fetches[i].rows
            /\ ~fetches'[i].late => ~fetches[i].late
            /\ ~fetches'[i].late => \E m \in fetches[i].rows : m.id = d.id
      BY <3>1, <3>2 DEF Fetched
    <3>4. fetches' \in Seq(Fetched)
      <4>1. fetches' \in [1..n -> Fetched]
        BY <3>1, <3>2, <3>3
      <4> QED
        BY <4>1
    <3>5. fetches \in Seq(Fetched) /\ (fetches = <<>>) = (DOMAIN fetches = {})
          /\ (fetches' = <<>>) = (DOMAIN fetches' = {})
      BY <3>4, EmptySeq DEF ChatTyped, ViewTyped
    <3> QED
      BY <3>2, <3>3, <3>5 DEF IdsOf
  <2> QED
    BY <2>1, <2>2
<1>7. NothingOpen'
  BY <1>1, <1>2, <1>4, <1>5 DEF CurrentInv, NothingOpen
<1>8. SendsKnow' /\ DropsKnow'
  <2>1. \A p \in MessageIds : IsSent(p)' = IsSent(p)
    BY <1>1, <1>4 DEF IsSent
  <2> QED
    BY <1>1, <1>2, <1>3, <1>4, <2>1 DEF CurrentInv, SendsKnow, DropsKnow
<1>9. InputReturns'
  BY <1>1, <1>2, <1>4, <1>6 DEF CurrentInv, InputReturns
<1>10. AnswersTruthful'
  <2>1. \A m : Truthful(m)' = Truthful(m)
    BY <1>2 DEF Truthful
  <2>2. Truthful(new)
    BY <1>1 DEF Truthful, IsOver
  <2>3. \A m \in shownChat' : m \in shownChat \/ m = new
    BY <1>2
  <2> QED
    BY <1>2, <1>6, <2>1, <2>2, <2>3 DEF CurrentInv, AnswersTruthful
<1>11. ASSUME NEW ids, NEW s, Follows(ids, s), d.live => d.id \in ids
       PROVE  Follows(ids, s)'
  BY <1>2, <1>3, <1>4, <1>11 DEF Follows
<1>12. ListsFollow'
  <2> SUFFICES ASSUME NEW i \in DOMAIN fetches, ~fetches'[i].late, fetches[i].chat \in chats
               PROVE  Follows(IdsOf(fetches[i].rows), fetches[i].chat)'
    BY <1>2, <1>6 DEF ListsFollow
  <2>1. PICK ids : ids = IdsOf(fetches[i].rows)
    OBVIOUS
  <2>2. PICK s : s = fetches[i].chat
    OBVIOUS
  <2>3. Follows(ids, s) /\ (d.live => d.id \in ids)
    BY <1>6, <2>1, <2>2 DEF CurrentInv, ListsFollow
  <2>4. Follows(ids, s)'
    BY <1>11, <2>3
  <2>5. ids = IdsOf(fetches'[i].rows) /\ s = fetches'[i].chat
    BY <1>6, <2>1, <2>2
  <2> QED
    BY <2>4, <2>5 DEF Follows, IdsOf
<1>13. ShownFollows'
  <2> SUFFICES ASSUME openChat # 0, fetches = <<>>  PROVE Follows(ShownIds, openChat)'
    BY <1>2, <1>6 DEF ShownFollows
  <2>1. PICK s : s = openChat
    OBVIOUS
  <2>2. PICK ids : ids = IF d.live THEN ShownIds \cup {d.id} ELSE ShownIds
    OBVIOUS
  <2>3. Follows(ShownIds, s)
    BY <2>1 DEF CurrentInv, ShownFollows
  <2>4. Follows(ids, s)
    BY <1>5, <2>1, <2>2, <2>3 DEF Follows
  <2>5. Follows(ids, s)'
    BY <1>11, <2>2, <2>4
  <2>6. ids = ShownIds' /\ s = openChat'
    BY <1>1, <1>2, <2>1, <2>2 DEF ShownIds
  <2> QED
    BY <2>5, <2>6 DEF Follows
<1> QED
  BY <1>7, <1>8, <1>9, <1>10, <1>12, <1>13 DEF CurrentInv

\* Its job is enqueued, or its row is gone, which then was of another chat.
LEMMA CurrentEnqueue ==
  ASSUME ChatTyped, ReplyInv, CurrentInv, NEW d \in sends, EnqueueMessage(d)
  PROVE  CurrentInv'
<1>1. /\ d.step = "enqueue" /\ sends' = sends \ {d}
      /\ UNCHANGED <<chats, openChat, shownChat, fetches, polls, drops>>
      /\ d.id \in MessageIds
  BY DEF EnqueueMessage, ChatTyped, SendsTyped, Send
<1>2. \A e \in sends : e.id = d.id => e = d
  BY DEF ReplyInv, JobsApart
<1>3. Sent(d.id) => message[d.id].status = "waiting"
  <2>1. IsSent(d.id)
    BY DEF IsSent
  <2> QED
    BY <1>1, <2>1, AbsentIsNotSent DEF ReplyInv, Placed, ChatTyped
<1>4. \A p \in MessageIds :
        /\ message'[p].chat = message[p].chat /\ Sent(p)' = Sent(p)
        /\ p # d.id => message'[p] = message[p]
        /\ p = d.id => message'[p].status \in {"absent", "delivered"}
  <2>1. CASE Sent(d.id)
    <3>1. PICK n : message' = [message EXCEPT ![d.id].status = "delivered", ![d.id].turn = n]
      BY <2>1 DEF EnqueueMessage
    <3>2. /\ message'[d.id].chat = message[d.id].chat /\ message'[d.id].status = "delivered"
          /\ \A p \in MessageIds : p # d.id => message'[p] = message[p]
      BY <1>1, <3>1 DEF ChatTyped, MessagesTyped, Message
    <3>3. message'[d.id] # noMessage
      BY <3>2 DEF noMessage
    <3> QED
      BY <2>1, <3>2, <3>3 DEF Sent
  <2>2. CASE ~Sent(d.id)
    <3>1. message' = message
      BY <2>2 DEF EnqueueMessage
    <3> QED
      BY <1>1, <2>2, <3>1, AbsentIsNotSent DEF ChatTyped, Sent
  <2> QED
    BY <2>1, <2>2
<1>5. \A s : MessagesOf(s)' = MessagesOf(s)
  BY <1>4 DEF MessagesOf
<1>6. StillSent /\ StillDropped
  BY <1>1 DEF StillSent, StillDropped
<1>7. EndsStay
  <2>1. message[d.id].status \in {"waiting", "absent"}
    BY <1>1, <1>3, AbsentIsNotSent DEF ChatTyped
  <2>2. message[d.id].status = "absent" => message'[d.id].status = "absent"
    <3>1. ~Sent(d.id) => message' = message
      BY DEF EnqueueMessage
    <3> QED
      BY <1>1, <3>1, AbsentIsNotSent DEF ChatTyped
  <2> QED
    BY <1>4, <2>1, <2>2 DEF EndsStay, IsOver
<1>8. NothingOpen'
  <2>1. openChat = 0 => ~d.live /\ ~sending
    BY DEF CurrentInv, NothingOpen
  <2>2. ~d.live \/ ~sending' \/ sending' = sending
    BY DEF EnqueueMessage
  <2>3. sending' => sending
    BY DEF EnqueueMessage, ChatTyped, ViewTyped
  <2> QED
    BY <1>1, <2>1, <2>2, <2>3 DEF CurrentInv, NothingOpen
<1>9. SendsKnow' /\ DropsKnow'
  <2>1. \A e \in sends : e.id \in MessageIds
    BY DEF ChatTyped, SendsTyped, Send
  <2>2. \A e \in drops : e.id \in MessageIds
    BY DEF ChatTyped, ViewTyped, Drop
  <2>3. ASSUME NEW p \in MessageIds, message'[p].status = "waiting"  PROVE IsSent(p)'
    <3>1. p # d.id /\ message[p].status = "waiting"
      BY <1>4, <2>3
    <3>2. PICK e \in sends : e.id = p
      BY <3>1 DEF CurrentInv, SendsKnow, IsSent
    <3> QED
      BY <1>1, <3>1, <3>2 DEF IsSent
  <2> QED
    BY <1>1, <1>4, <2>1, <2>2, <2>3 DEF CurrentInv, SendsKnow, DropsKnow
<1>10. InputReturns'
  <2> SUFFICES ASSUME sending', fetches = <<>>
               PROVE  \E e \in sends' : e.live /\ e.chat = openChat
    BY <1>1 DEF InputReturns
  <2>1. sending /\ ~(d.live /\ Sent(d.id))
    BY DEF EnqueueMessage, ChatTyped, ViewTyped
  <2>2. PICK e \in sends : e.live /\ e.chat = openChat
    BY <2>1 DEF CurrentInv, InputReturns
  <2>3. openChat \in chats
    BY <2>1 DEF CurrentInv, NothingOpen, ChatTyped, ChatsTyped
  <2>4. Sent(e.id)
    BY <2>2, <2>3 DEF CurrentInv, SendsKnow
  <2> QED
    BY <1>1, <2>1, <2>2, <2>4
<1>11. AnswersTruthful'
  BY <1>1, <1>7, AnswersStay DEF CurrentInv
<1>12. ListsFollow'
  BY <1>1, <1>5, <1>6, MessageListsStay DEF CurrentInv
<1>13. ShownFollows'
  BY <1>1, <1>5, <1>6, ShownStays DEF CurrentInv
<1> QED
  BY <1>8, <1>9, <1>10, <1>11, <1>12, <1>13 DEF CurrentInv

\* The chat asks for a message.
LEMMA CurrentAsks ==
  ASSUME ChatTyped, ReplyInv, CurrentInv, NEW m \in shownChat, ChatAsks(m)
  PROVE  CurrentInv'
<1>1. /\ polls' = polls \cup {AnswerOf(m.id)} /\ Sent(m.id) /\ m.id \in MessageIds
      /\ UNCHANGED <<chats, message, replies, openChat, shownChat, sending, sends, fetches, drops>>
  BY DEF ChatAsks, chatTables, chatView, ChatTyped, ViewTyped, Shown
<1>2. PICK a : a = AnswerOf(m.id)
  OBVIOUS
<1>3. Truthful(a) /\ polls' = polls \cup {a}
  BY <1>1, <1>2, AnswerIsTruthful
<1>4. \A s : MessagesOf(s)' = MessagesOf(s) /\ Sent(s)' = Sent(s)
  BY <1>1 DEF MessagesOf, Sent
<1>5. StillSent /\ StillDropped
  BY <1>1 DEF StillSent, StillDropped
<1>6. NothingOpen' /\ InputReturns'
  BY <1>1 DEF CurrentInv, NothingOpen, InputReturns
<1>7. SendsKnow' /\ DropsKnow'
  BY <1>1, <1>4 DEF CurrentInv, SendsKnow, DropsKnow, IsSent
<1>8. AnswersTruthful'
  <2>1. \A x : Truthful(x)' = Truthful(x)
    BY <1>1 DEF Truthful
  <2>2. \A x \in polls' : x \in polls \/ x = a
    BY <1>3
  <2> QED
    BY <1>1, <1>3, <2>1, <2>2 DEF CurrentInv, AnswersTruthful
<1>9. ListsFollow'
  BY <1>1, <1>4, <1>5, MessageListsStay DEF CurrentInv
<1>10. ShownFollows'
  BY <1>1, <1>4, <1>5, ShownStays DEF CurrentInv
<1> QED
  BY <1>6, <1>7, <1>8, <1>9, <1>10 DEF CurrentInv

\* It is told: the same messages are shown, one of them anew, or one that
\* failed is to be deleted.
LEMMA CurrentTold ==
  ASSUME ChatTyped, CurrentInv, NEW a \in polls, PollArrives(a)
  PROVE  CurrentInv'
<1>1. /\ polls' = polls \ {a}
      /\ UNCHANGED <<chats, message, replies, openChat, sending, sends, fetches>>
      /\ openChat # 0
  BY DEF PollArrives, chatTables, CurrentInv, NothingOpen
<1>2. /\ \A m \in shownChat' : m \in shownChat \/ m = a
      /\ ShownIds' = ShownIds
  <2>1. CASE a.status = "error"
    BY <2>1 DEF PollArrives, ShownIds
  <2>2. CASE a.status # "error"
    <3>1. shownChat' = {IF m.id = a.id THEN a ELSE m : m \in shownChat}
      BY <2>2 DEF PollArrives
    <3>2. \A m \in shownChat : (IF m.id = a.id THEN a ELSE m).id = m.id
      OBVIOUS
    <3>3. ShownIds' = {m.id : m \in shownChat'}
      BY DEF ShownIds
    <3> QED
      BY <3>1, <3>2, <3>3 DEF ShownIds
  <2> QED
    BY <2>1, <2>2
<1>3. /\ \A d \in drops : d \in drops'
      /\ \A d \in drops' : d.step = "done" => d \in drops
  <2>1. CASE a.status = "error"
    <3>1. drops' = drops \cup {[id |-> a.id, step |-> "asked", live |-> TRUE]}
      BY <2>1 DEF PollArrives
    <3> QED
      BY <3>1
  <2>2. CASE a.status # "error"
    BY <2>2 DEF PollArrives
  <2> QED
    BY <2>1, <2>2
<1>4. \A s : MessagesOf(s)' = MessagesOf(s) /\ Sent(s)' = Sent(s)
  BY <1>1 DEF MessagesOf, Sent
<1>5. StillSent /\ StillDropped
  BY <1>1, <1>3 DEF StillSent, StillDropped
<1>6. NothingOpen' /\ InputReturns'
  BY <1>1 DEF CurrentInv, NothingOpen, InputReturns
<1>7. SendsKnow' /\ DropsKnow'
  BY <1>1, <1>3, <1>4 DEF CurrentInv, SendsKnow, DropsKnow, IsSent
<1>8. AnswersTruthful'
  <2>1. \A x : Truthful(x)' = Truthful(x)
    BY <1>1 DEF Truthful
  <2> QED
    BY <1>1, <1>2, <2>1 DEF CurrentInv, AnswersTruthful
<1>9. ListsFollow'
  BY <1>1, <1>4, <1>5, MessageListsStay DEF CurrentInv
<1>10. ShownFollows'
  <2> SUFFICES ASSUME fetches = <<>>  PROVE Follows(ShownIds, openChat)'
    BY <1>1 DEF ShownFollows
  <2>1. PICK ids : ids = ShownIds
    OBVIOUS
  <2>2. PICK s : s = openChat
    OBVIOUS
  <2>3. Follows(ids, s)'
    BY <1>1, <1>4, <1>5, <2>1, <2>2, FollowsStays DEF CurrentInv, ShownFollows
  <2> QED
    BY <1>1, <1>2, <2>1, <2>2, <2>3 DEF Follows
<1> QED
  BY <1>6, <1>7, <1>8, <1>9, <1>10 DEF CurrentInv

\* A deletion that was answered to a chat is told by its key.
LEMMA DoneIsOne ==
  ASSUME NEW d \in Drop, d.step = "done", d.live
  PROVE  d = DonePoll(d.id)
  BY DEF Drop, DonePoll

\* A message that failed is deleted.  The chat that asked for that is told;
\* another must not have it.
LEMMA CurrentDropped ==
  ASSUME ChatTyped, ReplyInv, CurrentInv, NEW d \in drops, DropHandled(d), ~astray'
  PROVE  CurrentInv'
<1>1. /\ d.step = "asked" /\ WithoutMessages({d.id}) /\ d \in Drop /\ d.id \in MessageIds
      /\ UNCHANGED <<chats, openChat, shownChat, sending, sends, fetches, polls>>
      /\ drops' = (drops \ {d}) \cup (IF d.live /\ Sent(d.id) THEN {[d EXCEPT !.step = "done"]} ELSE {})
  BY DEF DropHandled, chatView, ChatTyped, ViewTyped, Drop
<1>2. ~d.live /\ Sent(d.id) =>
        d.id \notin ShownIds /\ \A i \in DOMAIN fetches : d.id \notin IdsOf(fetches[i].rows)
  BY DEF DropHandled, IdsOf
<1>3. d.live => [d EXCEPT !.step = "done"] = DonePoll(d.id)
  <2> SUFFICES ASSUME d.live  PROVE [d EXCEPT !.step = "done"] = DonePoll(d.id)
    OBVIOUS
  <2>1. PICK e : e = [d EXCEPT !.step = "done"]
    OBVIOUS
  <2>2. e \in Drop /\ e.id = d.id /\ e.step = "done" /\ e.live
    BY <1>1, <2>1 DEF Drop
  <2> QED
    BY <2>1, <2>2, DoneIsOne
<1>4. d.live /\ Sent(d.id) => DonePoll(d.id) \in drops'
  BY <1>1, <1>3
<1>5. \A e \in drops' : e \in drops \/ (d.live /\ e = DonePoll(d.id))
  BY <1>1, <1>3
<1>6. \A p \in MessageIds : message'[p] = IF p = d.id THEN noMessage ELSE message[p]
  BY <1>1 DEF WithoutMessages
<1>7. noMessage.chat = 0 /\ noMessage.status = "absent"
  BY DEF noMessage
<1>8. \A p \in MessageIds : Sent(p)' = (Sent(p) /\ p # d.id)
  BY <1>6 DEF Sent
<1>9. \A s : s # 0 => MessagesOf(s)' = MessagesOf(s) \ {d.id}
  BY <1>6, <1>7 DEF MessagesOf
<1>10. \A e \in sends : Sent(e.id) => e.id # d.id
  <2>1. \A e \in sends : e.id \in MessageIds /\ IsSent(e.id)
    BY DEF ChatTyped, SendsTyped, Send, IsSent
  <2>2. message[d.id].status \in {"absent", "error"}
    BY DEF ReplyInv, ErrorIsFinal
  <2>3. \A e \in sends : Sent(e.id) => message[e.id].status = "waiting"
    BY <2>1, AbsentIsNotSent DEF ReplyInv, Placed, ChatTyped
  <2> QED
    BY <2>2, <2>3
<1>11. EndsStay
  BY <1>6, <1>7 DEF EndsStay
<1>12. StillDropped
  BY <1>1 DEF StillDropped, DonePoll
<1>13. ASSUME NEW ids, NEW s, s # 0, Follows(ids, s), ~d.live /\ Sent(d.id) => d.id \notin ids
       PROVE  Follows(ids, s)'
  <2>1. \A p \in MessagesOf(s)' \ ids : \E e \in sends' : e.id = p /\ e.step = "posted" /\ e.live
    BY <1>1, <1>9, <1>13 DEF Follows
  <2>2. ASSUME NEW p \in ids \ MessagesOf(s)'  PROVE DonePoll(p) \in drops'
    <3>1. CASE p \in MessagesOf(s)
      <4>1. p = d.id /\ Sent(d.id)
        BY <1>9, <1>13, <2>2, <3>1 DEF MessagesOf, Sent, noMessage
      <4> QED
        BY <1>4, <1>13, <2>2, <4>1
    <3>2. CASE p \notin MessagesOf(s)
      BY <1>12, <1>13, <2>2, <3>2 DEF Follows, StillDropped
    <3> QED
      BY <3>1, <3>2
  <2> QED
    BY <2>1, <2>2 DEF Follows
<1>14. NothingOpen' /\ InputReturns'
  BY <1>1, <1>5 DEF CurrentInv, NothingOpen, InputReturns
<1>15. SendsKnow'
  <2>1. \A e \in sends : e.id \in MessageIds
    BY DEF ChatTyped, SendsTyped, Send
  <2>2. \A p \in MessageIds : message'[p].status = "waiting" => message[p].status = "waiting"
    BY <1>6, <1>7
  <2> QED
    BY <1>1, <1>6, <1>8, <1>10, <2>1, <2>2 DEF CurrentInv, SendsKnow, IsSent
<1>16. DropsKnow'
  <2>1. \A e \in drops : e.id \in MessageIds
    BY DEF ChatTyped, ViewTyped, Drop
  <2>2. DonePoll(d.id).id = d.id /\ DonePoll(d.id).live
    BY DEF DonePoll
  <2> QED
    BY <1>1, <1>5, <1>8, <2>1, <2>2 DEF CurrentInv, DropsKnow
<1>17. AnswersTruthful'
  BY <1>1, <1>11, AnswersStay DEF CurrentInv
<1>18. ListsFollow'
  <2> SUFFICES ASSUME NEW i \in DOMAIN fetches, ~fetches[i].late, fetches[i].chat \in chats
               PROVE  Follows(IdsOf(fetches[i].rows), fetches[i].chat)'
    BY <1>1 DEF ListsFollow
  <2>1. PICK ids : ids = IdsOf(fetches[i].rows)
    OBVIOUS
  <2>2. PICK s : s = fetches[i].chat
    OBVIOUS
  <2>3. s # 0 /\ Follows(ids, s) /\ (~d.live /\ Sent(d.id) => d.id \notin ids)
    BY <1>2, <2>1, <2>2 DEF CurrentInv, ListsFollow, ChatTyped, ChatsTyped
  <2>4. Follows(ids, s)'
    BY <1>13, <2>3
  <2> QED
    BY <1>1, <2>1, <2>2, <2>4 DEF Follows, IdsOf
<1>19. ShownFollows'
  <2> SUFFICES ASSUME openChat # 0, fetches = <<>>  PROVE Follows(ShownIds, openChat)'
    BY <1>1 DEF ShownFollows
  <2>1. PICK ids : ids = ShownIds
    OBVIOUS
  <2>2. PICK s : s = openChat
    OBVIOUS
  <2>3. s # 0 /\ Follows(ids, s) /\ (~d.live /\ Sent(d.id) => d.id \notin ids)
    BY <1>2, <2>1, <2>2 DEF CurrentInv, ShownFollows
  <2>4. Follows(ids, s)'
    BY <1>13, <2>3
  <2> QED
    BY <1>1, <2>1, <2>2, <2>4 DEF Follows, ShownIds
<1> QED
  BY <1>14, <1>15, <1>16, <1>17, <1>18, <1>19 DEF CurrentInv

\* The deletion of a message is answered: it is no longer shown, and lists that
\* have it are late.
LEMMA CurrentDropArrives ==
  ASSUME ChatTyped, CurrentInv, NEW d \in drops, DropArrives(d)
  PROVE  CurrentInv'
<1>1. /\ d.step = "done" /\ drops' = drops \ {d} /\ d.id \in MessageIds /\ d.live /\ ~Sent(d.id)
      /\ UNCHANGED <<chats, message, replies, openChat, sending, sends, polls>>
      /\ shownChat' = {m \in shownChat : m.id # d.id} /\ LosesMessage(d.id)
  BY DEF DropArrives, chatTables, CurrentInv, DropsKnow, ChatTyped, ViewTyped, Drop
<1>2. /\ DOMAIN fetches' = DOMAIN fetches /\ (fetches' = <<>>) = (fetches = <<>>)
      /\ \A i \in DOMAIN fetches :
           /\ fetches'[i].chat = fetches[i].chat /\ fetches'[i].rows = fetches[i].rows
           /\ ~fetches'[i].late => ~fetches[i].late /\ d.id \notin IdsOf(fetches[i].rows)
  <2>1. fetches' = [i \in DOMAIN fetches |->
          [fetches[i] EXCEPT !.late = @ \/ \E m \in fetches[i].rows : m.id = d.id]]
    BY <1>1 DEF LosesMessage
  <2>2. PICK n \in Nat : fetches \in [1..n -> Fetched] /\ DOMAIN fetches = 1..n
    BY DEF ChatTyped, ViewTyped
  <2>3. DOMAIN fetches' = 1..n /\ \A i \in 1..n :
          /\ fetches'[i] \in Fetched
          /\ fetches'[i].chat = fetches[i].chat /\ fetches'[i].rows = fetches[i].rows
          /\ ~fetches'[i].late => ~fetches[i].late
          /\ ~fetches'[i].late => \A m \in fetches[i].rows : m.id # d.id
    BY <2>1, <2>2 DEF Fetched
  <2>4. fetches' \in Seq(Fetched)
    <3>1. fetches' \in [1..n -> Fetched]
      BY <2>1, <2>2, <2>3
    <3> QED
      BY <3>1
  <2>5. fetches \in Seq(Fetched) /\ (fetches = <<>>) = (DOMAIN fetches = {})
        /\ (fetches' = <<>>) = (DOMAIN fetches' = {})
    BY <2>4, EmptySeq DEF ChatTyped, ViewTyped
  <2> QED
    BY <2>2, <2>3, <2>5 DEF IdsOf
<1>3. \A s : MessagesOf(s)' = MessagesOf(s) /\ Sent(s)' = Sent(s)
  BY <1>1 DEF MessagesOf, Sent
<1>4. \A s : s # 0 => d.id \notin MessagesOf(s)
  BY <1>1 DEF MessagesOf, Sent, noMessage
<1>5. ASSUME NEW ids, NEW s, s # 0, Follows(ids, s)
      PROVE  Follows(ids \ {d.id}, s)'
  <2>1. ASSUME NEW p \in MessagesOf(s) \ (ids \ {d.id})
        PROVE  \E e \in sends : e.id = p /\ e.step = "posted" /\ e.live
    <3>1. p \notin ids
      BY <1>4, <1>5, <2>1
    <3> QED
      BY <1>5, <2>1, <3>1 DEF Follows
  <2>2. ASSUME NEW p \in (ids \ {d.id}) \ MessagesOf(s)  PROVE DonePoll(p) \in drops'
    <3>1. DonePoll(p) \in drops
      BY <1>5, <2>2 DEF Follows
    <3>2. DonePoll(p).id = p
      BY DEF DonePoll
    <3> QED
      BY <1>1, <2>2, <3>1, <3>2
  <2> QED
    BY <1>1, <1>3, <2>1, <2>2 DEF Follows
<1>6. NothingOpen' /\ InputReturns'
  BY <1>1, <1>2 DEF CurrentInv, NothingOpen, InputReturns
<1>7. SendsKnow' /\ DropsKnow'
  BY <1>1, <1>3 DEF CurrentInv, SendsKnow, DropsKnow, IsSent
<1>8. AnswersTruthful'
  <2>1. \A m : Truthful(m)' = Truthful(m)
    BY <1>1 DEF Truthful
  <2>2. \A m \in shownChat' : m \in shownChat
    BY <1>1
  <2> QED
    BY <1>1, <1>2, <2>1, <2>2 DEF CurrentInv, AnswersTruthful
<1>9. ListsFollow'
  <2> SUFFICES ASSUME NEW i \in DOMAIN fetches, ~fetches'[i].late, fetches[i].chat \in chats
               PROVE  Follows(IdsOf(fetches[i].rows), fetches[i].chat)'
    BY <1>1, <1>2 DEF ListsFollow
  <2>1. PICK ids : ids = IdsOf(fetches[i].rows)
    OBVIOUS
  <2>2. PICK s : s = fetches[i].chat
    OBVIOUS
  <2>3. s # 0 /\ Follows(ids, s) /\ d.id \notin ids
    BY <1>2, <2>1, <2>2 DEF CurrentInv, ListsFollow, ChatTyped, ChatsTyped
  <2>4. Follows(ids \ {d.id}, s)'
    BY <1>5, <2>3
  <2>5. ids \ {d.id} = IdsOf(fetches'[i].rows) /\ s = fetches'[i].chat
    BY <1>2, <2>1, <2>2, <2>3
  <2> QED
    BY <2>4, <2>5 DEF Follows, IdsOf
<1>10. ShownFollows'
  <2> SUFFICES ASSUME openChat # 0, fetches = <<>>  PROVE Follows(ShownIds, openChat)'
    BY <1>1, <1>2 DEF ShownFollows
  <2>1. PICK ids : ids = ShownIds
    OBVIOUS
  <2>2. PICK s : s = openChat
    OBVIOUS
  <2>3. s # 0 /\ Follows(ids, s)
    BY <2>1, <2>2 DEF CurrentInv, ShownFollows
  <2>4. Follows(ids \ {d.id}, s)'
    BY <1>5, <2>3
  <2>5. ids \ {d.id} = ShownIds' /\ s = openChat'
    BY <1>1, <2>1, <2>2 DEF ShownIds
  <2> QED
    BY <2>4, <2>5 DEF Follows
<1> QED
  BY <1>6, <1>7, <1>8, <1>9, <1>10 DEF CurrentInv

\* One row's status is changed: no end is undone by that.
LEMMA CurrentMarked ==
  ASSUME ChatTyped, CurrentInv, NEW p \in MessageIds, NEW status \in {"started", "error", "finished"},
         Sent(p), message[p].status \in {"delivered", "started"},
         message' = [message EXCEPT ![p].status = status],
         UNCHANGED <<chats, chatView, sends, fetches, polls, drops>>
  PROVE  CurrentInv'
<1>1. /\ message'[p].chat = message[p].chat /\ message'[p].status = status
      /\ \A q \in MessageIds : q # p => message'[q] = message[q]
  BY DEF ChatTyped, MessagesTyped, Message
<1>2. message'[p] # noMessage
  BY <1>1 DEF noMessage
<1>3. EndsStay
  BY <1>1 DEF EndsStay, IsOver
<1>4. \A q \in MessageIds : Sent(q)' = Sent(q) /\ message'[q].chat = message[q].chat
        /\ (message'[q].status = "waiting" => message[q].status = "waiting")
  BY <1>1, <1>2 DEF Sent
<1> QED
  BY <1>3, <1>4, CurrentKept

\* So the consumer disturbs nothing that is shown.
LEMMA CurrentWriter ==
  ASSUME ChatTyped, ReplyInv, CurrentInv, Writer
  PROVE  CurrentInv'
<1>1. UNCHANGED <<chats, chatView, sends, fetches, polls, drops>>
  BY DEF Writer, TakeMessage, MessageFails, Generate, SaveReply, FinishMessage, chatAnswers,
         chatTables
<1>2. CASE message' = message
  <2>1. EndsStay
    BY <1>2 DEF EndsStay
  <2>2. \A p \in MessageIds : Sent(p)' = Sent(p)
    BY <1>2 DEF Sent
  <2> QED
    BY <1>1, <1>2, <2>1, <2>2, CurrentKept
<1>3. CASE TakeMessage /\ message' # message
  <2>1. PICK p : p = Head(chatJobs)
    OBVIOUS
  <2>2. Sent(p) /\ message' = [message EXCEPT ![p].status = "started"] /\ chatJobs # <<>>
    BY <1>3, <2>1 DEF TakeMessage
  <2>3. 1 \in DOMAIN chatJobs /\ p = chatJobs[1] /\ p \in MessageIds
    BY <2>1, <2>2 DEF ChatTyped, WriterTyped
  <2>4. message[p].status = "delivered"
    BY <2>2, <2>3, AbsentIsNotSent DEF ReplyInv, Placed, IsQueued, ChatTyped
  <2> QED
    BY <1>1, <2>2, <2>3, <2>4, CurrentMarked
<1>4. CASE (MessageFails \/ FinishMessage) /\ message' # message
  <2>1. writer.id \in MessageIds
    BY <1>4 DEF MessageFails, FinishMessage, ChatTyped, WriterTyped, noReply
  <2>2. PICK p : p = writer.id
    OBVIOUS
  <2>3. PICK status \in {"error", "finished"} :
          Sent(p) /\ message' = [message EXCEPT ![p].status = status]
    BY <1>4, <2>2 DEF MessageFails, FinishMessage
  <2>4. message[p].status = "started"
    BY <2>1, <2>2, <2>3, AbsentIsNotSent DEF ReplyInv, Placed, ChatTyped
  <2> QED
    BY <1>1, <2>1, <2>2, <2>3, <2>4, CurrentMarked
<1> QED
  BY <1>2, <1>3, <1>4 DEF Writer, Generate, SaveReply, chatTables

\* Nor is an answer that went astray forgotten.
LEMMA AstrayStays ==
  ASSUME ChatTyped, GenerativeChatNext
  PROVE  astray => astray'
  BY DEF ChatTyped, ViewTyped, GenerativeChatNext, ChooseChat, DeleteChat, ChatDeleted, NewChat,
         UpdateParameters, LeaveChat, ReloadChats, FetchArrives, SendMessage, SendStep,
         MessageArrives, EnqueueMessage, SendFails, ChatAsks, PollArrives, DropStep, DropHandled,
         DropArrives, Writer, TakeMessage, MessageFails, Generate, SaveReply, FinishMessage

\* In the initial state nothing is open.
LEMMA CurrentInit == GenerativeChatInit => CurrentInv
<1> SUFFICES ASSUME GenerativeChatInit  PROVE CurrentInv
  OBVIOUS
<1>1. /\ openChat = 0 /\ shownChat = {} /\ sending = FALSE /\ sends = {} /\ fetches = <<>>
      /\ polls = {} /\ drops = {} /\ \A p \in MessageIds : message[p].status = "absent"
  BY DEF GenerativeChatInit, noMessage
<1>2. DOMAIN fetches = {}
  BY <1>1
<1>3. NothingOpen /\ SendsKnow /\ DropsKnow /\ InputReturns
  BY <1>1 DEF NothingOpen, SendsKnow, DropsKnow, InputReturns
<1>4. AnswersTruthful /\ ListsFollow /\ ShownFollows
  BY <1>1, <1>2 DEF AnswersTruthful, ListsFollow, ShownFollows
<1> QED
  BY <1>3, <1>4 DEF CurrentInv

\* Every step keeps what is shown and its session together.
LEMMA CurrentStep ==
  ASSUME ChatTyped, ReplyInv, CurrentInv, [GenerativeChatNext]_generativeChatVars,
         ~confused', ~astray'
  PROVE  CurrentInv'
<1>1. ASSUME UNCHANGED <<message, chats, chatView, sends, fetches, polls, drops>>
      PROVE  CurrentInv'
  <2>1. EndsStay
    BY <1>1 DEF EndsStay
  <2>2. \A p \in MessageIds : Sent(p)' = Sent(p)
    BY <1>1 DEF Sent
  <2> QED
    BY <1>1, <2>1, <2>2, CurrentKept
<1>2. CASE UNCHANGED generativeChatVars
  BY <1>1, <1>2 DEF generativeChatVars, chatAnswers, chatTables
<1>3. ASSUME NEW s \in 1..MaxChats, ChooseChat(s)  PROVE CurrentInv'
  <2>1. Fetch(s) /\ openChat' = s
        /\ UNCHANGED <<chats, message, replies, shownChat, sending, sends, polls, drops>>
    BY <1>3 DEF ChooseChat, chatTables
  <2> QED
    BY <2>1, CurrentAsked
<1>4. ASSUME \A d \in sends' : ~d.live /\ \E e \in sends : e.id = d.id /\ e.chat = d.chat,
             \A d \in sends : \E e \in sends' : e.id = d.id,
             Unmount, UNCHANGED <<chats, message>>
      PROVE  CurrentInv'
  BY <1>4, CurrentLeft
<1>5. ASSUME sends' = {[d EXCEPT !.live = FALSE] : d \in sends}, Unmount, UNCHANGED chatTables
      PROVE  CurrentInv'
  <2>1. ASSUME NEW d \in sends  PROVE \E e \in sends' : e.id = d.id
    <3>1. PICK e : e = [d EXCEPT !.live = FALSE]
      OBVIOUS
    <3>2. e \in sends'
      BY <1>5, <3>1
    <3>3. e.id = d.id
      BY <3>1 DEF ChatTyped, SendsTyped, Send
    <3> QED
      BY <3>2, <3>3
  <2>2. \A e \in sends' : ~e.live /\ \E d \in sends : d.id = e.id /\ d.chat = e.chat
    BY <1>5 DEF ChatTyped, SendsTyped, Send
  <2> QED
    BY <1>4, <1>5, <2>1, <2>2 DEF chatTables
<1>6. ASSUME NEW s \in 1..MaxChats, DeleteChat(s)  PROVE CurrentInv'
  BY <1>1, <1>5, <1>6 DEF DeleteChat, chatTables
<1>7. ASSUME NEW s \in 1..MaxChats, ChatDeleted(s)  PROVE CurrentInv'
  BY <1>7, CurrentChatDeleted
<1>8. CASE NewChat
  <2>1. PICK s : s = 1 + Max({0} \cup chats)
    OBVIOUS
  <2>2. /\ openChat = 0 /\ s <= MaxChats /\ chats' = chats \cup {s} /\ openChat' = s /\ Fetch(s)
        /\ UNCHANGED <<message, replies, shownChat, sending, sends, polls, drops>>
    BY <1>8, <2>1 DEF NewChat
  <2>3. s \in 1..MaxChats
    BY <2>1, <2>2, NextChatIsNew, ChatBounds DEF ChatTyped
  <2> QED
    BY <2>2, <2>3, CurrentAsked
<1>9. CASE UpdateParameters
  <2>1. PICK s : s = openChat
    OBVIOUS
  <2>2. s \in 1..MaxChats /\ Fetch(s) /\ openChat' = s
    BY <1>9, <2>1 DEF UpdateParameters, chatView, ChatTyped, ChatsTyped
  <2>3. UNCHANGED <<chats, message, replies, shownChat, sending, sends, polls, drops>>
    BY <1>9 DEF UpdateParameters, chatTables, chatView
  <2> QED
    BY <2>2, <2>3, CurrentAsked
<1>10. CASE LeaveChat
  BY <1>5, <1>10 DEF LeaveChat
<1>11. CASE ReloadChats
  <2>1. sends = {} /\ sends' = {} /\ Unmount /\ UNCHANGED <<chats, message>>
    BY <1>11 DEF ReloadChats, chatTables
  <2> QED
    BY <1>4, <2>1
<1>12. CASE FetchArrives
  BY <1>12, CurrentListArrives
<1>13. CASE SendMessage
  BY <1>13, CurrentSend
<1>14. ASSUME NEW d \in sends, MessageArrives(d) \/ EnqueueMessage(d)  PROVE CurrentInv'
  BY <1>14, CurrentArrives, CurrentEnqueue
<1>15. ~ \E d \in sends : SendFails(d)
  BY DEF SendFails
<1>16. ASSUME NEW m \in shownChat, ChatAsks(m)  PROVE CurrentInv'
  BY <1>16, CurrentAsks
<1>17. ASSUME NEW a \in polls, PollArrives(a)  PROVE CurrentInv'
  BY <1>17, CurrentTold
<1>18. ASSUME NEW d \in drops, DropHandled(d) \/ DropArrives(d)  PROVE CurrentInv'
  BY <1>18, CurrentDropped, CurrentDropArrives
<1>19. CASE Writer
  BY <1>19, CurrentWriter
<1> QED
  BY <1>2, <1>3, <1>6, <1>7, <1>8, <1>9, <1>10, <1>11, <1>12, <1>13, <1>14, <1>15, <1>16, <1>17,
     <1>18, <1>19 DEF GenerativeChatNext, SendStep, DropStep

\* At rest the chat takes input and shows the messages of its session, all of
\* which have ended, and says of none what is not so.
THEOREM ChatIsCurrentHolds == GenerativeChatSpec => []ChatIsCurrent
<1> DEFINE ChatInv == /\ ChatTyped /\ (~confused => ReplyInv)
                      /\ (~confused /\ ~astray => CurrentInv)
<1>1. GenerativeChatInit => ChatInv
  BY ChatTypedInit, ReplyInit, CurrentInit
<1>2. ChatInv /\ [GenerativeChatNext]_generativeChatVars => ChatInv'
  <2> SUFFICES ASSUME ChatInv, [GenerativeChatNext]_generativeChatVars  PROVE ChatInv'
    OBVIOUS
  <2>1. ChatTyped'
    BY ChatTypedStep
  <2>2. (~confused' => ~confused) /\ (~astray' => ~astray)
    BY ConfusedStays, AstrayStays DEF generativeChatVars
  <2>3. ~confused' => ReplyInv'
    BY <2>2, ReplyStep
  <2>4. ~confused' /\ ~astray' => CurrentInv'
    BY <2>2, CurrentStep
  <2> QED
    BY <2>1, <2>3, <2>4
<1>3. ChatInv => ChatIsCurrent
  <2> SUFFICES ASSUME ChatInv, ChatAtRest, ~confused, ~astray
               PROVE  /\ ~sending
                      /\ ShownIds = IF openChat = 0 THEN {} ELSE MessagesOf(openChat)
                      /\ \A m \in shownChat :
                           /\ message[m.id].status \in {"finished", "error"}
                           /\ m.status \in PendingStatuses \cup {message[m.id].status}
                           /\ m.status = "finished" => m.answered
    BY DEF ChatIsCurrent
  <2>1. /\ sends = {} /\ fetches = <<>> /\ drops = {} /\ chatJobs = <<>> /\ writer.id = 0
        /\ CurrentInv /\ ReplyInv /\ 0 \notin MessageIds
    BY DEF ChatAtRest, noReply, MessageIds
  <2>2. ~sending
    BY <2>1 DEF CurrentInv, InputReturns
  <2>3. ShownIds = IF openChat = 0 THEN {} ELSE MessagesOf(openChat)
    <3>1. CASE openChat = 0
      BY <2>1, <3>1 DEF CurrentInv, NothingOpen, ShownIds
    <3>2. CASE openChat # 0
      BY <2>1, <3>2 DEF CurrentInv, ShownFollows, Follows
    <3> QED
      BY <3>1, <3>2
  <2>4. \A p \in MessageIds : message[p].status \notin PendingStatuses
    <3>1. \A p \in MessageIds : ~IsSent(p) /\ ~IsQueued(p) /\ writer.id # p
      BY <2>1 DEF IsSent, IsQueued
    <3> QED
      BY <2>1, <3>1 DEF CurrentInv, SendsKnow, ReplyInv, Placed, PendingStatuses
  <2>5. ASSUME NEW m \in shownChat
        PROVE  /\ message[m.id].status \in {"finished", "error"}
               /\ m.status \in PendingStatuses \cup {message[m.id].status}
               /\ m.status = "finished" => m.answered
    <3>1. m.id \in MessageIds /\ m.status \in ChatStatuses
      BY DEF ChatTyped, ViewTyped, Shown
    <3>2. Sent(m.id)
      BY <2>3, <3>1 DEF ShownIds, MessagesOf, Sent, noMessage
    <3>3. message[m.id].status \in {"finished", "error"}
      BY <2>4, <3>1, <3>2, AbsentIsNotSent DEF ChatTyped, MessagesTyped, Message, ChatStatuses
    <3>4. Truthful(m)
      BY <2>1 DEF CurrentInv, AnswersTruthful
    <3> QED
      BY <3>1, <3>3, <3>4 DEF Truthful, IsOver, ChatStatuses
  <2> QED
    BY <2>2, <2>3, <2>5
<1> QED
  BY <1>1, <1>2, <1>3, PTL DEF GenerativeChatSpec

-----------------------------------------------------------------------------
(* The second part: the datasets' page, its tables and its folders.          *)

LoadEnded == {"finished", "failed"}
DataRow == [made : 0..MaxLoads, status : {"absent", "waiting", "started"} \cup LoadEnded,
            file : 0..MaxLoads]
Load == [id : DataIds, made : DataIds, from : {0} \cup NoteIds,
         step : {"created", "listed", "enqueued", "started", "saved"}]
DataItem == [kind : {"dataset"}, id : DataIds]
NoteItem == [kind : {"notebook"}, id : NoteIds]
DataList == [rows : SUBSET DataIds, then : {0} \cup DataIds, late : BOOLEAN]
NoteList == [rows : SUBSET NoteIds, then : {0} \cup NoteIds, late : BOOLEAN]
InData(d) == dataset[d] # noData

\* Keys and numbers are not larger than the number of datasets created.
DataTyped ==
  /\ dataset \in [DataIds -> DataRow] /\ outcome \in [DataIds -> {"none"} \cup LoadEnded]
  /\ folders \subseteq 1..MaxLoads
  /\ counts \in [loads : 0..MaxLoads, notebooks : 0..MaxNotebooks, returns : Nat]
  /\ \A d \in DataIds :
       /\ InData(d) => d <= counts.loads /\ dataset[d].made # 0 /\ dataset[d].status # "absent"
       /\ dataset[d].made <= counts.loads
       /\ d > counts.loads => outcome[d] = "none"

\* Nor are those of notebooks, the one that is being copied included.
NotesTyped ==
  /\ notebook \in [NoteIds -> 0..MaxLoads] /\ copying \in 0..MaxLoads
  /\ copying # 0 => counts.notebooks >= 1
  /\ \A n \in NoteIds : notebook[n] # 0 =>
       n <= counts.notebooks /\ (copying # 0 => n + 1 <= counts.notebooks)

LoadsTyped ==
  /\ upload = noUpload \/
       (upload \in Load /\ upload.made <= counts.loads
        /\ upload.step \in (IF upload.from = 0 THEN {"created", "enqueued"}
                            ELSE {"created", "listed"}))
  /\ loader = noUpload \/
       (loader \in Load /\ loader.step \in {"started", "saved"} /\ loader.made <= counts.loads)
  /\ loads \in Seq(Load) /\ \A i \in DOMAIN loads : loads[i].made <= counts.loads

ListsTyped ==
  /\ shownData \subseteq DataIds /\ shownNotes \subseteq NoteIds
  /\ dataLists \in Seq(DataList) /\ noteLists \in Seq(NoteList)
  /\ watching \subseteq [id : DataIds, made : DataIds] /\ dropping \subseteq DataItem \cup NoteItem
  /\ chosenData \in {0} \cup DataIds /\ chosenNote \in {0} \cup NoteIds
  /\ lost \in BOOLEAN /\ mixed \in BOOLEAN

DatasetsTyped == DataTyped /\ NotesTyped /\ LoadsTyped /\ ListsTyped

-----------------------------------------------------------------------------
\* What the constants of DatasetsPage are.
LEMMA DataBounds ==
  MaxLoads \in Nat \ {0} /\ MaxNotebooks \in Nat \ {0} /\ MaxReturns \in Nat
  BY DatasetsPageAssumption

\* The next key of a dataset is free.
LEMMA NextDataBound ==
  ASSUME DataTyped
  PROVE  /\ NextData \in 1..(counts.loads + 1)
         /\ NextData \in DataIds => ~InData(NextData)
<1> DEFINE S == {0} \cup {d \in DataIds : dataset[d] # noData}
<1>1. counts.loads \in Nat /\ S \in SUBSET (0..counts.loads) /\ S # {}
  BY DataBounds DEF DataTyped, DataIds, InData
<1>2. Max(S) \in S /\ \A y \in S : y <= Max(S)
  <2> HIDE DEF S
  <2> QED
    BY <1>1, MaxIsMax
<1>3. NextData = 1 + Max(S)
  BY DEF NextData
<1>4. Max(S) \in 0..counts.loads
  BY <1>1, <1>2
<1>5. NextData \in 1..(counts.loads + 1) /\ ~(NextData \in S)
  <2> HIDE DEF S
  <2> QED
    BY <1>1, <1>2, <1>3, <1>4
<1> QED
  BY <1>5 DEF InData

\* So is that of a notebook.
LEMMA NextNoteBound ==
  ASSUME DataTyped, NotesTyped, copying # 0
  PROVE  NextNote \in NoteIds /\ NextNote <= counts.notebooks /\ notebook[NextNote] = 0
<1> DEFINE S == {0} \cup {n \in NoteIds : notebook[n] # 0}
<1>1. counts.notebooks \in Nat /\ counts.notebooks >= 1 /\ counts.notebooks <= MaxNotebooks
  BY DataBounds DEF DataTyped, NotesTyped
<1>2. counts.notebooks - 1 \in Nat /\ S \in SUBSET (0..(counts.notebooks - 1)) /\ S # {}
  <2>1. \A n \in NoteIds : notebook[n] # 0 => n \in 0..(counts.notebooks - 1)
    BY <1>1, DataBounds DEF NotesTyped, NoteIds
  <2> QED
    BY <1>1, <2>1
<1>3. Max(S) \in S /\ \A y \in S : y <= Max(S)
  <2> HIDE DEF S
  <2> QED
    BY <1>2, MaxIsMax
<1>4. NextNote = 1 + Max(S)
  BY DEF NextNote
<1>5. NextNote \in 1..counts.notebooks /\ ~(NextNote \in S)
  <2> HIDE DEF S
  <2>1. Max(S) \in 0..(counts.notebooks - 1)
    BY <1>2, <1>3
  <2> QED
    BY <1>1, <1>2, <1>3, <1>4, <2>1
<1>6. NextNote \in NoteIds
  BY <1>1, <1>5, DataBounds DEF NoteIds
<1> QED
  BY <1>1, <1>5, <1>6

\* A list that is marked late is one.
LEMMA LateTyped ==
  ASSUME ListsTyped
  PROVE  Late(dataLists) \in Seq(DataList) /\ Late(noteLists) \in Seq(NoteList)
<1>1. \A i \in DOMAIN dataLists : dataLists[i] \in DataList
  BY ElementsOfSeq DEF ListsTyped, chosen
<1>2. \A i \in DOMAIN noteLists : noteLists[i] \in NoteList
  BY ElementsOfSeq DEF ListsTyped, chosen
<1>3. \A i \in DOMAIN dataLists : [dataLists[i] EXCEPT !.late = TRUE] \in DataList
  BY <1>1 DEF DataList
<1>4. \A i \in DOMAIN noteLists : [noteLists[i] EXCEPT !.late = TRUE] \in NoteList
  BY <1>2 DEF NoteList
<1>5. Late(dataLists) \in Seq(DataList)
  BY <1>3 DEF ListsTyped, chosen, Late
<1>6. Late(noteLists) \in Seq(NoteList)
  BY <1>4 DEF ListsTyped, chosen, Late
<1> QED
  BY <1>5, <1>6

\* So is what the server answers.
LEMMA ListAnswersTyped ==
  ASSUME ListsTyped
  PROVE  /\ \A then \in {0} \cup DataIds : DataAnswer(then) \in DataList
         /\ \A then \in {0} \cup NoteIds : NoteAnswer(then) \in NoteList
  BY DEF DataAnswer, NoteAnswer, DataList, NoteList

\* In the initial state there is nothing.
LEMMA PageTypedInit == DatasetsPageInit => DatasetsTyped
<1> SUFFICES ASSUME DatasetsPageInit  PROVE DatasetsTyped
  OBVIOUS
<1>1. noData \in DataRow /\ noData.made = 0
  BY DataBounds DEF noData, DataRow
<1>2. DataTyped
  BY <1>1, DataBounds DEF DatasetsPageInit, DataTyped, InData
<1>3. NotesTyped
  BY DataBounds DEF DatasetsPageInit, NotesTyped
<1>4. LoadsTyped
  <2>1. <<>> \in Seq(Load) /\ DOMAIN <<>> = {}
    OBVIOUS
  <2> QED
    BY <2>1 DEF DatasetsPageInit, LoadsTyped
<1>5. ListsTyped
  <2>1. <<>> \in Seq(DataList) /\ <<>> \in Seq(NoteList)
    OBVIOUS
  <2> QED
    BY <2>1 DEF DatasetsPageInit, ListsTyped, chosen
<1> QED
  BY <1>2, <1>3, <1>4, <1>5 DEF DatasetsTyped

\* A dataset is created, with the next key and the next number.
LEMMA TypedCreate ==
  ASSUME DatasetsTyped, NEW from \in {0} \cup NoteIds, CreateDataset(from)
  PROVE  DatasetsTyped'
<1> DEFINE d == NextData
           made == counts.loads + 1
           load == [id |-> d, made |-> made, from |-> from, step |-> "created"]
           row == [made |-> made, status |-> "waiting", file |-> 0]
<1>1. counts.loads \in Nat /\ made \in DataIds /\ made > counts.loads
      /\ counts' = [counts EXCEPT !.loads = @ + 1] /\ counts'.loads = made
      /\ counts'.notebooks = counts.notebooks
  BY DataBounds DEF CreateDataset, DatasetsTyped, DataTyped, DataIds
<1>2. d \in DataIds /\ d <= made
  BY <1>1, DataBounds, NextDataBound DEF DatasetsTyped, DataIds
<1>3. /\ upload' = load /\ dataset' = [dataset EXCEPT ![d] = row]
      /\ UNCHANGED <<notebook, folders, copying, loading, shownLists, chosen, watching, dropping,
                     lost, mixed>>
  BY <1>1 DEF CreateDataset
<1>4. /\ load \in Load /\ load.made = made /\ load.step = "created"
      /\ row \in DataRow /\ row.made = made /\ row.status = "waiting"
  BY <1>1, <1>2, DataBounds DEF Load, DataRow, DataIds
<1> HIDE DEF d, made, load, row
<1>5. \A e \in DataIds : dataset'[e] = IF e = d THEN row ELSE dataset[e]
  BY <1>3 DEF DatasetsTyped, DataTyped
<1>6. DataTyped'
  <2>1. dataset' \in [DataIds -> DataRow]
    BY <1>2, <1>3, <1>4 DEF DatasetsTyped, DataTyped
  <2>2. \A e \in DataIds : e \in Nat /\ dataset[e].made \in Nat
    BY DEF DatasetsTyped, DataTyped, DataRow, DataIds
  <2>3. made \in Nat /\ made # 0 /\ \A e \in Nat : e <= counts.loads => e <= made
    BY <1>1 DEF DataIds
  <2>4. ASSUME NEW e \in DataIds
        PROVE  /\ InData(e)' => e <= counts'.loads /\ dataset'[e].made # 0
                                /\ dataset'[e].status # "absent"
               /\ dataset'[e].made <= counts'.loads
               /\ e > counts'.loads => outcome'[e] = "none"
    <3>1. e > made => e > counts.loads
      BY <1>1, <2>2, <2>3
    <3>2. outcome' = outcome /\ (e > made => outcome[e] = "none")
      BY <1>3, <3>1 DEF DatasetsTyped, DataTyped, loading
    <3>3. CASE e = d
      BY <1>1, <1>2, <1>4, <1>5, <2>3, <3>2, <3>3
    <3>4. CASE e # d
      BY <1>1, <1>5, <2>2, <2>3, <3>2, <3>4 DEF DatasetsTyped, DataTyped, InData
    <3> QED
      BY <3>3, <3>4
  <2>5. counts' \in [loads : 0..MaxLoads, notebooks : 0..MaxNotebooks, returns : Nat]
    BY <1>1 DEF DatasetsTyped, DataTyped, DataIds
  <2> QED
    BY <1>3, <2>1, <2>4, <2>5 DEF DatasetsTyped, DataTyped, loading
<1>7. NotesTyped'
  BY <1>1, <1>3 DEF DatasetsTyped, NotesTyped
<1>8. LoadsTyped'
  <2>1. \A l \in Load : l.made \in Nat
    BY DEF Load, DataIds
  <2>2. \A l \in Load : l.made <= counts.loads => l.made <= counts'.loads
    BY <1>1, <2>1 DEF DataIds
  <2>3. \A i \in DOMAIN loads : loads[i] \in Load
    BY ElementsOfSeq DEF DatasetsTyped, LoadsTyped
  <2>4. upload' \in Load /\ upload'.made <= counts'.loads /\ upload'.step = "created"
    BY <1>1, <1>3, <1>4 DEF DataIds
  <2> QED
    BY <1>3, <2>2, <2>3, <2>4 DEF DatasetsTyped, LoadsTyped, loading
<1>9. ListsTyped'
  BY <1>3 DEF DatasetsTyped, ListsTyped, chosen, shownLists
<1> QED
  BY <1>6, <1>7, <1>8, <1>9 DEF DatasetsTyped

\* The dataset is listed and selected.
LEMMA TypedListed ==
  ASSUME DatasetsTyped, DatasetListed
  PROVE  DatasetsTyped'
<1>1. upload \in Load /\ upload.id \in DataIds /\ upload.made \in DataIds
  BY DEF DatasetListed, DatasetsTyped, LoadsTyped, noUpload, Load
<1>2. DataTyped' /\ NotesTyped'
  BY DEF DatasetListed, DatasetsTyped, DataTyped, NotesTyped, InData, dataServer, loading
<1>3. LoadsTyped'
  <2>1. CASE upload.from = 0
    BY <2>1 DEF DatasetListed, DatasetsTyped, LoadsTyped, loading
  <2>2. CASE upload.from # 0
    <3>1. upload' = [upload EXCEPT !.step = "listed"]
      BY <2>2 DEF DatasetListed
    <3>2. upload' \in Load /\ upload'.step = "listed" /\ upload'.from = upload.from
          /\ upload'.made = upload.made
      BY <1>1, <3>1 DEF Load
    <3>3. upload.made <= counts.loads
      BY <1>1, <2>2 DEF DatasetListed, DatasetsTyped, LoadsTyped, noUpload
    <3> QED
      BY <2>2, <3>2, <3>3 DEF DatasetListed, DatasetsTyped, LoadsTyped, loading
  <2> QED
    BY <2>1, <2>2
<1>4. ListsTyped'
  <2>1. /\ shownData' = shownData \cup {upload.id} /\ dataLists' = Late(dataLists)
        /\ chosenData' = upload.id /\ chosenNote' = 0
        /\ watching' \subseteq watching \cup {[id |-> upload.id, made |-> upload.made]}
        /\ UNCHANGED <<shownNotes, noteLists, dropping, lost>>
        /\ mixed' = (mixed \/ dataset[upload.id].made # upload.made)
    BY DEF DatasetListed, ShowData, Chooses
  <2> QED
    BY <1>1, <2>1, LateTyped DEF DatasetsTyped, ListsTyped, chosen
<1> QED
  BY <1>2, <1>3, <1>4 DEF DatasetsTyped

\* Its job is enqueued.
LEMMA TypedEnqueueLoad ==
  ASSUME DatasetsTyped, EnqueueLoad
  PROVE  DatasetsTyped'
<1>1. /\ upload \in Load /\ upload.id \in DataIds /\ upload.made \in DataIds
      /\ upload.made <= counts.loads
  BY DEF EnqueueLoad, DatasetsTyped, LoadsTyped, noUpload, Load
<1>2. DataTyped' /\ NotesTyped'
  BY DEF EnqueueLoad, DatasetsTyped, DataTyped, NotesTyped, InData, dataServer
<1>3. ListsTyped'
  <2>1. watching' \subseteq watching \cup {[id |-> upload.id, made |-> upload.made]}
    BY DEF EnqueueLoad
  <2> QED
    BY <1>1, <2>1 DEF EnqueueLoad, DatasetsTyped, ListsTyped, chosen, shownLists
<1>4. LoadsTyped'
  <2>1. upload' = noUpload \/ (upload' = [upload EXCEPT !.step = "enqueued"] /\ upload.from = 0)
    BY DEF EnqueueLoad
  <2>2. upload' = noUpload \/
          (upload' \in Load /\ upload'.made <= counts.loads /\ upload'.from = 0
           /\ upload'.step = "enqueued")
    BY <1>1, <2>1 DEF Load
  <2>3. loads' = loads \/ loads' = Append(loads, upload)
    BY DEF EnqueueLoad
  <2>4. loads' \in Seq(Load) /\ \A i \in DOMAIN loads' : loads'[i].made <= counts.loads
    <3>1. CASE loads' = loads
      BY <3>1 DEF DatasetsTyped, LoadsTyped
    <3>2. CASE loads' = Append(loads, upload)
      <4>1. /\ loads' \in Seq(Load) /\ DOMAIN loads' = 1..(Len(loads) + 1)
            /\ DOMAIN loads = 1..Len(loads) /\ Len(loads) \in Nat
            /\ \A i \in DOMAIN loads : loads'[i] = loads[i]
            /\ loads'[Len(loads) + 1] = upload
        BY <1>1, <3>2, AtTheEnd DEF DatasetsTyped, LoadsTyped
      <4>2. \A i \in DOMAIN loads' : i \in DOMAIN loads \/ i = Len(loads) + 1
        BY <4>1
      <4> QED
        BY <1>1, <4>1, <4>2 DEF DatasetsTyped, LoadsTyped
    <3> QED
      BY <2>3, <3>1, <3>2
  <2> QED
    BY <2>2, <2>4 DEF EnqueueLoad, DatasetsTyped, LoadsTyped
<1> QED
  BY <1>2, <1>3, <1>4 DEF DatasetsTyped

\* A row's status is changed, or its file.
LEMMA RowTyped ==
  ASSUME DataTyped, NEW d \in DataIds, InData(d), NEW row \in DataRow,
         dataset' = [dataset EXCEPT ![d] = row], row.made = dataset[d].made,
         row.status # "absent",
         outcome' \in [DataIds -> {"none"} \cup LoadEnded],
         \A m \in DataIds : outcome'[m] = outcome[m] \/ m <= counts.loads,
         folders' \subseteq 1..MaxLoads, UNCHANGED counts
  PROVE  DataTyped'
<1>1. \A e \in DataIds : dataset'[e] = IF e = d THEN row ELSE dataset[e]
  BY DEF DataTyped
<1>2. dataset' \in [DataIds -> DataRow]
  BY DEF DataTyped
<1>3. counts.loads \in Nat /\ \A e \in DataIds : e \in Nat
  BY DataBounds DEF DataTyped, DataIds
<1>4. ASSUME NEW e \in DataIds
      PROVE  /\ InData(e)' => e <= counts'.loads /\ dataset'[e].made # 0
                              /\ dataset'[e].status # "absent"
             /\ dataset'[e].made <= counts'.loads
             /\ e > counts'.loads => outcome'[e] = "none"
  <2>1. e > counts.loads => outcome'[e] = "none"
    BY <1>3 DEF DataTyped
  <2>2. CASE e = d
    BY <1>1, <2>1, <2>2 DEF DataTyped, InData
  <2>3. CASE e # d
    BY <1>1, <2>1, <2>3 DEF DataTyped, InData
  <2> QED
    BY <2>2, <2>3
<1> QED
  BY <1>2, <1>4 DEF DataTyped

\* The end of a load is told.
LEMMA ToldTyped ==
  ASSUME DatasetsTyped, NEW load \in Load, load.made <= counts.loads, NEW how \in LoadEnded,
         Told(load, how)
  PROVE  /\ outcome' \in [DataIds -> {"none"} \cup LoadEnded]
         /\ \A m \in DataIds : outcome'[m] = outcome[m] \/ m <= counts.loads
         /\ outcome'[load.made] = how
         /\ \A m \in DataIds : m # load.made => outcome'[m] = outcome[m]
  BY DEF DatasetsTyped, DataTyped, Told, Load

\* The consumer takes a load.
LEMMA TypedTakeLoad ==
  ASSUME DatasetsTyped, TakeLoad
  PROVE  DatasetsTyped'
<1> DEFINE l == Head(loads)
<1>1. /\ loads # <<>> /\ loads' = Tail(loads) /\ loader = noUpload
      /\ IF dataset[l.id] = noData
         THEN Told(l, "failed") /\ UNCHANGED <<loader, dataset>>
         ELSE /\ loader' = [l EXCEPT !.step = "started"]
              /\ dataset' = [dataset EXCEPT ![l.id].status = "started"]
              /\ UNCHANGED outcome
      /\ UNCHANGED <<notebook, folders, copying, shownLists, chosen, upload, watching, dropping,
                     lost, mixed, counts>>
  BY DEF TakeLoad
<1>2. /\ DOMAIN loads = 1..Len(loads) /\ Len(loads) \in Nat /\ Len(loads) >= 1 /\ l = loads[1]
      /\ DOMAIN Tail(loads) = 1..(Len(loads) - 1)
      /\ \A i \in DOMAIN Tail(loads) : i + 1 \in DOMAIN loads /\ Tail(loads)[i] = loads[i + 1]
  BY <1>1, TheRest DEF DatasetsTyped, LoadsTyped
<1>3. l \in Load /\ l.made <= counts.loads /\ l.id \in DataIds
  <2>1. 1 \in DOMAIN loads /\ loads[1] \in Load
    BY <1>2, ElementsOfSeq DEF DatasetsTyped, LoadsTyped
  <2> QED
    BY <1>2, <2>1 DEF DatasetsTyped, LoadsTyped, Load
<1> HIDE DEF l
<1>4. NotesTyped' /\ ListsTyped'
  BY <1>1 DEF DatasetsTyped, NotesTyped, ListsTyped, chosen, shownLists
<1>5. DataTyped'
  <2>1. CASE dataset[l.id] = noData
    <3>1. /\ outcome' \in [DataIds -> {"none"} \cup LoadEnded]
          /\ \A m \in DataIds : outcome'[m] = outcome[m] \/ m <= counts.loads
          /\ UNCHANGED <<dataset, folders, counts>>
      BY <1>1, <1>3, <2>1, ToldTyped DEF LoadEnded
    <3>2. counts.loads \in Nat /\ \A e \in DataIds : e \in Nat
      BY DataBounds DEF DatasetsTyped, DataTyped, DataIds
    <3> QED
      BY <3>1, <3>2 DEF DatasetsTyped, DataTyped, InData
  <2>2. CASE dataset[l.id] # noData
    <3> DEFINE row == [dataset[l.id] EXCEPT !.status = "started"]
    <3>1. dataset[l.id] \in DataRow
      BY <1>3 DEF DatasetsTyped, DataTyped
    <3>2. row \in DataRow /\ row.made = dataset[l.id].made /\ row.status = "started"
      BY <3>1 DEF DataRow
    <3>3. dataset' = [dataset EXCEPT ![l.id] = row] /\ UNCHANGED <<outcome, folders, counts>>
      BY <1>1, <2>2
    <3> HIDE DEF row
    <3> QED
      BY <1>3, <2>2, <3>2, <3>3, RowTyped DEF DatasetsTyped, DataTyped, InData
  <2> QED
    BY <2>1, <2>2
<1>6. LoadsTyped'
  <2>1. loads' \in Seq(Load)
    BY <1>1 DEF DatasetsTyped, LoadsTyped
  <2>2. \A i \in DOMAIN loads' : loads'[i].made <= counts.loads
    BY <1>1, <1>2 DEF DatasetsTyped, LoadsTyped
  <2>3. loader' = noUpload \/
          (loader' \in Load /\ loader'.step = "started" /\ loader'.made <= counts.loads)
    BY <1>1, <1>3 DEF Load
  <2> QED
    BY <1>1, <2>1, <2>2, <2>3 DEF DatasetsTyped, LoadsTyped
<1> QED
  BY <1>4, <1>5, <1>6 DEF DatasetsTyped

\* It is read and saved.
LEMMA TypedSave ==
  ASSUME DatasetsTyped, SaveLoad
  PROVE  DatasetsTyped'
<1>1. loader \in Load /\ loader.made \in DataIds /\ loader.made <= counts.loads
  BY DEF SaveLoad, DatasetsTyped, LoadsTyped, noUpload, Load
<1>2. loader' = [loader EXCEPT !.step = "saved"] /\ folders' = folders \cup {loader.made}
      /\ UNCHANGED <<dataset, notebook, copying, loads, outcome, shownLists, chosen, upload,
                     watching, dropping, lost, mixed, counts>>
  BY DEF SaveLoad
<1>3. loader' \in Load /\ loader'.made = loader.made /\ loader'.step = "saved"
  BY <1>1, <1>2 DEF Load
<1>4. DataTyped'
  BY <1>1, <1>2 DEF DatasetsTyped, DataTyped, InData, DataIds
<1>5. NotesTyped' /\ ListsTyped'
  BY <1>2 DEF DatasetsTyped, NotesTyped, ListsTyped, chosen, shownLists
<1>6. LoadsTyped'
  BY <1>1, <1>2, <1>3 DEF DatasetsTyped, LoadsTyped
<1> QED
  BY <1>4, <1>5, <1>6 DEF DatasetsTyped

\* It ends, one way or the other.
LEMMA TypedLoadEnds ==
  ASSUME DatasetsTyped, LoadRaises \/ StoreLoad
  PROVE  DatasetsTyped'
<1>1. loader \in Load /\ loader.made \in DataIds /\ loader.id \in DataIds
      /\ loader.made <= counts.loads /\ loader.made \in 0..MaxLoads
  BY DEF LoadRaises, StoreLoad, DatasetsTyped, LoadsTyped, noUpload, Load, DataIds
<1>2. /\ loader' = noUpload /\ folders' \subseteq folders
      /\ UNCHANGED <<notebook, copying, loads, shownLists, chosen, upload, watching,
                     dropping, lost, mixed, counts>>
  BY DEF LoadRaises, StoreLoad
<1>3. PICK how \in LoadEnded : Told(loader, how)
  BY DEF LoadRaises, StoreLoad, LoadEnded
<1>4. /\ outcome' \in [DataIds -> {"none"} \cup LoadEnded]
      /\ \A m \in DataIds : outcome'[m] = outcome[m] \/ m <= counts.loads
  BY <1>1, <1>3, ToldTyped
<1>5. DataTyped'
  <2>1. CASE dataset[loader.id] = noData
    <3>1. UNCHANGED dataset
      BY <2>1 DEF LoadRaises, StoreLoad
    <3>2. counts.loads \in Nat /\ \A e \in DataIds : e \in Nat
      BY DataBounds DEF DatasetsTyped, DataTyped, DataIds
    <3> QED
      BY <1>2, <1>4, <3>1, <3>2 DEF DatasetsTyped, DataTyped, InData
  <2>2. CASE dataset[loader.id] # noData
    <3>1. dataset[loader.id] \in DataRow /\ dataset \in [DataIds -> DataRow]
      BY <1>1 DEF DatasetsTyped, DataTyped
    <3>2. PICK row \in DataRow : /\ dataset' = [dataset EXCEPT ![loader.id] = row]
                                 /\ row.made = dataset[loader.id].made /\ row.status # "absent"
      <4>1. CASE LoadRaises
        <5>1. PICK status \in {"failed", "started"} :
                dataset' = [dataset EXCEPT ![loader.id].status = status]
          BY <2>2, <4>1 DEF LoadRaises
        <5> DEFINE row == [dataset[loader.id] EXCEPT !.status = status]
        <5>2. row \in DataRow /\ row.made = dataset[loader.id].made /\ row.status # "absent"
          BY <3>1 DEF DataRow, LoadEnded
        <5>3. dataset' = [dataset EXCEPT ![loader.id] = row]
          BY <5>1
        <5> QED
          BY <5>2, <5>3
      <4>2. CASE StoreLoad
        <5> DEFINE row == [dataset[loader.id] EXCEPT !.status = "finished", !.file = loader.made]
        <5>1. row \in DataRow /\ row.made = dataset[loader.id].made /\ row.status # "absent"
          BY <1>1, <3>1 DEF DataRow, LoadEnded
        <5>2. dataset' = [dataset EXCEPT ![loader.id].status = "finished",
                                         ![loader.id].file = loader.made]
          BY <2>2, <4>2 DEF StoreLoad
        <5>3. dataset' = [dataset EXCEPT ![loader.id] = row]
          BY <1>1, <3>1, <5>2
        <5> QED
          BY <5>1, <5>3
      <4> QED
        BY <4>1, <4>2
    <3> QED
      BY <1>1, <1>2, <1>4, <2>2, <3>2, RowTyped DEF DatasetsTyped, DataTyped, InData
  <2> QED
    BY <2>1, <2>2
<1>6. NotesTyped' /\ ListsTyped'
  BY <1>2 DEF DatasetsTyped, NotesTyped, ListsTyped, chosen, shownLists
<1>7. LoadsTyped'
  BY <1>2 DEF DatasetsTyped, LoadsTyped
<1> QED
  BY <1>5, <1>6, <1>7 DEF DatasetsTyped

\* Pages' steps change neither rows nor loads.
LEMMA OnlyLists ==
  ASSUME DatasetsTyped, ListsTyped', UNCHANGED <<dataServer, loading, upload>>,
         counts'.loads = counts.loads, counts'.notebooks = counts.notebooks,
         counts' \in [loads : 0..MaxLoads, notebooks : 0..MaxNotebooks, returns : Nat]
  PROVE  DatasetsTyped'
<1>1. DataTyped'
  BY DEF DatasetsTyped, DataTyped, InData, dataServer, loading
<1>2. NotesTyped'
  BY DEF DatasetsTyped, NotesTyped, dataServer
<1>3. LoadsTyped'
  BY DEF DatasetsTyped, LoadsTyped, loading
<1> QED
  BY <1>1, <1>2, <1>3 DEF DatasetsTyped

\* The end of a load reaches the page.
LEMMA TypedWatched ==
  ASSUME DatasetsTyped, NEW w \in watching, LoadSucceeded(w) \/ LoadFailed(w)
  PROVE  DatasetsTyped'
<1>1. w.id \in DataIds /\ [kind |-> "dataset", id |-> w.id] \in DataItem
  BY DEF DatasetsTyped, ListsTyped, chosen, DataItem
<1>2. UNCHANGED <<dataServer, loading, upload, counts>>
  BY DEF LoadSucceeded, LoadFailed
<1>3. counts \in [loads : 0..MaxLoads, notebooks : 0..MaxNotebooks, returns : Nat]
  BY DEF DatasetsTyped, DataTyped
<1>4. ListsTyped'
  <2>1. CASE LoadSucceeded(w)
    <3>1. /\ watching' = watching \ {w}
          /\ dataLists' = Append(dataLists, DataAnswer(w.id))
          /\ UNCHANGED <<shownData, shownNotes, noteLists, chosen, dropping, lost, mixed>>
      BY <2>1 DEF LoadSucceeded
    <3>2. DataAnswer(w.id) \in DataList
      BY <1>1, ListAnswersTyped DEF DatasetsTyped
    <3>3. dataLists' \in Seq(DataList)
      BY <3>1, <3>2, AtTheEnd DEF DatasetsTyped, ListsTyped, chosen
    <3> QED
      BY <3>1, <3>3 DEF DatasetsTyped, ListsTyped, chosen
  <2>2. CASE LoadFailed(w)
    <3>1. /\ watching' = watching \ {w} /\ chosenData' = 0 /\ UNCHANGED chosenNote
          /\ shownData' \subseteq shownData
          /\ dataLists' = dataLists \/ dataLists' = Late(dataLists)
          /\ dropping' \subseteq dropping \cup {[kind |-> "dataset", id |-> w.id]}
          /\ UNCHANGED <<shownNotes, noteLists, lost, mixed>>
      BY <2>2 DEF LoadFailed, ShowData
    <3> QED
      BY <1>1, <3>1, LateTyped DEF DatasetsTyped, ListsTyped, chosen
  <2> QED
    BY <2>1, <2>2
<1> QED
  BY <1>2, <1>3, <1>4, OnlyLists

\* A list that arrives leaves the others, those before it late.
LEMMA ListGoes ==
  ASSUME NEW lists, lists \in Seq(DataList) \/ lists \in Seq(NoteList), NEW n \in DOMAIN lists
  PROVE  /\ DOMAIN Without(lists, n) = 1..(Len(lists) - 1)
         /\ DOMAIN lists = 1..Len(lists) /\ Len(lists) \in Nat
         /\ \A i \in 1..(Len(lists) - 1) : \A j : j = (IF i < n THEN i ELSE i + 1) =>
              /\ j \in DOMAIN lists /\ j # n
              /\ Without(lists, n)[i].rows = lists[j].rows
              /\ Without(lists, n)[i].then = lists[j].then
              /\ Without(lists, n)[i].late = (lists[j].late \/ i < n)
<1> DEFINE marked == [j \in DOMAIN lists |-> [lists[j] EXCEPT !.late = @ \/ j < n]]
<1>1. DOMAIN lists = 1..Len(lists) /\ Len(lists) \in Nat /\ n \in 1..Len(lists)
  OBVIOUS
<1>2. ASSUME NEW j \in DOMAIN lists
      PROVE  /\ marked[j].rows = lists[j].rows /\ marked[j].then = lists[j].then
             /\ marked[j].late = (lists[j].late \/ j < n)
             /\ lists \in Seq(DataList) => marked[j] \in DataList
             /\ lists \in Seq(NoteList) => marked[j] \in NoteList
  <2>1. marked[j] = [lists[j] EXCEPT !.late = @ \/ j < n]
    OBVIOUS
  <2>2. ASSUME lists \in Seq(DataList)
        PROVE  /\ marked[j].rows = lists[j].rows /\ marked[j].then = lists[j].then
               /\ marked[j].late = (lists[j].late \/ j < n) /\ marked[j] \in DataList
    <3>1. lists[j] \in DataList
      BY <2>2, ElementsOfSeq
    <3> HIDE DEF marked
    <3> QED
      BY <2>1, <3>1 DEF DataList
  <2>3. ASSUME lists \in Seq(NoteList)
        PROVE  /\ marked[j].rows = lists[j].rows /\ marked[j].then = lists[j].then
               /\ marked[j].late = (lists[j].late \/ j < n) /\ marked[j] \in NoteList
    <3>1. lists[j] \in NoteList
      BY <2>3, ElementsOfSeq
    <3> HIDE DEF marked
    <3> QED
      BY <2>1, <3>1 DEF NoteList
  <2> QED
    BY <2>2, <2>3
<1>3. /\ marked \in Seq(DataList) \/ marked \in Seq(NoteList)
      /\ DOMAIN marked = DOMAIN lists /\ Len(marked) = Len(lists)
  <2>1. CASE lists \in Seq(DataList)
    <3>1. \A j \in DOMAIN lists : marked[j] \in DataList
      BY <1>2, <2>1
    <3> QED
      BY <1>1, <2>1, <3>1
  <2>2. CASE lists \in Seq(NoteList)
    <3>1. \A j \in DOMAIN lists : marked[j] \in NoteList
      BY <1>2, <2>2
    <3> QED
      BY <1>1, <2>2, <3>1
  <2> QED
    BY <2>1, <2>2
<1>4. Without(lists, n) = RemoveAt(marked, n)
  BY DEF Without
<1> HIDE DEF marked
<1>5. /\ DOMAIN RemoveAt(marked, n) = 1..(Len(lists) - 1)
      /\ \A i \in 1..(Len(lists) - 1) :
           RemoveAt(marked, n)[i] = IF i < n THEN marked[i] ELSE marked[i + 1]
  BY <1>3, Removed
<1>6. ASSUME NEW i \in 1..(Len(lists) - 1), NEW j, j = IF i < n THEN i ELSE i + 1
      PROVE  /\ j \in DOMAIN lists /\ j # n
             /\ Without(lists, n)[i].rows = lists[j].rows
             /\ Without(lists, n)[i].then = lists[j].then
             /\ Without(lists, n)[i].late = (lists[j].late \/ i < n)
  <2>1. j \in DOMAIN lists /\ j # n /\ (j < n) = (i < n)
    BY <1>1, <1>6
  <2>2. Without(lists, n)[i] = marked[j]
    BY <1>4, <1>5, <1>6
  <2> QED
    BY <1>2, <2>1, <2>2
<1> QED
  BY <1>1, <1>4, <1>5, <1>6

\* And they are lists.
LEMMA ListGoesTyped ==
  /\ \A lists \in Seq(DataList) : \A n \in DOMAIN lists : Without(lists, n) \in Seq(DataList)
  /\ \A lists \in Seq(NoteList) : \A n \in DOMAIN lists : Without(lists, n) \in Seq(NoteList)
<1>1. ASSUME NEW lists \in Seq(DataList), NEW n \in DOMAIN lists
      PROVE  Without(lists, n) \in Seq(DataList)
  <2> DEFINE marked == [j \in DOMAIN lists |-> [lists[j] EXCEPT !.late = @ \/ j < n]]
  <2>1. \A j \in DOMAIN lists : lists[j] \in DataList
    OBVIOUS
  <2>2. \A j \in DOMAIN lists : marked[j] \in DataList
    BY <2>1 DEF DataList
  <2>3. marked \in Seq(DataList) /\ n \in DOMAIN marked
    BY <2>2
  <2>4. Without(lists, n) = RemoveAt(marked, n)
    BY DEF Without
  <2> HIDE DEF marked
  <2> QED
    BY <2>3, <2>4, Removed
<1>2. ASSUME NEW lists \in Seq(NoteList), NEW n \in DOMAIN lists
      PROVE  Without(lists, n) \in Seq(NoteList)
  <2> DEFINE marked == [j \in DOMAIN lists |-> [lists[j] EXCEPT !.late = @ \/ j < n]]
  <2>1. \A j \in DOMAIN lists : lists[j] \in NoteList
    OBVIOUS
  <2>2. \A j \in DOMAIN lists : marked[j] \in NoteList
    BY <2>1 DEF NoteList
  <2>3. marked \in Seq(NoteList) /\ n \in DOMAIN marked
    BY <2>2
  <2>4. Without(lists, n) = RemoveAt(marked, n)
    BY DEF Without
  <2> HIDE DEF marked
  <2> QED
    BY <2>3, <2>4, Removed
<1> QED
  BY <1>1, <1>2

\* A list arrives.
LEMMA TypedListArrives ==
  ASSUME DatasetsTyped, DataListArrives \/ NoteListArrives
  PROVE  DatasetsTyped'
<1>1. UNCHANGED <<dataServer, loading, upload, counts, watching, dropping, lost>>
  BY DEF DataListArrives, NoteListArrives
<1>2. counts \in [loads : 0..MaxLoads, notebooks : 0..MaxNotebooks, returns : Nat]
  BY DEF DatasetsTyped, DataTyped
<1>3. ListsTyped'
  <2>1. CASE DataListArrives
    <3>1. PICK i \in DOMAIN dataLists :
            /\ shownData' = dataLists[i].rows /\ dataLists' = Without(dataLists, i)
            /\ mixed' = (mixed \/ dataLists[i].late)
            /\ chosenData' = IF dataLists[i].then # 0 THEN dataLists[i].then ELSE chosenData
      BY <2>1 DEF DataListArrives
    <3>2. dataLists[i] \in DataList
      BY ElementsOfSeq DEF DatasetsTyped, ListsTyped, chosen
    <3>3. dataLists[i].rows \subseteq DataIds /\ dataLists[i].late \in BOOLEAN
          /\ dataLists[i].then \in {0} \cup DataIds
      BY <3>2 DEF DataList
    <3>4. dataLists' \in Seq(DataList)
      BY <3>1, ListGoesTyped DEF DatasetsTyped, ListsTyped, chosen
    <3> QED
      BY <1>1, <2>1, <3>1, <3>3, <3>4 DEF DatasetsTyped, ListsTyped, chosen, DataListArrives
  <2>2. CASE NoteListArrives
    <3>1. PICK i \in DOMAIN noteLists :
            /\ shownNotes' = noteLists[i].rows /\ noteLists' = Without(noteLists, i)
            /\ mixed' = (mixed \/ noteLists[i].late)
            /\ IF noteLists[i].then # 0 THEN Chooses(0, noteLists[i].then) ELSE UNCHANGED chosen
      BY <2>2 DEF NoteListArrives
    <3>2. noteLists[i] \in NoteList
      BY ElementsOfSeq DEF DatasetsTyped, ListsTyped, chosen
    <3>3. noteLists[i].rows \subseteq NoteIds /\ noteLists[i].late \in BOOLEAN
          /\ noteLists[i].then \in {0} \cup NoteIds
      BY <3>2 DEF NoteList
    <3>4. noteLists' \in Seq(NoteList)
      BY <3>1, ListGoesTyped DEF DatasetsTyped, ListsTyped, chosen
    <3> QED
      BY <1>1, <2>2, <3>1, <3>3, <3>4 DEF DatasetsTyped, ListsTyped, chosen, NoteListArrives, Chooses
  <2> QED
    BY <2>1, <2>2
<1> QED
  BY <1>1, <1>2, <1>3, OnlyLists

\* A notebook's dataset is copied.
LEMMA TypedCopy ==
  ASSUME DatasetsTyped, (\E d \in DataIds : CopyBegins(d)) \/ CopyEnds
  PROVE  DatasetsTyped'
<1>1. UNCHANGED <<dataset, folders, loading, upload>> /\ counts'.loads = counts.loads
  BY DEF CopyBegins, CopyEnds, DatasetsTyped, DataTyped
<1>2. counts' \in [loads : 0..MaxLoads, notebooks : 0..MaxNotebooks, returns : Nat]
      /\ counts.notebooks \in Nat
  <2>1. CASE counts' = counts
    BY <2>1, DataBounds DEF DatasetsTyped, DataTyped
  <2>2. CASE counts.notebooks < MaxNotebooks /\ counts' = [counts EXCEPT !.notebooks = @ + 1]
    BY <2>2, DataBounds DEF DatasetsTyped, DataTyped
  <2> QED
    BY <2>1, <2>2 DEF CopyBegins, CopyEnds
<1>3. DataTyped'
  BY <1>1, <1>2 DEF DatasetsTyped, DataTyped, InData, loading
<1>4. LoadsTyped'
  BY <1>1 DEF DatasetsTyped, LoadsTyped, loading
<1>5. ASSUME NEW d \in DataIds, CopyBegins(d)
      PROVE  NotesTyped' /\ ListsTyped'
  <2>1. /\ copying = 0 /\ copying' = d /\ counts' = [counts EXCEPT !.notebooks = @ + 1]
        /\ counts'.notebooks = counts.notebooks + 1 /\ UNCHANGED notebook
    BY <1>5 DEF CopyBegins, DatasetsTyped, DataTyped
  <2>2. d \in 0..MaxLoads /\ \A n \in NoteIds : n \in Nat
    BY DataBounds DEF DataIds, NoteIds
  <2>3. NotesTyped'
    BY <1>2, <2>1, <2>2 DEF DatasetsTyped, NotesTyped
  <2> QED
    BY <1>5, <2>3 DEF CopyBegins, DatasetsTyped, ListsTyped, chosen, shownLists
<1>6. ASSUME CopyEnds  PROVE NotesTyped' /\ ListsTyped'
  <2> DEFINE n == NextNote
             list == [rows |-> {m \in NoteIds : notebook'[m] # 0},
                      then |-> n, late |-> dropping # {}]
  <2>1. n \in NoteIds /\ n <= counts.notebooks /\ copying # 0
    BY <1>6, NextNoteBound DEF CopyEnds, DatasetsTyped
  <2>2. /\ notebook' = [notebook EXCEPT ![n] = copying] /\ noteLists' = Append(noteLists, list)
        /\ copying' = 0
        /\ UNCHANGED <<shownData, shownNotes, dataLists, chosen, watching, dropping, lost, mixed,
                       counts>>
    BY <1>6 DEF CopyEnds
  <2>3. list \in NoteList
    BY <2>1 DEF NoteList
  <2> HIDE DEF n, list
  <2>4. NotesTyped'
    <3>1. notebook' \in [NoteIds -> 0..MaxLoads]
          /\ \A m \in NoteIds : notebook'[m] # 0 => m = n \/ notebook[m] # 0
      BY <2>1, <2>2 DEF DatasetsTyped, NotesTyped
    <3>2. \A m \in NoteIds : notebook'[m] # 0 => m <= counts.notebooks
      BY <2>1, <3>1 DEF DatasetsTyped, NotesTyped
    <3> QED
      BY <2>2, <3>1, <3>2, DataBounds DEF NotesTyped
  <2>5. noteLists' \in Seq(NoteList)
    BY <2>2, <2>3, AtTheEnd DEF DatasetsTyped, ListsTyped, chosen
  <2>6. ListsTyped'
    BY <2>2, <2>5 DEF DatasetsTyped, ListsTyped, chosen
  <2> QED
    BY <2>4, <2>6
<1> QED
  BY <1>3, <1>4, <1>5, <1>6 DEF DatasetsTyped

\* What is clicked is selected, or goes.
LEMMA TypedClicks ==
  ASSUME DatasetsTyped,
         \/ \E d \in {0} \cup DataIds : ChooseDataset(d)
         \/ \E n \in NoteIds : DeleteNotebookOf(n) \/ ChooseNotebook(n)
         \/ \E d \in DataIds : DeleteDataset(d)
  PROVE  DatasetsTyped'
<1>1. UNCHANGED <<dataServer, loading, upload, counts>>
  BY DEF ChooseDataset, ChooseNotebook, DeleteDataset, DeleteNotebookOf
<1>2. counts \in [loads : 0..MaxLoads, notebooks : 0..MaxNotebooks, returns : Nat]
  BY DEF DatasetsTyped, DataTyped
<1>3. ASSUME (\E d \in {0} \cup DataIds : ChooseDataset(d))
             \/ (\E n \in NoteIds : ChooseNotebook(n))
      PROVE  ListsTyped'
  BY <1>3 DEF ChooseDataset, ChooseNotebook, Chooses, DatasetsTyped, ListsTyped, chosen, shownLists
<1>4. ASSUME NEW d \in DataIds, DeleteDataset(d)  PROVE ListsTyped'
  <2>1. [kind |-> "dataset", id |-> d] \in DataItem
    BY DEF DataItem
  <2>2. /\ shownData' = shownData \ {d} /\ dataLists' = Late(dataLists)
        /\ shownNotes' \subseteq shownNotes /\ noteLists' = Late(noteLists)
        /\ chosenData' \in {chosenData, 0} /\ chosenNote' \in {chosenNote, 0}
        /\ dropping' = dropping \cup {[kind |-> "dataset", id |-> d]}
        /\ lost' \in BOOLEAN /\ UNCHANGED <<watching, mixed>>
    BY <1>4 DEF DeleteDataset, ShowData, ShowNotes, DatasetsTyped, ListsTyped, chosen
  <2> QED
    BY <2>1, <2>2, LateTyped DEF DatasetsTyped, ListsTyped, chosen
<1>5. ASSUME NEW n \in NoteIds, DeleteNotebookOf(n)  PROVE ListsTyped'
  <2>1. [kind |-> "notebook", id |-> n] \in NoteItem
    BY DEF NoteItem
  <2>2. /\ shownNotes' = shownNotes \ {n} /\ noteLists' = Late(noteLists)
        /\ chosenData' = chosenData /\ chosenNote' \in {chosenNote, 0}
        /\ dropping' = dropping \cup {[kind |-> "notebook", id |-> n]}
        /\ UNCHANGED <<shownData, dataLists, watching, lost, mixed>>
    BY <1>5 DEF DeleteNotebookOf, ShowNotes
  <2> QED
    BY <2>1, <2>2, LateTyped DEF DatasetsTyped, ListsTyped, chosen
<1> QED
  BY <1>1, <1>2, <1>3, <1>4, <1>5, OnlyLists

\* The rows that were dropped go.
LEMMA TypedDropped ==
  ASSUME DatasetsTyped, NEW x \in dropping, Dropped(x)
  PROVE  DatasetsTyped'
<1>0. /\ x \in DataItem => x.kind = "dataset" /\ x.id \in DataIds
      /\ x \in NoteItem => x.kind = "notebook" /\ x.id \in NoteIds
      /\ x \in DataItem \cup NoteItem
  BY DEF DatasetsTyped, ListsTyped, chosen, DataItem, NoteItem
<1>1. UNCHANGED <<copying, loading, shownLists, chosen, upload, watching, mixed, counts>>
      /\ dropping' = dropping \ {x}
  BY DEF Dropped
<1>2. LoadsTyped'
  BY <1>1 DEF DatasetsTyped, LoadsTyped, loading
<1>3. ListsTyped'
  <2>1. lost' \in BOOLEAN
    BY DEF Dropped, DatasetsTyped, ListsTyped, chosen
  <2> QED
    BY <1>1, <2>1 DEF DatasetsTyped, ListsTyped, chosen, shownLists
<1>4. notebook' \in [NoteIds -> 0..MaxLoads] /\ \A n \in NoteIds : notebook'[n] # 0 => notebook[n] # 0
  BY <1>0, DataBounds DEF Dropped, DatasetsTyped, NotesTyped
<1>5. NotesTyped'
  BY <1>1, <1>4 DEF DatasetsTyped, NotesTyped
<1>6. DataTyped'
  <2>1. noData \in DataRow /\ noData.made = 0
    BY DataBounds DEF noData, DataRow
  <2>2. CASE x.kind = "dataset"
    <3>1. /\ dataset' = [dataset EXCEPT ![x.id] = noData] /\ folders' \subseteq folders
      BY <2>2 DEF Dropped
    <3>2. dataset' \in [DataIds -> DataRow]
          /\ \A d \in DataIds : dataset'[d] = IF d = x.id THEN noData ELSE dataset[d]
      BY <1>0, <2>1, <3>1 DEF DatasetsTyped, DataTyped
    <3>3. counts.loads \in Nat
      BY DataBounds DEF DatasetsTyped, DataTyped
    <3> QED
      BY <1>1, <2>1, <3>1, <3>2, <3>3 DEF DatasetsTyped, DataTyped, InData, loading
  <2>3. CASE x.kind # "dataset"
    BY <1>1, <2>3 DEF Dropped, DatasetsTyped, DataTyped, InData, loading
  <2> QED
    BY <2>2, <2>3
<1> QED
  BY <1>2, <1>3, <1>5, <1>6 DEF DatasetsTyped

\* The page is mounted again.
LEMMA TypedReturn ==
  ASSUME DatasetsTyped, ReturnToPage
  PROVE  DatasetsTyped'
<1>1. /\ UNCHANGED <<dataServer, loading, dropping, lost>> /\ upload' = noUpload
      /\ counts' = [counts EXCEPT !.returns = @ + 1]
      /\ shownData' = {} /\ shownNotes' = {} /\ chosenData' = 0 /\ chosenNote' = 0 /\ watching' = {}
      /\ dataLists' = <<DataAnswer(0)>> /\ noteLists' = <<NoteAnswer(0)>>
      /\ mixed' \in BOOLEAN
  BY DEF ReturnToPage, Chooses, DatasetsTyped, ListsTyped, chosen
<1>2. /\ counts' \in [loads : 0..MaxLoads, notebooks : 0..MaxNotebooks, returns : Nat]
      /\ counts'.loads = counts.loads /\ counts'.notebooks = counts.notebooks
  BY <1>1 DEF DatasetsTyped, DataTyped
<1>3. DataTyped' /\ NotesTyped'
  BY <1>1, <1>2 DEF DatasetsTyped, DataTyped, NotesTyped, InData, dataServer, loading
<1>4. LoadsTyped'
  BY <1>1, <1>2 DEF DatasetsTyped, LoadsTyped, loading
<1>5. ListsTyped'
  <2>1. DataAnswer(0) \in DataList /\ NoteAnswer(0) \in NoteList
    BY ListAnswersTyped DEF DatasetsTyped
  <2> QED
    BY <1>1, <2>1 DEF DatasetsTyped, ListsTyped, chosen
<1> QED
  BY <1>3, <1>4, <1>5 DEF DatasetsTyped

\* Every step keeps the types.
LEMMA PageTypedStep == DatasetsTyped /\ [DatasetsPageNext]_datasetsPageVars => DatasetsTyped'
<1> SUFFICES ASSUME DatasetsTyped, [DatasetsPageNext]_datasetsPageVars  PROVE DatasetsTyped'
  OBVIOUS
<1>1. CASE UNCHANGED datasetsPageVars
  BY <1>1 DEF datasetsPageVars, dataServer, loading, shownLists, DatasetsTyped, DataTyped, NotesTyped,
              LoadsTyped, ListsTyped, chosen, InData
<1>2. CASE \E from \in {0} \cup NoteIds : CreateDataset(from)
  BY <1>2, TypedCreate
<1>3. CASE DatasetListed \/ EnqueueLoad
  BY <1>3, TypedListed, TypedEnqueueLoad
<1>4. CASE TakeLoad \/ SaveLoad \/ LoadRaises \/ StoreLoad
  BY <1>4, TypedTakeLoad, TypedSave, TypedLoadEnds
<1>5. CASE \E w \in watching : LoadSucceeded(w) \/ LoadFailed(w)
  BY <1>5, TypedWatched
<1>6. CASE DataListArrives \/ NoteListArrives
  BY <1>6, TypedListArrives
<1>7. CASE (\E d \in DataIds : CopyBegins(d)) \/ CopyEnds
  BY <1>7, TypedCopy
<1>8. CASE \/ \E d \in {0} \cup DataIds : ChooseDataset(d)
           \/ \E n \in NoteIds : DeleteNotebookOf(n) \/ ChooseNotebook(n)
           \/ \E d \in DataIds : DeleteDataset(d)
  BY <1>8, TypedClicks
<1>9. CASE \E x \in dropping : Dropped(x)
  BY <1>9, TypedDropped
<1>10. CASE ReturnToPage
  BY <1>10, TypedReturn
<1> QED
  BY <1>1, <1>2, <1>3, <1>4, <1>5, <1>6, <1>7, <1>8, <1>9, <1>10 DEF DatasetsPageNext

\* Tables, queue and lists keep their shape.
THEOREM DatasetsTypeCorrect == DatasetsPageSpec => []DatasetsPageTypeOK
<1>1. DatasetsPageSpec => []DatasetsTyped
  BY PageTypedInit, PageTypedStep, PTL DEF DatasetsPageSpec
<1>2. DatasetsTyped => DatasetsPageTypeOK
  <2> SUFFICES ASSUME DatasetsTyped  PROVE DatasetsPageTypeOK
    OBVIOUS
  <2>1. \A d \in DataIds :
          /\ dataset[d].status \in {"absent", "waiting", "started", "finished", "failed"}
          /\ dataset[d].made \in 0..MaxLoads /\ dataset[d].file \in 0..MaxLoads
    BY DEF DatasetsTyped, DataTyped, DataRow, LoadEnded
  <2>2. chosenData \in {0} \cup DataIds /\ chosenNote \in {0} \cup NoteIds
    BY DEF DatasetsTyped, ListsTyped, chosen
  <2> QED
    BY <2>1, <2>2 DEF DatasetsTyped, DataTyped, NotesTyped, ListsTyped, chosen, DatasetsPageTypeOK, LoadEnded
<1> QED
  BY <1>1, <1>2, PTL

-----------------------------------------------------------------------------
(* Rows, loads and folders agree as long as no dataset went while something *)
(* of it was under way.                                                     *)

Waits(l) == dataset[l.id].made = l.made /\ dataset[l.id].status = "waiting"
Unqueued == upload.step \in {"created", "listed"}
Files == {dataset[d].file : d \in DataIds} \ {0}
SavedLoad == IF loader.step = "saved" THEN {loader.made} ELSE {}

\* A row has a folder when its load finished, and its outcome is its status,
\* unless the load failed without a word of it in the row.
RowAgrees(d) ==
  /\ dataset[d].file = IF dataset[d].status = "finished" THEN dataset[d].made ELSE 0
  /\ InData(d) =>
       /\ dataset[d].status \in LoadEnded => outcome[dataset[d].made] = dataset[d].status
       /\ dataset[d].status \notin LoadEnded =>
            \/ outcome[dataset[d].made] = "none"
            \/ dataset[d].status = "started" /\ outcome[dataset[d].made] = "failed"

RowsAgree ==
  /\ \A d, e \in DataIds : InData(d) /\ dataset[d].made = dataset[e].made => d = e
  /\ \A d \in DataIds : RowAgrees(d)

\* A load that is to come has its row, and each load comes once.
LoadsAgree ==
  /\ upload # noUpload => dataset[upload.id].made = upload.made
  /\ Unqueued => Waits(upload) /\ \A i \in DOMAIN loads : loads[i].made # upload.made
  /\ \A i \in DOMAIN loads : Waits(loads[i])
  /\ \A i, j \in DOMAIN loads : i # j => loads[i].made # loads[j].made
  /\ loader # noUpload => /\ dataset[loader.id].made = loader.made
                          /\ dataset[loader.id].status = "started"
                          /\ outcome[loader.made] = "none"

LoadInv == ~lost => RowsAgree /\ LoadsAgree /\ folders = Files \cup SavedLoad

\* There is a row where there is a number.
LEMMA RowFacts ==
  ASSUME DatasetsTyped
  PROVE  /\ \A d \in DataIds :
              /\ d \in Nat \ {0} /\ (InData(d) <=> dataset[d].made # 0)
              /\ dataset[d] \in DataRow /\ dataset[d].made \in Nat /\ dataset[d].made <= counts.loads
              /\ dataset[d].made # 0 => dataset[d].made \in DataIds
              /\ ~InData(d) => dataset[d].status = "absent" /\ dataset[d].file = 0
         /\ counts.loads \in Nat
<1>1. \A d \in DataIds : dataset[d] \in DataRow
  BY DEF DatasetsTyped, DataTyped
<1> QED
  BY <1>1, DataBounds DEF DatasetsTyped, DataTyped, DataRow, DataIds, InData, noData

\* The same of loads: each has the number of a dataset.
LEMMA LoadFacts ==
  ASSUME DatasetsTyped
  PROVE  /\ upload # noUpload => upload.id \in DataIds /\ upload.made \in DataIds
                                 /\ upload.made <= counts.loads
         /\ Unqueued => upload # noUpload
         /\ loader # noUpload => loader.id \in DataIds /\ loader.made \in DataIds
                                 /\ loader.step \in {"started", "saved"}
         /\ \A i \in DOMAIN loads : loads[i].id \in DataIds /\ loads[i].made \in DataIds
                                    /\ loads[i].made <= counts.loads
<1>1. \A i \in DOMAIN loads : loads[i] \in Load
  BY ElementsOfSeq DEF DatasetsTyped, LoadsTyped
<1> QED
  BY <1>1 DEF DatasetsTyped, LoadsTyped, Load, Unqueued, noUpload

\* In the initial state there is nothing that could disagree.
LEMMA LoadInit == DatasetsPageInit => LoadInv
<1> SUFFICES ASSUME DatasetsPageInit  PROVE LoadInv
  OBVIOUS
<1>1. \A d \in DataIds : dataset[d] = noData
  BY DEF DatasetsPageInit
<1>2. RowsAgree
  BY <1>1 DEF RowsAgree, RowAgrees, InData, noData
<1>3. LoadsAgree
  BY DEF DatasetsPageInit, LoadsAgree, Unqueued, noUpload
<1>4. Files = {} /\ SavedLoad = {} /\ folders = {}
  BY <1>1 DEF DatasetsPageInit, Files, SavedLoad, noData, noUpload
<1> QED
  BY <1>2, <1>3, <1>4 DEF LoadInv

\* Steps that touch neither rows nor loads leave them in agreement.
LEMMA LoadInvKept ==
  ASSUME LoadInv, UNCHANGED <<dataset, folders, loading>>, lost => lost',
         upload' = upload \/ upload' = noUpload
  PROVE  LoadInv'
<1> SUFFICES ASSUME ~lost'  PROVE (RowsAgree /\ LoadsAgree /\ folders = Files \cup SavedLoad)'
  BY DEF LoadInv
<1>1. RowsAgree /\ LoadsAgree /\ folders = Files \cup SavedLoad
  BY DEF LoadInv
<1>2. RowsAgree' /\ (folders = Files \cup SavedLoad)'
  BY <1>1 DEF RowsAgree, RowAgrees, InData, Files, SavedLoad, loading
<1>3. LoadsAgree'
  BY <1>1 DEF LoadsAgree, Waits, Unqueued, loading, noUpload
<1> QED
  BY <1>2, <1>3

\* The status of one row changes.
LEMMA RowsAgreeStep ==
  ASSUME DatasetsTyped, RowsAgree, NEW d \in DataIds, InData(d), NEW row \in DataRow,
         dataset' = [dataset EXCEPT ![d] = row], row.made = dataset[d].made,
         \A m \in DataIds : outcome'[m] = outcome[m] \/ m = row.made,
         RowAgrees(d)'
  PROVE  /\ RowsAgree' /\ row.made \in DataIds
         /\ \A e \in DataIds : dataset'[e] = IF e = d THEN row ELSE dataset[e]
         /\ \A e \in DataIds : dataset'[e].made = dataset[e].made
<1>1. \A e \in DataIds : dataset'[e] = IF e = d THEN row ELSE dataset[e]
  BY DEF DatasetsTyped, DataTyped
<1>2. \A e \in DataIds : dataset'[e].made = dataset[e].made /\ (InData(e)' <=> InData(e))
  <2>1. row # noData
    BY RowFacts DEF noData
  <2> QED
    BY <1>1, <2>1 DEF InData
<1>3. ASSUME NEW e \in DataIds, e # d  PROVE RowAgrees(e)'
  <2>1. RowAgrees(e) /\ dataset'[e] = dataset[e]
    BY <1>1, <1>3 DEF RowsAgree
  <2>2. InData(e) => dataset[e].made # row.made /\ dataset[e].made \in DataIds
    BY <1>3, RowFacts DEF RowsAgree
  <2> QED
    BY <1>2, <2>1, <2>2 DEF RowAgrees
<1>4. \A e \in DataIds : RowAgrees(e)'
  BY <1>3
<1>5. \A e, g \in DataIds : InData(e)' /\ dataset'[e].made = dataset'[g].made => e = g
  BY <1>2 DEF RowsAgree
<1>6. row.made \in DataIds
  BY RowFacts
<1> QED
  BY <1>1, <1>2, <1>4, <1>5, <1>6 DEF RowsAgree

\* A new dataset has a key and a number of its own.
LEMMA LoadsCreate ==
  ASSUME DatasetsTyped, LoadInv, NEW from \in {0} \cup NoteIds, CreateDataset(from)
  PROVE  LoadInv'
<1> SUFFICES ASSUME ~lost  PROVE (RowsAgree /\ LoadsAgree /\ folders = Files \cup SavedLoad)'
  BY DEF CreateDataset, LoadInv
<1> DEFINE d == NextData
           made == counts.loads + 1
           row == [made |-> made, status |-> "waiting", file |-> 0]
<1>1. /\ upload = noUpload /\ upload' = [id |-> d, made |-> made, from |-> from, step |-> "created"]
      /\ dataset' = [dataset EXCEPT ![d] = row] /\ UNCHANGED <<folders, loading>>
      /\ counts.loads < MaxLoads
  BY DEF CreateDataset, DatasetsTyped, DataTyped
<1>2. made \in DataIds /\ made > counts.loads /\ counts.loads \in Nat
  BY <1>1, DataBounds, RowFacts DEF DataIds
<1>3. d \in DataIds /\ ~InData(d)
  BY <1>2, NextDataBound, DataBounds DEF DatasetsTyped, DataIds
<1>4. row.made = made /\ row.status = "waiting" /\ row.file = 0
  OBVIOUS
<1> HIDE DEF d, made, row
<1>5. \A e \in DataIds : dataset'[e] = IF e = d THEN row ELSE dataset[e]
  BY <1>1 DEF DatasetsTyped, DataTyped
<1>6. RowsAgree /\ LoadsAgree /\ folders = Files \cup SavedLoad
  BY DEF LoadInv
<1>7. \A e \in DataIds : dataset[e].made # made
  BY <1>2, RowFacts
<1>8. outcome[made] = "none" /\ UNCHANGED outcome
  BY <1>1, <1>2 DEF DatasetsTyped, DataTyped, loading
<1>9. RowsAgree'
  <2>1. \A e, g \in DataIds : InData(e)' /\ dataset'[e].made = dataset'[g].made => e = g
    BY <1>4, <1>5, <1>6, <1>7 DEF RowsAgree, InData
  <2>2. ASSUME NEW e \in DataIds  PROVE RowAgrees(e)'
    <3>1. CASE e = d
      BY <1>4, <1>5, <1>8, <3>1 DEF RowAgrees, LoadEnded
    <3>2. CASE e # d
      BY <1>5, <1>6, <1>8, <3>2 DEF RowsAgree, RowAgrees, InData
    <3> QED
      BY <3>1, <3>2
  <2> QED
    BY <2>1, <2>2 DEF RowsAgree
<1>10. \A l : Waits(l) /\ l.id \in DataIds /\ l.made \in DataIds =>
                l.id # d /\ dataset'[l.id] = dataset[l.id]
  <2>1. dataset[d].made = 0
    BY <1>3, RowFacts
  <2> QED
    BY <1>5, <2>1 DEF Waits, DataIds
<1>11. LoadsAgree'
  <2>1. Unqueued' /\ upload'.id = d /\ upload'.made = made /\ Waits(upload)'
    BY <1>1, <1>3, <1>4, <1>5 DEF Unqueued, Waits
  <2>2. \A i \in DOMAIN loads : loads[i].made # made /\ Waits(loads[i])'
    <3>1. \A i \in DOMAIN loads : loads[i].id \in DataIds /\ loads[i].made \in DataIds
                                  /\ loads[i].made <= counts.loads
      BY LoadFacts
    <3> QED
      BY <1>1, <1>2, <1>6, <1>10, <3>1 DEF LoadsAgree, Waits, loading, DataIds
  <2>3. loader # noUpload => dataset'[loader.id] = dataset[loader.id]
    <3>1. loader # noUpload => InData(loader.id) /\ loader.id \in DataIds
      BY <1>6, LoadFacts, RowFacts DEF LoadsAgree, DataIds
    <3> QED
      BY <1>3, <1>5, <3>1
  <2> QED
    BY <1>1, <1>6, <2>1, <2>2, <2>3 DEF LoadsAgree, loading, Waits
<1>12. Files' = Files /\ SavedLoad' = SavedLoad
  <2>1. \A e \in DataIds : dataset'[e].file = dataset[e].file
    BY <1>3, <1>4, <1>5, RowFacts
  <2> QED
    BY <1>1, <2>1 DEF Files, SavedLoad, loading
<1> QED
  BY <1>1, <1>6, <1>9, <1>11, <1>12

\* What is listed is still to be enqueued, or was.
LEMMA LoadsListed ==
  ASSUME DatasetsTyped, LoadInv, DatasetListed
  PROVE  LoadInv'
<1> SUFFICES ASSUME ~lost  PROVE (RowsAgree /\ LoadsAgree /\ folders = Files \cup SavedLoad)'
  BY DEF DatasetListed, LoadInv
<1>1. RowsAgree /\ LoadsAgree /\ folders = Files \cup SavedLoad
  BY DEF LoadInv
<1>2. UNCHANGED <<dataset, folders, loads, loader, outcome>>
  BY DEF DatasetListed, dataServer, loading
<1>3. CASE upload' = noUpload
  BY <1>1, <1>2, <1>3 DEF LoadsAgree, RowsAgree, RowAgrees, InData, Files, SavedLoad, Waits, Unqueued,
                          noUpload
<1>4. CASE upload' # noUpload
  <2>1. upload.step = "created" /\ upload' = [upload EXCEPT !.step = "listed"]
    BY <1>4 DEF DatasetListed
  <2>2. upload \in Load
    BY <2>1 DEF DatasetsTyped, LoadsTyped, noUpload
  <2>3. upload'.id = upload.id /\ upload'.made = upload.made /\ Unqueued
    BY <2>1, <2>2 DEF Unqueued, Load
  <2>4. LoadsAgree'
    BY <1>1, <1>2, <2>3, LoadFacts DEF LoadsAgree, Waits
  <2> QED
    BY <1>1, <1>2, <2>4 DEF RowsAgree, RowAgrees, InData, Files, SavedLoad
<1> QED
  BY <1>3, <1>4

\* What is enqueued waits, and is not among those that wait already.
LEMMA LoadsEnqueue ==
  ASSUME DatasetsTyped, LoadInv, EnqueueLoad
  PROVE  LoadInv'
<1> SUFFICES ASSUME ~lost  PROVE (RowsAgree /\ LoadsAgree /\ folders = Files \cup SavedLoad)'
  BY DEF EnqueueLoad, LoadInv
<1>1. RowsAgree /\ LoadsAgree /\ folders = Files \cup SavedLoad
  BY DEF LoadInv
<1>2. UNCHANGED <<dataset, folders, loader, outcome>>
  BY DEF EnqueueLoad, dataServer
<1>3. Unqueued /\ upload # noUpload
  BY DEF EnqueueLoad, Unqueued, noUpload
<1>4. Waits(upload) /\ upload.id \in DataIds /\ upload.made \in DataIds /\ upload \in Load
  BY <1>1, <1>3, LoadFacts DEF LoadsAgree, DatasetsTyped, LoadsTyped
<1>5. InData(upload.id)
  BY <1>4, RowFacts DEF Waits, DataIds
<1>6. /\ loads' = Append(loads, upload)
      /\ upload' = noUpload \/ upload' = [upload EXCEPT !.step = "enqueued"]
  BY <1>5 DEF EnqueueLoad, InData
<1>7. /\ ~Unqueued' /\ (upload' # noUpload => upload'.id = upload.id /\ upload'.made = upload.made)
  BY <1>4, <1>6 DEF Unqueued, noUpload, Load
<1>8. /\ DOMAIN loads' = 1..(Len(loads) + 1) /\ DOMAIN loads = 1..Len(loads) /\ Len(loads) \in Nat
      /\ \A i \in DOMAIN loads : loads'[i] = loads[i]
      /\ loads'[Len(loads) + 1] = upload
  <2>1. loads \in Seq(Load)
    BY DEF DatasetsTyped, LoadsTyped
  <2> QED
    BY <1>4, <1>6, <2>1, AtTheEnd
<1>9. \A i \in DOMAIN loads' : i \in DOMAIN loads \/ i = Len(loads) + 1
  BY <1>8
<1>10. \A i \in DOMAIN loads' : Waits(loads[i])' /\ Waits(loads'[i])
  <2>1. \A i \in DOMAIN loads' : Waits(loads'[i])
    BY <1>1, <1>4, <1>8, <1>9 DEF LoadsAgree
  <2> QED
    BY <1>2, <2>1 DEF Waits
<1>11. \A i, j \in DOMAIN loads' : i # j => loads'[i].made # loads'[j].made
  BY <1>1, <1>3, <1>8, <1>9 DEF LoadsAgree
<1>12. LoadsAgree'
  BY <1>1, <1>2, <1>4, <1>7, <1>10, <1>11 DEF LoadsAgree, Waits
<1> QED
  BY <1>1, <1>2, <1>12 DEF RowsAgree, RowAgrees, InData, Files, SavedLoad

\* The load that is taken starts, and those behind it are others.
LEMMA LoadsTake ==
  ASSUME DatasetsTyped, LoadInv, TakeLoad
  PROVE  LoadInv'
<1> SUFFICES ASSUME ~lost  PROVE (RowsAgree /\ LoadsAgree /\ folders = Files \cup SavedLoad)'
  BY DEF TakeLoad, LoadInv
<1> PICK l : l = Head(loads)
  OBVIOUS
<1> PICK row : row = [dataset[l.id] EXCEPT !.status = "started"]
  OBVIOUS
<1>1. RowsAgree /\ LoadsAgree /\ folders = Files \cup SavedLoad
  BY DEF LoadInv
<1>2. /\ loads # <<>> /\ DOMAIN loads = 1..Len(loads) /\ Len(loads) \in Nat /\ Len(loads) >= 1
      /\ l = loads[1] /\ DOMAIN Tail(loads) = 1..(Len(loads) - 1)
      /\ \A i \in DOMAIN Tail(loads) : i + 1 \in DOMAIN loads /\ Tail(loads)[i] = loads[i + 1]
  <2>1. loads # <<>> /\ loads \in Seq(Load)
    BY DEF TakeLoad, DatasetsTyped, LoadsTyped
  <2> QED
    BY <2>1, TheRest
<1>3. 1 \in DOMAIN loads /\ Waits(l) /\ l.id \in DataIds /\ l.made \in DataIds /\ l \in Load
  <2>1. 1 \in DOMAIN loads
    BY <1>2
  <2>2. loads[1] \in Load
    BY <2>1, ElementsOfSeq DEF DatasetsTyped, LoadsTyped
  <2> QED
    BY <1>1, <1>2, <2>1, <2>2, LoadFacts DEF LoadsAgree
<1>4. InData(l.id)
  BY <1>3, RowFacts DEF Waits, DataIds
<1>5. /\ loads' = Tail(loads) /\ loader = noUpload /\ loader' = [l EXCEPT !.step = "started"]
      /\ dataset' = [dataset EXCEPT ![l.id].status = "started"]
      /\ UNCHANGED <<outcome, folders, upload>>
  BY <1>4 DEF TakeLoad, InData
<1>6. dataset' = [dataset EXCEPT ![l.id] = row]
  BY <1>5
<1>7. /\ row \in DataRow /\ row.made = l.made /\ row.made = dataset[l.id].made
      /\ row.status = "started" /\ row.file = 0 /\ dataset[l.id].file = 0
  <2>1. dataset[l.id] \in DataRow
    BY <1>3, RowFacts
  <2>2. dataset[l.id].file = 0 /\ dataset[l.id].made = l.made
    BY <1>1, <1>3 DEF RowsAgree, RowAgrees, Waits
  <2> QED
    BY <2>1, <2>2 DEF DataRow
<1>8. /\ loader'.id = l.id /\ loader'.made = l.made /\ loader'.step = "started"
  BY <1>3, <1>5 DEF Load
<1>9. dataset'[l.id] = row
  BY <1>3, <1>6 DEF DatasetsTyped, DataTyped
<1>10. RowAgrees(l.id)' /\ outcome[l.made] = "none"
  <2>1. outcome[l.made] = "none"
    BY <1>1, <1>3, <1>4 DEF RowsAgree, RowAgrees, Waits, LoadEnded
  <2> QED
    BY <1>5, <1>7, <1>9, <2>1 DEF RowAgrees, LoadEnded
<1>11. /\ RowsAgree' /\ \A e \in DataIds : dataset'[e] = IF e = l.id THEN row ELSE dataset[e]
       /\ \A e \in DataIds : dataset'[e].made = dataset[e].made
  <2>1. \A m \in DataIds : outcome'[m] = outcome[m] \/ m = row.made
    BY <1>5
  <2>2. row \in DataRow /\ row.made = dataset[l.id].made
    BY <1>7
  <2> QED
    BY <1>1, <1>3, <1>4, <1>6, <1>10, <2>1, <2>2, RowsAgreeStep
<1>12. \A k : Waits(k) /\ k.id \in DataIds /\ k.made # l.made =>
                dataset'[k.id] = dataset[k.id]
  BY <1>7, <1>11 DEF Waits
<1>13. LoadsAgree'
  <2>1. \A i \in DOMAIN loads' : i + 1 \in DOMAIN loads /\ i + 1 # 1 /\ loads'[i] = loads[i + 1]
                                 /\ i \in Nat
    BY <1>2, <1>5
  <2>2. \A i \in DOMAIN loads : i # 1 => loads[i].made # l.made /\ loads[i].id \in DataIds
                                         /\ Waits(loads[i])
    BY <1>1, <1>2, <1>3, LoadFacts DEF LoadsAgree
  <2>3. \A i \in DOMAIN loads' : dataset'[loads'[i].id].made = loads'[i].made
                                 /\ dataset'[loads'[i].id].status = "waiting"
    BY <1>12, <2>1, <2>2 DEF Waits
  <2>4. \A i, j \in DOMAIN loads' : i # j => loads'[i].made # loads'[j].made
    <3>1. \A i, j \in DOMAIN loads' : i # j => i + 1 # j + 1
      BY <2>1
    <3> QED
      BY <1>1, <2>1, <3>1 DEF LoadsAgree
  <2>5. upload # noUpload => dataset'[upload.id].made = upload.made
    BY <1>1, <1>11, LoadFacts DEF LoadsAgree
  <2>6. Unqueued => /\ dataset'[upload.id] = dataset[upload.id]
                    /\ \A i \in DOMAIN loads' : loads'[i].made # upload.made
    BY <1>1, <1>2, <1>3, <1>12, <2>1, LoadFacts DEF LoadsAgree
  <2>7. /\ dataset'[loader'.id].made = loader'.made /\ dataset'[loader'.id].status = "started"
        /\ outcome'[loader'.made] = "none"
    BY <1>5, <1>7, <1>8, <1>9, <1>10
  <2>8. Unqueued' => Waits(upload)' /\ \A i \in DOMAIN loads' : loads'[i].made # upload'.made
    BY <1>1, <1>5, <2>6 DEF LoadsAgree, Waits, Unqueued
  <2>9. \A i \in DOMAIN loads' : Waits(loads[i])'
    BY <2>3 DEF Waits
  <2> QED
    BY <1>5, <2>4, <2>5, <2>7, <2>8, <2>9 DEF LoadsAgree
<1>14. Files' = Files /\ SavedLoad' = {} /\ SavedLoad = {}
  <2>1. \A e \in DataIds : dataset'[e].file = dataset[e].file
    BY <1>7, <1>11
  <2> QED
    BY <1>5, <1>8, <2>1 DEF Files, SavedLoad, noUpload
<1> QED
  BY <1>1, <1>5, <1>11, <1>13, <1>14

\* What was read is saved in a folder of its own.
LEMMA LoadsSave ==
  ASSUME DatasetsTyped, LoadInv, SaveLoad
  PROVE  LoadInv'
<1> SUFFICES ASSUME ~lost  PROVE (RowsAgree /\ LoadsAgree /\ folders = Files \cup SavedLoad)'
  BY DEF SaveLoad, LoadInv
<1>1. RowsAgree /\ LoadsAgree /\ folders = Files \cup SavedLoad
  BY DEF LoadInv
<1>2. /\ loader.step = "started" /\ loader' = [loader EXCEPT !.step = "saved"]
      /\ folders' = folders \cup {loader.made} /\ UNCHANGED <<dataset, loads, outcome, upload>>
  BY DEF SaveLoad
<1>3. loader # noUpload /\ loader \in Load
  BY <1>2 DEF noUpload, DatasetsTyped, LoadsTyped
<1>4. loader'.id = loader.id /\ loader'.made = loader.made /\ loader'.step = "saved"
  BY <1>2, <1>3 DEF Load
<1>5. LoadsAgree'
  BY <1>1, <1>2, <1>3, <1>4 DEF LoadsAgree, Waits, Unqueued
<1>6. Files' = Files /\ SavedLoad = {} /\ SavedLoad' = {loader.made}
  BY <1>2, <1>4 DEF Files, SavedLoad
<1> QED
  BY <1>1, <1>2, <1>5, <1>6 DEF RowsAgree, RowAgrees, InData

\* The end of a load is the status of its row, and its folder the row's.
LEMMA LoadsEnd ==
  ASSUME DatasetsTyped, LoadInv, LoadRaises \/ StoreLoad
  PROVE  LoadInv'
<1> SUFFICES ASSUME ~lost  PROVE (RowsAgree /\ LoadsAgree /\ folders = Files \cup SavedLoad)'
  BY DEF LoadRaises, StoreLoad, LoadInv
<1>1. RowsAgree /\ LoadsAgree /\ folders = Files \cup SavedLoad
  BY DEF LoadInv
<1> PICK l : l = loader
  OBVIOUS
<1>2. /\ loader # noUpload /\ loader' = noUpload
      /\ UNCHANGED <<loads, upload>>
  BY DEF LoadRaises, StoreLoad, noUpload
<1>3. /\ l \in Load /\ l.id \in DataIds /\ l.made \in DataIds /\ dataset[l.id].made = l.made
      /\ dataset[l.id].status = "started" /\ InData(l.id) /\ dataset[l.id] \in DataRow
      /\ dataset[l.id].file = 0 /\ l.made <= counts.loads
  BY <1>1, <1>2, LoadFacts, RowFacts
    DEF LoadsAgree, RowsAgree, RowAgrees, DatasetsTyped, LoadsTyped, DataIds
<1>4. PICK how \in LoadEnded, row \in DataRow :
        /\ dataset' = [dataset EXCEPT ![l.id] = row] /\ row.made = l.made /\ Told(l, how)
        /\ \/ /\ how = "failed" /\ row.status \in {"failed", "started"} /\ row.file = 0
              /\ folders' = folders \ {l.made}
           \/ /\ how = "finished" /\ row.status = "finished" /\ row.file = l.made
              /\ l.step = "saved" /\ UNCHANGED folders
  <2>1. CASE LoadRaises
    <3>1. PICK status \in {"failed", "started"} :
             dataset' = [dataset EXCEPT ![l.id].status = status]
      BY <1>3, <2>1 DEF LoadRaises, InData
    <3> DEFINE row == [dataset[l.id] EXCEPT !.status = status]
    <3>2. row \in DataRow /\ row.made = l.made /\ row.status = status /\ row.file = 0
      BY <1>3, <3>1 DEF DataRow, LoadEnded
    <3>3. dataset' = [dataset EXCEPT ![l.id] = row]
      BY <3>1
    <3>4. Told(l, "failed") /\ folders' = folders \ {l.made}
      BY <2>1 DEF LoadRaises, Told
    <3> QED
      BY <3>2, <3>3, <3>4 DEF LoadEnded
  <2>2. CASE StoreLoad
    <3> DEFINE row == [dataset[l.id] EXCEPT !.status = "finished", !.file = l.made]
    <3>1. l.made \in 0..MaxLoads
      BY <1>3, DataBounds DEF DataIds
    <3>2. row \in DataRow /\ row.made = l.made /\ row.status = "finished" /\ row.file = l.made
      BY <1>3, <3>1 DEF DataRow, LoadEnded
    <3>3. /\ dataset' = [dataset EXCEPT ![l.id].status = "finished", ![l.id].file = l.made]
          /\ Told(l, "finished") /\ l.step = "saved" /\ UNCHANGED folders
      BY <1>3, <2>2 DEF StoreLoad, InData, Told
    <3>4. dataset' = [dataset EXCEPT ![l.id] = row]
      <4>1. dataset \in [DataIds -> DataRow]
        BY DEF DatasetsTyped, DataTyped
      <4> QED
        BY <1>3, <3>3, <4>1
    <3> QED
      BY <3>2, <3>3, <3>4 DEF LoadEnded
  <2> QED
    BY <2>1, <2>2
<1>5. /\ outcome'[l.made] = how
      /\ \A m \in DataIds : m # l.made => outcome'[m] = outcome[m]
  BY <1>3, <1>4, ToldTyped
<1>6. dataset'[l.id] = row
  BY <1>3, <1>4 DEF DatasetsTyped, DataTyped
<1>7. RowAgrees(l.id)'
  BY <1>3, <1>4, <1>5, <1>6 DEF RowAgrees, LoadEnded
<1>8. /\ RowsAgree' /\ \A e \in DataIds : dataset'[e] = IF e = l.id THEN row ELSE dataset[e]
      /\ \A e \in DataIds : dataset'[e].made = dataset[e].made
  <2>1. \A m \in DataIds : outcome'[m] = outcome[m] \/ m = row.made
    BY <1>4, <1>5
  <2>2. row.made = dataset[l.id].made
    BY <1>3, <1>4
  <2> QED
    BY <1>1, <1>3, <1>4, <1>7, <2>1, <2>2, RowsAgreeStep
<1>9. \A k : Waits(k) /\ k.id \in DataIds => dataset'[k.id] = dataset[k.id]
  BY <1>3, <1>8 DEF Waits
<1>10. LoadsAgree'
  <2>1. \A i \in DOMAIN loads : dataset'[loads[i].id] = dataset[loads[i].id]
    BY <1>1, <1>9, LoadFacts DEF LoadsAgree
  <2>2. upload # noUpload => dataset'[upload.id].made = upload.made
    BY <1>1, <1>8, LoadFacts DEF LoadsAgree
  <2>3. Unqueued => dataset'[upload.id] = dataset[upload.id]
    BY <1>1, <1>9, LoadFacts DEF LoadsAgree
  <2> QED
    BY <1>1, <1>2, <2>1, <2>2, <2>3 DEF LoadsAgree, Waits, Unqueued
<1>11. folders' = Files' \cup SavedLoad'
  <2>1. SavedLoad' = {} /\ 0 \notin DataIds
    BY <1>2 DEF SavedLoad, noUpload, DataIds
  <2>2. CASE how = "failed"
    <3>1. \A e \in DataIds : dataset'[e].file = dataset[e].file
      BY <1>3, <1>4, <1>8, <2>2
    <3>2. Files' = Files /\ SavedLoad \subseteq {l.made}
      BY <3>1 DEF Files, SavedLoad
    <3>3. l.made \notin Files
      <4>1. \A e \in DataIds : dataset[e].file # 0 => InData(e) /\ dataset[e].file = dataset[e].made
        BY <1>1, RowFacts DEF RowsAgree, RowAgrees
      <4>2. \A e \in DataIds : InData(e) /\ dataset[e].made = l.made => dataset[e].file = 0
        BY <1>1, <1>3 DEF RowsAgree
      <4> QED
        BY <4>1, <4>2 DEF Files
    <3>4. folders' = folders \ {l.made}
      BY <1>4, <2>2
    <3> QED
      BY <1>1, <2>1, <3>2, <3>3, <3>4
  <2>3. CASE how = "finished"
    <3>1. /\ \A e \in DataIds : dataset'[e].file = IF e = l.id THEN l.made ELSE dataset[e].file
          /\ l.made # 0
      BY <1>3, <1>4, <1>8, <2>1, <2>3
    <3>2. Files' = Files \cup {l.made}
      BY <1>3, <3>1 DEF Files
    <3> QED
      BY <1>1, <1>2, <1>4, <2>1, <2>3, <3>2 DEF SavedLoad
  <2> QED
    BY <2>2, <2>3 DEF LoadEnded
<1> QED
  BY <1>8, <1>10, <1>11

\* A row that goes takes its folder along, and no other's.
LEMMA LoadsDropped ==
  ASSUME DatasetsTyped, LoadInv, NEW x \in dropping, Dropped(x)
  PROVE  LoadInv'
<1>1. CASE x.kind # "dataset"
  BY <1>1, LoadInvKept DEF Dropped
<1>2. CASE x.kind = "dataset"
  <2> SUFFICES ASSUME ~lost'  PROVE (RowsAgree /\ LoadsAgree /\ folders = Files \cup SavedLoad)'
    BY DEF LoadInv
  <2> PICK d : d = x.id
    OBVIOUS
  <2>1. d \in DataIds
    BY <1>2 DEF DatasetsTyped, ListsTyped, DataItem, NoteItem
  <2>2. /\ dataset' = [dataset EXCEPT ![d] = noData] /\ folders' = folders \ {dataset[d].file}
        /\ ~lost /\ upload.id # d /\ loader.id # d /\ \A i \in DOMAIN loads : loads[i].id # d
        /\ UNCHANGED <<loads, loader, outcome, upload>>
    BY <1>2 DEF Dropped, loading
  <2>3. RowsAgree /\ LoadsAgree /\ folders = Files \cup SavedLoad
    BY <2>2 DEF LoadInv
  <2>4. \A e \in DataIds : dataset'[e] = IF e = d THEN noData ELSE dataset[e]
    BY <2>2 DEF DatasetsTyped, DataTyped
  <2>5. RowsAgree'
    <3>1. \A e, g \in DataIds : InData(e)' /\ dataset'[e].made = dataset'[g].made => e = g
      <4>1. noData.made = 0 /\ \A e \in DataIds : InData(e) => dataset[e].made # 0
        BY RowFacts DEF noData
      <4> QED
        BY <2>3, <2>4, <4>1 DEF RowsAgree, InData
    <3>2. \A e \in DataIds : RowAgrees(e)'
      BY <2>2, <2>3, <2>4 DEF RowsAgree, RowAgrees, InData, noData
    <3> QED
      BY <3>1, <3>2 DEF RowsAgree
  <2>6. LoadsAgree'
    BY <2>2, <2>3, <2>4, LoadFacts DEF LoadsAgree, Waits, Unqueued
  <2>7. \A e \in DataIds : e # d /\ dataset[e].file # 0 => dataset[e].file # dataset[d].file
    <3>1. \A e \in DataIds : dataset[e].file # 0 => dataset[e].file = dataset[e].made /\ InData(e)
      BY <2>3, RowFacts DEF RowsAgree, RowAgrees
    <3> QED
      BY <2>1, <2>3, <3>1 DEF RowsAgree
  <2>8. SavedLoad' = SavedLoad /\ (dataset[d].file # 0 => dataset[d].file \notin SavedLoad)
    <3>1. loader # noUpload => /\ loader.id \in DataIds /\ dataset[loader.id].made = loader.made
                               /\ loader.id # d /\ InData(loader.id)
      BY <2>2, <2>3, LoadFacts, RowFacts DEF LoadsAgree, DataIds
    <3>2. dataset[d].file # 0 => dataset[d].file = dataset[d].made
      BY <2>1, <2>3 DEF RowsAgree, RowAgrees
    <3>3. loader # noUpload /\ dataset[d].file # 0 => loader.made # dataset[d].file
      BY <2>1, <2>3, <3>1, <3>2 DEF RowsAgree
    <3> QED
      BY <2>2, <3>3 DEF SavedLoad, noUpload
  <2>9. Files' = Files \ {dataset[d].file}
    <3>1. \A e \in DataIds : dataset'[e].file = IF e = d THEN 0 ELSE dataset[e].file
      BY <2>4 DEF noData
    <3> QED
      BY <2>1, <2>7, <3>1 DEF Files
  <2>10. 0 \notin folders
    BY DEF DatasetsTyped, DataTyped
  <2> QED
    BY <2>2, <2>3, <2>5, <2>6, <2>8, <2>9, <2>10
<1> QED
  BY <1>1, <1>2

\* Rows, loads and folders stay in agreement.
LEMMA LoadStep == DatasetsTyped /\ LoadInv /\ [DatasetsPageNext]_datasetsPageVars => LoadInv'
<1> SUFFICES ASSUME DatasetsTyped, LoadInv, [DatasetsPageNext]_datasetsPageVars  PROVE LoadInv'
  OBVIOUS
<1>1. CASE UNCHANGED datasetsPageVars
  BY <1>1, LoadInvKept DEF datasetsPageVars, dataServer
<1>2. CASE \E from \in {0} \cup NoteIds : CreateDataset(from)
  BY <1>2, LoadsCreate
<1>3. CASE DatasetListed \/ EnqueueLoad
  BY <1>3, LoadsListed, LoadsEnqueue
<1>4. CASE TakeLoad \/ SaveLoad \/ LoadRaises \/ StoreLoad
  BY <1>4, LoadsTake, LoadsSave, LoadsEnd
<1>5. CASE \E w \in watching : LoadSucceeded(w) \/ LoadFailed(w)
  BY <1>5, LoadInvKept DEF LoadSucceeded, LoadFailed, dataServer
<1>6. CASE DataListArrives \/ NoteListArrives
  BY <1>6, LoadInvKept DEF DataListArrives, NoteListArrives, dataServer
<1>7. CASE (\E d \in DataIds : CopyBegins(d)) \/ CopyEnds
  BY <1>7, LoadInvKept DEF CopyBegins, CopyEnds
<1>8. CASE \/ \E d \in {0} \cup DataIds : ChooseDataset(d)
           \/ \E d \in DataIds : DeleteDataset(d)
           \/ \E n \in NoteIds : DeleteNotebookOf(n) \/ ChooseNotebook(n)
  <2>1. UNCHANGED <<dataset, folders, loading, upload>> /\ (lost => lost')
    <3>1. CASE \E d \in {0} \cup DataIds : ChooseDataset(d)
      BY <3>1 DEF ChooseDataset, dataServer
    <3>2. CASE \E d \in DataIds : DeleteDataset(d)
      BY <3>2 DEF DeleteDataset, dataServer
    <3>3. CASE \E n \in NoteIds : DeleteNotebookOf(n) \/ ChooseNotebook(n)
      BY <3>3 DEF DeleteNotebookOf, ChooseNotebook, dataServer
    <3> QED
      BY <1>8, <3>1, <3>2, <3>3
  <2> QED
    BY <2>1, LoadInvKept
<1>9. CASE \E x \in dropping : Dropped(x)
  BY <1>9, LoadsDropped
<1>10. CASE ReturnToPage
  BY <1>10, LoadInvKept DEF ReturnToPage, dataServer
<1> QED
  BY <1>1, <1>2, <1>3, <1>4, <1>5, <1>6, <1>7, <1>8, <1>9, <1>10 DEF DatasetsPageNext

\* The disk holds the folders of the datasets that are there and no others,
\* unless one went while it was being loaded: what was saved and what rows
\* tell are one at all times but between a load's saving and its end.
THEOREM FoldersAreDatasetsHolds == DatasetsPageSpec => []FoldersAreDatasets
<1>1. LoadInv => FoldersAreDatasets
  BY DEF LoadInv, FoldersAreDatasets, PageAtRest, Files, SavedLoad, noUpload
<1> QED
  BY <1>1, PageTypedInit, PageTypedStep, LoadInit, LoadStep, PTL DEF DatasetsPageSpec

-----------------------------------------------------------------------------
(* The page agrees with the tables as long as no answer reached it late: a  *)
(* list on its way is no smaller than the one that is shown, and what is    *)
(* missing from a list is on its way out, or in.                            *)

GoesAway(d) == [kind |-> "dataset", id |-> d] \in dropping
NoteGoes(n) == [kind |-> "notebook", id |-> n] \in dropping \/ GoesAway(notebook[n])
Unlisted(d) == upload.id = d /\ upload.step \in {"created", "enqueued"}
Watched(d) == \E w \in watching : w.id = d
LoadOver(d) == InData(d) /\ outcome[dataset[d].made] # "none"

\* Only what was loaded is copied.
CopiesAgree ==
  /\ \A n \in NoteIds : notebook[n] # 0 => dataset[notebook[n]].status = "finished"
  /\ copying # 0 => dataset[copying].status = "finished"

\* A dataset that is not loaded is being created, watched or deleted, and no two of these.
WatchAgree ==
  /\ \A w \in watching : dataset[w.id].made = w.made /\ w.id \in shownData /\ w.id # upload.id
  /\ \A d \in DataIds : InData(d) /\ dataset[d].status # "finished" =>
       upload.id = d \/ Watched(d) \/ GoesAway(d)
  /\ \A d \in DataIds : GoesAway(d) => LoadOver(d) /\ upload.id # d /\ ~Watched(d)
  /\ upload.step = "listed" => upload.id \in shownData

DataListAgrees(i) ==
  LET rows == dataLists[i].rows
  IN  /\ shownData \subseteq rows
      /\ \A d \in DataIds : /\ d \in rows => InData(d)
                            /\ InData(d) => d \in rows \/ Unlisted(d)
                            /\ ~GoesAway(d)
      /\ \A j \in DOMAIN dataLists : i < j => rows \subseteq dataLists[j].rows

DataAgree ==
  /\ \A d \in shownData : InData(d) /\ ~GoesAway(d)
  /\ dataLists = <<>> => \A d \in DataIds : InData(d) => d \in shownData \/ GoesAway(d) \/ Unlisted(d)
  /\ \A i \in DOMAIN dataLists : ~dataLists[i].late => DataListAgrees(i)

NoteListAgrees(i) ==
  LET rows == noteLists[i].rows
  IN  /\ shownNotes \subseteq rows
      /\ \A n \in rows : notebook[n] # 0
      /\ i = Len(noteLists) => \A n \in NoteIds : notebook[n] # 0 => n \in rows
      /\ \A x \in dropping : x.kind = "dataset" /\ dataset[x.id].status # "finished"
      /\ \A j \in DOMAIN noteLists : i < j => rows \subseteq noteLists[j].rows

NoteAgree ==
  /\ \A n \in shownNotes : notebook[n] # 0 /\ ~NoteGoes(n)
  /\ noteLists = <<>> => \A n \in NoteIds : notebook[n] # 0 => n \in shownNotes \/ NoteGoes(n)
  /\ \A i \in DOMAIN noteLists : ~noteLists[i].late => NoteListAgrees(i)

\* What is selected, now or when a list arrives, is in the list.
ChosenAgrees ==
  /\ chosenData \in {0} \cup shownData /\ chosenNote \in {0} \cup shownNotes
  /\ \A i \in DOMAIN dataLists : dataLists[i].then # 0 => dataLists[i].then \in dataLists[i].rows
  /\ \A i \in DOMAIN noteLists : noteLists[i].then # 0 => noteLists[i].then \in noteLists[i].rows

Agrees == CopiesAgree /\ WatchAgree /\ DataAgree /\ NoteAgree /\ ChosenAgrees
DatasetsInv == ~lost /\ ~mixed => Agrees

\* What is in the page's lists are lists and keys.
LEMMA PageFacts ==
  ASSUME DatasetsTyped
  PROVE  /\ \A w \in watching : w \in [id : DataIds, made : DataIds] /\ w.id \in DataIds
         /\ \A x \in dropping :
              \/ x.kind = "dataset" /\ x.id \in DataIds /\ x = [kind |-> "dataset", id |-> x.id]
              \/ x.kind = "notebook" /\ x.id \in NoteIds /\ x = [kind |-> "notebook", id |-> x.id]
         /\ \A i \in DOMAIN dataLists : dataLists[i] \in DataList /\ dataLists[i].rows \subseteq DataIds
         /\ \A i \in DOMAIN noteLists : noteLists[i] \in NoteList /\ noteLists[i].rows \subseteq NoteIds
         /\ DOMAIN dataLists = 1..Len(dataLists) /\ Len(dataLists) \in Nat
         /\ DOMAIN noteLists = 1..Len(noteLists) /\ Len(noteLists) \in Nat
         /\ shownData \subseteq DataIds /\ shownNotes \subseteq NoteIds
         /\ 0 \notin DataIds
<1>1. \A w \in watching : w \in [id : DataIds, made : DataIds] /\ w.id \in DataIds
  BY DEF DatasetsTyped, ListsTyped
<1>2. \A x \in dropping :
        \/ x.kind = "dataset" /\ x.id \in DataIds /\ x = [kind |-> "dataset", id |-> x.id]
        \/ x.kind = "notebook" /\ x.id \in NoteIds /\ x = [kind |-> "notebook", id |-> x.id]
  BY DEF DatasetsTyped, ListsTyped, DataItem, NoteItem
<1>3. \A i \in DOMAIN dataLists : dataLists[i] \in DataList
  BY ElementsOfSeq DEF DatasetsTyped, ListsTyped
<1>4. \A i \in DOMAIN noteLists : noteLists[i] \in NoteList
  BY ElementsOfSeq DEF DatasetsTyped, ListsTyped
<1>5. \A l \in DataList : l.rows \subseteq DataIds
  BY DEF DataList
<1>6. \A l \in NoteList : l.rows \subseteq NoteIds
  BY DEF NoteList
<1>7. /\ DOMAIN dataLists = 1..Len(dataLists) /\ Len(dataLists) \in Nat
      /\ DOMAIN noteLists = 1..Len(noteLists) /\ Len(noteLists) \in Nat
  BY DEF DatasetsTyped, ListsTyped
<1>8. shownData \subseteq DataIds /\ shownNotes \subseteq NoteIds
  BY DEF DatasetsTyped, ListsTyped
<1>9. 0 \notin DataIds
  BY DEF DataIds
<1> QED
  BY <1>1, <1>2, <1>3, <1>4, <1>5, <1>6, <1>7, <1>8, <1>9

\* To be marked late changes nothing else of a list.
LEMMA LateFacts ==
  ASSUME DatasetsTyped
  PROVE  /\ DOMAIN Late(dataLists) = DOMAIN dataLists
         /\ dataLists = <<>> <=> Late(dataLists) = <<>>
         /\ \A i \in DOMAIN dataLists : /\ Late(dataLists)[i].late
                                        /\ Late(dataLists)[i].rows = dataLists[i].rows
                                        /\ Late(dataLists)[i].then = dataLists[i].then
         /\ DOMAIN Late(noteLists) = DOMAIN noteLists
         /\ noteLists = <<>> <=> Late(noteLists) = <<>>
         /\ \A i \in DOMAIN noteLists : /\ Late(noteLists)[i].late
                                        /\ Late(noteLists)[i].rows = noteLists[i].rows
                                        /\ Late(noteLists)[i].then = noteLists[i].then
<1>1. ASSUME NEW lists, lists \in Seq(DataList) \/ lists \in Seq(NoteList)
      PROVE  /\ DOMAIN Late(lists) = DOMAIN lists /\ (lists = <<>> <=> Late(lists) = <<>>)
             /\ \A i \in DOMAIN lists : /\ Late(lists)[i].late
                                        /\ Late(lists)[i].rows = lists[i].rows
                                        /\ Late(lists)[i].then = lists[i].then
  <2>1. \A i \in DOMAIN lists : lists[i] \in DataList \/ lists[i] \in NoteList
    BY <1>1, ElementsOfSeq
  <2>2. \A i \in DOMAIN lists : Late(lists)[i] = [lists[i] EXCEPT !.late = TRUE]
    BY DEF Late
  <2>3. ASSUME NEW i \in DOMAIN lists
        PROVE  /\ Late(lists)[i].late /\ Late(lists)[i].rows = lists[i].rows
               /\ Late(lists)[i].then = lists[i].then
    <3>1. CASE lists[i] \in DataList
      BY <2>2, <3>1 DEF DataList
    <3>2. CASE lists[i] \in NoteList
      BY <2>2, <3>2 DEF NoteList
    <3> QED
      BY <2>1, <3>1, <3>2
  <2>4. DOMAIN Late(lists) = DOMAIN lists
    BY DEF Late
  <2>5. lists = <<>> => Late(lists) = <<>>
    BY DEF Late
  <2>6. Late(lists) = <<>> => lists = <<>>
    BY <1>1, <2>4
  <2> QED
    BY <2>3, <2>4, <2>5, <2>6
<1> QED
  BY <1>1 DEF DatasetsTyped, ListsTyped

\* In the initial state everything is empty.
LEMMA DatasetsInitHolds == DatasetsPageInit => DatasetsInv
<1> SUFFICES ASSUME DatasetsPageInit  PROVE Agrees
  BY DEF DatasetsInv
<1>1. \A d \in DataIds : ~InData(d)
  BY DEF DatasetsPageInit, InData
<1> QED
  BY <1>1 DEF DatasetsPageInit, Agrees, CopiesAgree, WatchAgree, DataAgree, NoteAgree, ChosenAgrees,
              GoesAway, NoteGoes, noUpload

\* A row whose load ended in its status is one whose load is over.
LEMMA EndedIsOver ==
  ASSUME DatasetsTyped, LoadInv, ~lost
  PROVE  \A d \in DataIds : dataset[d].status \in LoadEnded => LoadOver(d)
<1> SUFFICES ASSUME NEW d \in DataIds, dataset[d].status \in LoadEnded  PROVE LoadOver(d)
  OBVIOUS
<1>1. RowAgrees(d)
  BY DEF LoadInv, RowsAgree
<1>2. InData(d)
  BY RowFacts DEF LoadEnded
<1> QED
  BY <1>1, <1>2 DEF RowAgrees, LoadOver, LoadEnded

\* Only a row's status changes, of a dataset whose load is not over.
LEMMA PageStatus ==
  ASSUME DatasetsTyped, LoadInv, DatasetsInv, NEW d \in DataIds,
         ~LoadOver(d) \/ dataset' = dataset,
         InData(d) => InData(d)' /\ dataset'[d].made = dataset[d].made,
         InData(d)' => InData(d),
         \A e \in DataIds : e # d => dataset'[e] = dataset[e],
         \A e \in DataIds : LoadOver(e) => LoadOver(e)',
         UNCHANGED <<notebook, copying, shownLists, chosen, upload, watching, dropping, lost, mixed>>
  PROVE  DatasetsInv'
<1> SUFFICES ASSUME ~lost, ~mixed  PROVE Agrees'
  BY DEF DatasetsInv
<1>1. Agrees
  BY DEF DatasetsInv
<1>2. CASE dataset' = dataset
  <2>1. WatchAgree'
    BY <1>1, <1>2 DEF Agrees, WatchAgree, GoesAway, Watched, InData, shownLists
  <2> QED
    BY <1>1, <1>2, <2>1 DEF Agrees, CopiesAgree, DataAgree, DataListAgrees, NoteAgree,
         NoteListAgrees, ChosenAgrees, GoesAway, NoteGoes, Unlisted, InData, shownLists, chosen
<1>3. CASE ~LoadOver(d)
  <2>1. \A e \in DataIds : InData(e)' <=> InData(e)
    BY DEF InData
  <2>2. \A e \in DataIds : LoadOver(e) => e # d /\ dataset'[e] = dataset[e]
    BY <1>3
  <2>3. \A e \in DataIds : dataset[e].status = "finished" => e # d /\ dataset'[e] = dataset[e]
    BY <2>2, EndedIsOver DEF LoadEnded
  <2>4. CopiesAgree'
    <3>1. notebook \in [NoteIds -> 0..MaxLoads] /\ copying \in 0..MaxLoads /\ MaxLoads \in Nat
      BY DataBounds DEF DatasetsTyped, NotesTyped
    <3>2. \A n \in NoteIds : notebook[n] # 0 => notebook[n] \in DataIds
      BY <3>1 DEF DataIds
    <3>3. copying # 0 => copying \in DataIds
      BY <3>1 DEF DataIds
    <3> QED
      BY <1>1, <2>3, <3>2, <3>3 DEF Agrees, CopiesAgree
  <2>5. WatchAgree'
    <3>1. \A w \in watching : dataset'[w.id].made = dataset[w.id].made
      <4>1. \A w \in watching : InData(w.id)
        BY <1>1, PageFacts DEF Agrees, WatchAgree, DataAgree
      <4> QED
        BY <4>1, PageFacts
    <3>2. \A e \in DataIds : InData(e)' /\ dataset'[e].status # "finished" =>
                               InData(e) /\ dataset[e].status # "finished"
      BY <2>1, <2>3
    <3>3. \A e \in DataIds : GoesAway(e) => LoadOver(e)'
      BY <1>1 DEF Agrees, WatchAgree
    <3> QED
      BY <1>1, <3>1, <3>2, <3>3 DEF Agrees, WatchAgree, GoesAway, Watched, shownLists
  <2>6. DataAgree'
    BY <1>1, <2>1, PageFacts DEF Agrees, DataAgree, DataListAgrees, GoesAway, Unlisted, shownLists
  <2>7. NoteAgree'
    <3>1. \A x \in dropping : x.kind = "dataset" => dataset'[x.id] = dataset[x.id]
      <4>1. \A x \in dropping : x.kind = "dataset" => x.id \in DataIds /\ GoesAway(x.id)
        BY PageFacts DEF GoesAway
      <4> QED
        BY <1>1, <2>2, <4>1 DEF Agrees, WatchAgree
    <3> QED
      BY <1>1, <3>1 DEF Agrees, NoteAgree, NoteListAgrees, NoteGoes, GoesAway, shownLists
  <2>8. ChosenAgrees'
    BY <1>1 DEF Agrees, ChosenAgrees, shownLists, chosen
  <2> QED
    BY <2>4, <2>5, <2>6, <2>7, <2>8 DEF Agrees
<1> QED
  BY <1>2, <1>3

\* A new dataset is not listed yet, and hides none that is.
LEMMA PageCreates ==
  ASSUME DatasetsTyped, LoadInv, DatasetsInv, NEW from \in {0} \cup NoteIds, CreateDataset(from)
  PROVE  DatasetsInv'
<1> SUFFICES ASSUME ~lost, ~mixed  PROVE Agrees'
  BY DEF CreateDataset, DatasetsInv
<1>1. Agrees /\ RowsAgree
  BY DEF DatasetsInv, LoadInv
<1> PICK d, made : d = NextData /\ made = counts.loads + 1
  OBVIOUS
<1> PICK row : row = [made |-> made, status |-> "waiting", file |-> 0]
  OBVIOUS
<1>2. /\ upload = noUpload /\ upload' = [id |-> d, made |-> made, from |-> from, step |-> "created"]
      /\ dataset' = [dataset EXCEPT ![d] = row] /\ counts.loads < MaxLoads
      /\ UNCHANGED <<notebook, copying, shownLists, chosen, watching, dropping, outcome>>
  BY DEF CreateDataset, DatasetsTyped, DataTyped, loading
<1>3. d \in DataIds /\ ~InData(d)
  <2>1. counts.loads + 1 <= MaxLoads
    BY <1>2, RowFacts, DataBounds
  <2> QED
    BY <2>1, NextDataBound, DataBounds, RowFacts DEF DatasetsTyped, DataIds
<1>4. row.status = "waiting" /\ InData(d)' /\ dataset'[d] = row
      /\ \A e \in DataIds : e # d => dataset'[e] = dataset[e] /\ (InData(e)' <=> InData(e))
  BY <1>2, <1>3 DEF DatasetsTyped, DataTyped, InData, noData
<1>5. upload'.id = d /\ Unlisted(d)' /\ \A e : ~Unlisted(e)
  BY <1>2 DEF Unlisted, noUpload
<1>6. dataset[d].status = "absent" /\ \A e \in DataIds : GoesAway(e) => e # d
  BY <1>1, <1>3, RowFacts DEF Agrees, WatchAgree, LoadOver
<1>7. CopiesAgree'
  <2>1. \A n \in NoteIds : notebook[n] # 0 => notebook[n] \in DataIds
    BY DataBounds DEF DatasetsTyped, NotesTyped, DataIds
  <2>2. copying # 0 => copying \in DataIds
    BY DataBounds DEF DatasetsTyped, NotesTyped, DataIds
  <2> QED
    BY <1>1, <1>2, <1>4, <1>6, <2>1, <2>2 DEF Agrees, CopiesAgree
<1>8. shownData \subseteq DataIds \ {d} /\ \A w \in watching : w.id \in DataIds \ {d}
  BY <1>1, <1>3, PageFacts DEF Agrees, DataAgree, WatchAgree
<1>9. WatchAgree'
  <2>1. \A e : Watched(e)' <=> Watched(e)
    BY <1>2 DEF Watched
  <2>2. \A e : GoesAway(e)' <=> GoesAway(e)
    BY <1>2 DEF GoesAway
  <2>3. \A w \in watching' : dataset'[w.id].made = w.made /\ w.id \in shownData' /\ w.id # upload'.id
    BY <1>1, <1>2, <1>4, <1>5, <1>8 DEF Agrees, WatchAgree, shownLists
  <2>4. \A e \in DataIds : InData(e)' /\ dataset'[e].status # "finished" =>
          upload'.id = e \/ Watched(e)' \/ GoesAway(e)'
    BY <1>1, <1>2, <1>4, <1>5, <2>1, <2>2 DEF Agrees, WatchAgree, noUpload, DataIds
  <2>5. \A e \in DataIds : GoesAway(e)' => LoadOver(e)' /\ upload'.id # e /\ ~Watched(e)'
    <3>1. \A e \in DataIds : e # d /\ LoadOver(e) => LoadOver(e)'
      BY <1>2, <1>4 DEF LoadOver
    <3> QED
      BY <1>1, <1>4, <1>5, <1>6, <2>1, <2>2, <3>1 DEF Agrees, WatchAgree
  <2>6. upload'.step # "listed"
    BY <1>2
  <2> QED
    BY <2>3, <2>4, <2>5, <2>6 DEF WatchAgree
<1>10. DataAgree'
  <2>1. ASSUME NEW i \in DOMAIN dataLists, ~dataLists[i].late  PROVE DataListAgrees(i)'
    <3>1. DataListAgrees(i) /\ dataLists[i].rows \subseteq DataIds
      BY <1>1, <2>1, PageFacts DEF Agrees, DataAgree
    <3> QED
      BY <1>2, <1>3, <1>4, <1>5, <3>1 DEF DataListAgrees, GoesAway, shownLists
  <2>2. \A e \in shownData : InData(e)' /\ ~GoesAway(e)'
    BY <1>1, <1>2, <1>4, <1>8 DEF Agrees, DataAgree, GoesAway
  <2>3. dataLists = <<>> => \A e \in DataIds : InData(e)' => e \in shownData \/ GoesAway(e)' \/ Unlisted(e)'
    BY <1>1, <1>2, <1>4, <1>5 DEF Agrees, DataAgree, GoesAway
  <2> QED
    BY <1>2, <2>1, <2>2, <2>3 DEF DataAgree, shownLists
<1>11. NoteAgree'
  <2>1. \A x \in dropping : x.kind = "dataset" => dataset'[x.id] = dataset[x.id]
    BY <1>4, <1>6, PageFacts DEF GoesAway
  <2> QED
    BY <1>1, <1>2, <2>1 DEF Agrees, NoteAgree, NoteListAgrees, NoteGoes, GoesAway, shownLists
<1>12. ChosenAgrees'
  BY <1>1, <1>2 DEF Agrees, ChosenAgrees, shownLists, chosen
<1> QED
  BY <1>7, <1>9, <1>10, <1>11, <1>12 DEF Agrees

\* What is listed joins the list.
LEMMA PageLists ==
  ASSUME DatasetsTyped, LoadInv, DatasetsInv, DatasetListed
  PROVE  DatasetsInv'
<1> SUFFICES ASSUME ~lost', ~mixed'  PROVE Agrees'
  BY DEF DatasetsInv
<1> PICK d : d = upload.id
  OBVIOUS
<1>1. Agrees /\ LoadsAgree
  BY DEF DatasetsInv, LoadInv, DatasetListed
<1>2. /\ upload # noUpload /\ upload \in Load /\ d \in DataIds
      /\ dataset[d].made = upload.made /\ InData(d)
  <2>1. upload # noUpload
    BY DEF DatasetListed, noUpload
  <2>2. upload \in Load
    BY <2>1 DEF DatasetsTyped, LoadsTyped
  <2> QED
    BY <1>1, <2>1, <2>2, LoadFacts, RowFacts DEF LoadsAgree, DataIds
<1>3. /\ shownData' = shownData \cup {d} /\ dataLists' = Late(dataLists)
      /\ chosenData' = d /\ chosenNote' = 0
      /\ UNCHANGED <<dataset, notebook, copying, shownNotes, noteLists, dropping, outcome>>
  BY DEF DatasetListed, ShowData, Chooses, dataServer, loading
<1>4. \/ watching' = watching \cup {[id |-> d, made |-> upload.made]} /\ upload' = noUpload
      \/ UNCHANGED watching /\ upload'.id = d /\ upload'.step = "listed"
  BY <1>2 DEF DatasetListed, Load
<1>5. ~GoesAway(d) /\ \A e : /\ GoesAway(e)' <=> GoesAway(e)
                             /\ (InData(e)' <=> InData(e)) /\ (LoadOver(e)' <=> LoadOver(e))
  BY <1>1, <1>2, <1>3 DEF Agrees, WatchAgree, GoesAway, InData, LoadOver
<1>6. CopiesAgree'
  BY <1>1, <1>3 DEF Agrees, CopiesAgree
<1>7. WatchAgree'
  <2>1. \A w \in watching' : dataset'[w.id].made = w.made /\ w.id \in shownData' /\ w.id # upload'.id
    <3>1. \A w \in watching : /\ dataset[w.id].made = w.made /\ w.id \in shownData
                              /\ w.id \in DataIds /\ w.id # d
      BY <1>1, PageFacts DEF Agrees, WatchAgree
    <3>2. \A w \in watching' : w \in watching \/ (w.id = d /\ w.made = upload.made /\ upload' = noUpload)
      BY <1>4
    <3>3. noUpload.id = 0 /\ 0 \notin DataIds /\ (upload' = noUpload \/ upload'.id = d)
      BY <1>4, PageFacts DEF noUpload
    <3> QED
      BY <1>2, <1>3, <3>1, <3>2, <3>3
  <2>2. \A e \in DataIds : (upload'.id = e \/ Watched(e)') <=> (upload.id = e \/ Watched(e))
    <3>1. CASE watching' = watching \cup {[id |-> d, made |-> upload.made]} /\ upload' = noUpload
      <4>1. ASSUME NEW w, w = [id |-> d, made |-> upload.made]
            PROVE  \A e : Watched(e)' <=> (Watched(e) \/ e = d)
        <5>1. w.id = d /\ watching' = watching \cup {w}
          BY <3>1, <4>1
        <5> QED
          BY <5>1 DEF Watched
      <4> QED
        BY <3>1, <4>1, PageFacts DEF noUpload
    <3>2. CASE UNCHANGED watching /\ upload'.id = d
      BY <3>2 DEF Watched
    <3> QED
      BY <1>4, <3>1, <3>2
  <2>3. upload'.step = "listed" => upload'.id \in shownData'
    BY <1>3, <1>4 DEF noUpload
  <2> QED
    BY <1>1, <1>3, <1>5, <2>1, <2>2, <2>3 DEF Agrees, WatchAgree
<1>8. DataAgree'
  <2>1. \A e \in shownData' : InData(e)' /\ ~GoesAway(e)'
    BY <1>1, <1>2, <1>3, <1>5 DEF Agrees, DataAgree
  <2>2. dataLists' = <<>> => \A e \in DataIds : InData(e)' => e \in shownData' \/ GoesAway(e)' \/ Unlisted(e)'
    BY <1>1, <1>3, <1>5, LateFacts DEF Agrees, DataAgree, Unlisted
  <2>3. \A i \in DOMAIN dataLists' : dataLists'[i].late
    BY <1>3, LateFacts
  <2> QED
    BY <2>1, <2>2, <2>3 DEF DataAgree
<1>9. NoteAgree'
  BY <1>1, <1>3 DEF Agrees, NoteAgree, NoteListAgrees, NoteGoes, GoesAway
<1>10. ChosenAgrees'
  BY <1>1, <1>3, LateFacts DEF Agrees, ChosenAgrees
<1> QED
  BY <1>6, <1>7, <1>8, <1>9, <1>10 DEF Agrees

\* What is enqueued is watched at once, or is still to be listed.
LEMMA PageEnqueues ==
  ASSUME DatasetsTyped, LoadInv, DatasetsInv, EnqueueLoad
  PROVE  DatasetsInv'
<1> SUFFICES ASSUME ~lost, ~mixed  PROVE Agrees'
  BY DEF EnqueueLoad, DatasetsInv
<1> PICK d : d = upload.id
  OBVIOUS
<1>1. Agrees /\ LoadsAgree
  BY DEF DatasetsInv, LoadInv
<1>2. /\ upload # noUpload /\ upload \in Load /\ d \in DataIds
      /\ dataset[d].made = upload.made /\ InData(d)
  <2>1. upload # noUpload
    BY DEF EnqueueLoad, noUpload
  <2>2. upload \in Load
    BY <2>1 DEF DatasetsTyped, LoadsTyped
  <2> QED
    BY <1>1, <2>1, <2>2, LoadFacts, RowFacts DEF LoadsAgree, DataIds
<1>3. UNCHANGED <<dataset, notebook, copying, shownLists, chosen, dropping, outcome>>
  BY DEF EnqueueLoad, dataServer
<1>4. \/ /\ upload.step = "listed" /\ upload' = noUpload
         /\ watching' = watching \cup {[id |-> d, made |-> upload.made]}
      \/ UNCHANGED watching /\ upload'.id = d /\ upload'.step = "enqueued" /\ upload.step = "created"
  BY <1>2 DEF EnqueueLoad, Load, InData
<1>5. \A e : /\ (GoesAway(e)' <=> GoesAway(e)) /\ (InData(e)' <=> InData(e))
             /\ (Unlisted(e)' <=> Unlisted(e)) /\ (LoadOver(e)' <=> LoadOver(e))
  BY <1>3, <1>4 DEF GoesAway, InData, Unlisted, LoadOver, noUpload
<1>6. WatchAgree'
  <2>1. \A w \in watching' : dataset'[w.id].made = w.made /\ w.id \in shownData' /\ w.id # upload'.id
    <3>1. \A w \in watching : /\ dataset[w.id].made = w.made /\ w.id \in shownData
                              /\ w.id \in DataIds /\ w.id # d
      BY <1>1, PageFacts DEF Agrees, WatchAgree
    <3>2. \A w \in watching' : w \in watching \/ (w.id = d /\ w.made = upload.made /\ upload' = noUpload)
      BY <1>4
    <3>3. noUpload.id = 0 /\ 0 \notin DataIds /\ (upload' = noUpload \/ upload'.id = d)
      BY <1>4, PageFacts DEF noUpload
    <3> QED
      <4>1. upload' = noUpload => d \in shownData
        BY <1>1, <1>2, <1>4, PageFacts DEF Agrees, WatchAgree, noUpload
      <4> QED
        BY <1>2, <1>3, <3>1, <3>2, <3>3, <4>1 DEF shownLists
  <2>2. \A e \in DataIds : (upload'.id = e \/ Watched(e)') <=> (upload.id = e \/ Watched(e))
    <3>1. CASE watching' = watching \cup {[id |-> d, made |-> upload.made]} /\ upload' = noUpload
      <4>1. ASSUME NEW w, w = [id |-> d, made |-> upload.made]
            PROVE  \A e : Watched(e)' <=> (Watched(e) \/ e = d)
        <5>1. w.id = d /\ watching' = watching \cup {w}
          BY <3>1, <4>1
        <5> QED
          BY <5>1 DEF Watched
      <4> QED
        BY <3>1, <4>1, PageFacts DEF noUpload
    <3>2. CASE UNCHANGED watching /\ upload'.id = d
      BY <3>2 DEF Watched
    <3> QED
      BY <1>4, <3>1, <3>2
  <2>3. upload'.step # "listed"
    BY <1>4 DEF noUpload
  <2> QED
    BY <1>1, <1>3, <1>5, <2>1, <2>2, <2>3 DEF Agrees, WatchAgree
<1>7. DataAgree'
  BY <1>1, <1>3, <1>5 DEF Agrees, DataAgree, DataListAgrees, shownLists
<1>8. CopiesAgree' /\ NoteAgree' /\ ChosenAgrees'
  BY <1>1, <1>3 DEF Agrees, CopiesAgree, NoteAgree, NoteListAgrees, NoteGoes, GoesAway, ChosenAgrees,
                    shownLists, chosen
<1> QED
  BY <1>6, <1>7, <1>8 DEF Agrees

\* The page sees nothing of a load that starts or ends.
LEMMA PageLoads ==
  ASSUME DatasetsTyped, LoadInv, DatasetsInv, TakeLoad \/ SaveLoad \/ LoadRaises \/ StoreLoad
  PROVE  DatasetsInv'
<1> SUFFICES ASSUME ~lost, ~mixed  PROVE DatasetsInv'
  BY DEF TakeLoad, SaveLoad, LoadRaises, StoreLoad, DatasetsInv
<1>1. UNCHANGED <<notebook, copying, shownLists, chosen, upload, watching, dropping, lost, mixed>>
  BY DEF TakeLoad, SaveLoad, LoadRaises, StoreLoad
<1>2. LoadsAgree /\ RowsAgree
  BY DEF LoadInv
<1>0. \A m \in DataIds : outcome[m] # "none" => outcome'[m] # "none"
  BY DEF TakeLoad, SaveLoad, LoadRaises, StoreLoad, Told, DatasetsTyped, DataTyped
<1>3. ASSUME NEW d \in DataIds, ~LoadOver(d), InData(d),
             NEW row, row.made = dataset[d].made, dataset' = [dataset EXCEPT ![d] = row]
      PROVE  DatasetsInv'
  <2>1. dataset'[d] = row /\ \A e \in DataIds : e # d => dataset'[e] = dataset[e]
    BY <1>3 DEF DatasetsTyped, DataTyped
  <2>2. dataset'[d].made = dataset[d].made /\ InData(d)'
    BY <1>3, <2>1, RowFacts DEF InData, noData
  <2>3. \A e \in DataIds : LoadOver(e) => LoadOver(e)'
    BY <1>0, <1>3, <2>1, RowFacts DEF LoadOver, InData
  <2> QED
    BY <1>1, <1>3, <2>1, <2>2, <2>3, PageStatus
<1>4. CASE dataset' = dataset
  <2>1. 1 \in DataIds
    BY DataBounds DEF DataIds
  <2>2. \A e \in DataIds : LoadOver(e) => LoadOver(e)'
    BY <1>0, <1>4, RowFacts DEF LoadOver, InData
  <2> QED
    BY <1>1, <1>4, <2>1, <2>2, PageStatus DEF InData
<1>5. CASE TakeLoad /\ dataset' # dataset
  <2> PICK l : l = Head(loads)
    OBVIOUS
  <2>1. InData(l.id) /\ dataset' = [dataset EXCEPT ![l.id].status = "started"]
    BY <1>5 DEF TakeLoad, InData
  <2>2. l \in Load /\ 1 \in DOMAIN loads /\ l = loads[1]
    <3>1. loads # <<>> /\ loads \in Seq(Load)
      BY <1>5 DEF TakeLoad, DatasetsTyped, LoadsTyped
    <3> QED
      BY <3>1, TheRest
  <2>3. l.id \in DataIds /\ dataset[l.id].status = "waiting" /\ ~LoadOver(l.id)
    BY <1>2, <2>2, LoadFacts DEF LoadsAgree, Waits, RowsAgree, RowAgrees, LoadOver, LoadEnded
  <2> PICK row : row = [dataset[l.id] EXCEPT !.status = "started"]
    OBVIOUS
  <2>4. dataset' = [dataset EXCEPT ![l.id] = row]
    BY <2>1
  <2>5. row.made = dataset[l.id].made
    BY <2>3, RowFacts DEF DataRow
  <2> QED
    BY <1>3, <2>1, <2>3, <2>4, <2>5
<1>6. CASE (LoadRaises \/ StoreLoad) /\ dataset' # dataset
  <2>1. loader # noUpload
    BY <1>6 DEF LoadRaises, StoreLoad, noUpload
  <2>2. loader.id \in DataIds /\ ~LoadOver(loader.id) /\ InData(loader.id)
    BY <1>2, <2>1, LoadFacts, RowFacts DEF LoadsAgree, LoadOver, DataIds
  <2>3. dataset[loader.id] \in DataRow /\ dataset \in [DataIds -> DataRow]
    BY <2>2 DEF DatasetsTyped, DataTyped
  <2>4. CASE LoadRaises
    <3>1. PICK status \in {"failed", "started"} :
             dataset' = [dataset EXCEPT ![loader.id].status = status]
      BY <2>2, <2>4 DEF LoadRaises, InData
    <3> PICK row : row = [dataset[loader.id] EXCEPT !.status = status]
      OBVIOUS
    <3>2. dataset' = [dataset EXCEPT ![loader.id] = row]
      BY <3>1
    <3>3. row.made = dataset[loader.id].made
      BY <2>3 DEF DataRow
    <3> QED
      BY <1>3, <2>2, <3>2, <3>3
  <2>5. CASE StoreLoad
    <3> PICK row : row = [dataset[loader.id] EXCEPT !.status = "finished", !.file = loader.made]
      OBVIOUS
    <3>1. dataset' = [dataset EXCEPT ![loader.id].status = "finished",
                                     ![loader.id].file = loader.made]
      BY <2>2, <2>5 DEF StoreLoad, InData
    <3>2. dataset' = [dataset EXCEPT ![loader.id] = row]
      BY <2>2, <2>3, <3>1
    <3>3. row.made = dataset[loader.id].made
      BY <2>3 DEF DataRow
    <3> QED
      BY <1>3, <2>2, <3>2, <3>3
  <2> QED
    BY <1>6, <2>4, <2>5
<1>7. SaveLoad => dataset' = dataset
  BY DEF SaveLoad
<1> QED
  BY <1>4, <1>5, <1>6, <1>7

\* A watcher is of the load of the row it watches, and ends when that does.
LEMMA WatcherFacts ==
  ASSUME DatasetsTyped, LoadInv, Agrees, ~lost, NEW w \in watching, outcome[w.made] \in LoadEnded
  PROVE  /\ w.id \in DataIds /\ w.id \in shownData /\ w.id # upload.id
         /\ outcome[w.made] = "finished" <=> dataset[w.id].status = "finished"
         /\ LoadOver(w.id) /\ InData(w.id) /\ ~GoesAway(w.id)
         /\ \A v \in watching \ {w} : v.id # w.id
<1>1. w.id \in DataIds /\ w.made \in DataIds /\ w \in [id : DataIds, made : DataIds]
  BY PageFacts
<1>2. dataset[w.id].made = w.made /\ w.id \in shownData /\ w.id # upload.id /\ ~GoesAway(w.id)
  BY DEF Agrees, WatchAgree, DataAgree
<1>3. InData(w.id)
  BY <1>1, <1>2, RowFacts DEF DataIds
<1>4. (outcome[w.made] = "finished" <=> dataset[w.id].status = "finished") /\ LoadOver(w.id)
  <2>1. RowAgrees(w.id)
    BY <1>1 DEF LoadInv, RowsAgree
  <2> QED
    BY <1>2, <1>3, <2>1 DEF RowAgrees, LoadOver, LoadEnded
<1>5. ASSUME NEW v \in watching, v.id = w.id  PROVE v = w
  <2>1. v.made = w.made
    BY <1>2, <1>5 DEF Agrees, WatchAgree
  <2>2. v \in [id : DataIds, made : DataIds]
    BY PageFacts
  <2> QED
    BY <1>1, <1>5, <2>1, <2>2
<1> QED
  BY <1>1, <1>2, <1>3, <1>4, <1>5

\* A new list holds all there is.
LEMMA PageFetches ==
  ASSUME DatasetsTyped, LoadInv, DatasetsInv, NEW w \in watching, LoadSucceeded(w)
  PROVE  DatasetsInv'
<1> SUFFICES ASSUME ~lost, ~mixed  PROVE Agrees'
  BY DEF LoadSucceeded, DatasetsInv
<1> PICK l : l = DataAnswer(w.id)
  OBVIOUS
<1>1. Agrees
  BY DEF DatasetsInv
<1>2. /\ watching' = watching \ {w} /\ dataLists' = Append(dataLists, l)
      /\ outcome[w.made] = "finished"
      /\ UNCHANGED <<dataset, notebook, copying, shownData, shownNotes, noteLists, chosen, upload,
                     dropping, outcome>>
  BY DEF LoadSucceeded, dataServer, loading
<1>3. /\ w.id \in DataIds /\ dataset[w.id].status = "finished" /\ InData(w.id)
      /\ \A v \in watching \ {w} : v.id # w.id
  BY <1>1, <1>2, WatcherFacts DEF LoadEnded
<1>4. /\ l.rows = {d \in DataIds : InData(d)} /\ l.late = (dropping # {}) /\ w.id \in l.rows
      /\ l.then = w.id /\ l \in DataList
  BY <1>3, ListAnswersTyped DEF DataAnswer, InData, DatasetsTyped
<1>5. /\ DOMAIN dataLists' = 1..(Len(dataLists) + 1) /\ DOMAIN dataLists = 1..Len(dataLists)
      /\ Len(dataLists) \in Nat /\ dataLists' # <<>>
      /\ \A i \in DOMAIN dataLists : dataLists'[i] = dataLists[i]
      /\ dataLists'[Len(dataLists) + 1] = l
  <2>1. dataLists \in Seq(DataList)
    BY DEF DatasetsTyped, ListsTyped
  <2> QED
    BY <1>2, <1>4, <2>1, AtTheEnd
<1>6. \A i \in DOMAIN dataLists' : i \in DOMAIN dataLists \/ i = Len(dataLists) + 1
  BY <1>5
<1>7. \A e : /\ (GoesAway(e)' <=> GoesAway(e)) /\ (InData(e)' <=> InData(e))
             /\ (Unlisted(e)' <=> Unlisted(e)) /\ (LoadOver(e)' <=> LoadOver(e))
  BY <1>2 DEF GoesAway, InData, Unlisted, LoadOver
<1>8. WatchAgree'
  <2>1. \A e \in DataIds : Watched(e)' => Watched(e)
    BY <1>2 DEF Watched
  <2>2. \A e \in DataIds : Watched(e) => Watched(e)' \/ e = w.id
    BY <1>2 DEF Watched
  <2> QED
    BY <1>1, <1>2, <1>3, <1>7, <2>1, <2>2 DEF Agrees, WatchAgree
<1>9. DataAgree'
  <2>1. \A e \in shownData' : InData(e)' /\ ~GoesAway(e)'
    BY <1>1, <1>2, <1>7 DEF Agrees, DataAgree
  <2>2. ASSUME NEW i \in DOMAIN dataLists', ~dataLists'[i].late  PROVE DataListAgrees(i)'
    <3>1. CASE i = Len(dataLists) + 1
      <4>1. dropping = {} /\ dataLists'[i] = l
        BY <1>4, <1>5, <2>2, <3>1
      <4>2. \A e : ~GoesAway(e)
        BY <4>1 DEF GoesAway
      <4>3. ~ \E j \in DOMAIN dataLists' : i < j
        BY <1>5, <3>1
      <4>4. shownData \subseteq l.rows
        BY <1>1, <1>4, PageFacts DEF Agrees, DataAgree
      <4> QED
        BY <1>2, <1>4, <1>7, <4>1, <4>2, <4>3, <4>4 DEF DataListAgrees
    <3>2. CASE i \in DOMAIN dataLists
      <4>1. dataLists'[i] = dataLists[i] /\ DataListAgrees(i)
        BY <1>1, <1>5, <2>2, <3>2 DEF Agrees, DataAgree
      <4>2. dataLists[i].rows \subseteq l.rows
        BY <1>4, <3>2, <4>1, PageFacts DEF DataListAgrees
      <4>3. \A j \in DOMAIN dataLists' : i < j => dataLists[i].rows \subseteq dataLists'[j].rows
        BY <1>5, <1>6, <4>1, <4>2 DEF DataListAgrees
      <4> QED
        BY <1>2, <1>7, <4>1, <4>3 DEF DataListAgrees
    <3> QED
      BY <1>6, <3>1, <3>2
  <2> QED
    BY <1>5, <2>1, <2>2 DEF DataAgree
<1>10. CopiesAgree' /\ NoteAgree'
  BY <1>1, <1>2 DEF Agrees, CopiesAgree, NoteAgree, NoteListAgrees, NoteGoes, GoesAway
<1>11. ChosenAgrees'
  <2>1. \A i \in DOMAIN dataLists' : dataLists'[i].then # 0 => dataLists'[i].then \in dataLists'[i].rows
    BY <1>1, <1>4, <1>5, <1>6 DEF Agrees, ChosenAgrees
  <2> QED
    BY <1>1, <1>2, <2>1 DEF Agrees, ChosenAgrees, chosen
<1> QED
  BY <1>8, <1>9, <1>10, <1>11 DEF Agrees

\* What is on its way out is one more.
LEMMA GoesMore ==
  ASSUME NEW d, dropping' = dropping \cup {[kind |-> "dataset", id |-> d]}
  PROVE  \A e : GoesAway(e)' <=> (GoesAway(e) \/ e = d)
  BY DEF GoesAway

\* A dataset that could not be loaded leaves the page, and no notebook is its copy.
LEMMA PageFails ==
  ASSUME DatasetsTyped, LoadInv, DatasetsInv, NEW w \in watching, LoadFailed(w)
  PROVE  DatasetsInv'
<1> SUFFICES ASSUME ~lost, ~mixed  PROVE Agrees'
  BY DEF LoadFailed, DatasetsInv
<1> PICK d : d = w.id
  OBVIOUS
<1>1. Agrees
  BY DEF DatasetsInv
<1>2. outcome[w.made] = "failed"
  BY DEF LoadFailed
<1>3. /\ d \in DataIds /\ d \in shownData /\ d # upload.id
      /\ dataset[d].status # "finished" /\ LoadOver(d) /\ InData(d) /\ ~GoesAway(d)
      /\ \A v \in watching \ {w} : v.id # d
  BY <1>1, <1>2, WatcherFacts DEF LoadEnded
<1>4. /\ watching' = watching \ {w} /\ chosenData' = 0 /\ UNCHANGED chosenNote
      /\ shownData' = shownData \ {d} /\ dataLists' = Late(dataLists)
      /\ dropping' = dropping \cup {[kind |-> "dataset", id |-> d]}
      /\ UNCHANGED <<dataset, notebook, copying, shownNotes, noteLists, upload, outcome>>
  BY <1>3 DEF LoadFailed, ShowData, dataServer, loading
<1>5. \A e : /\ (GoesAway(e)' <=> GoesAway(e) \/ e = d) /\ (InData(e)' <=> InData(e))
             /\ (Unlisted(e)' <=> Unlisted(e)) /\ (LoadOver(e)' <=> LoadOver(e))
  BY <1>4, GoesMore DEF InData, Unlisted, LoadOver
<1>6. \A n \in NoteIds : notebook[n] # 0 => notebook[n] # d
  BY <1>1, <1>3 DEF Agrees, CopiesAgree
<1>7. WatchAgree'
  <2>1. \A e \in DataIds : Watched(e)' <=> Watched(e) /\ e # d
    BY <1>3, <1>4 DEF Watched
  <2>2. \A v \in watching' : dataset'[v.id].made = v.made /\ v.id \in shownData' /\ v.id # upload'.id
    BY <1>1, <1>3, <1>4 DEF Agrees, WatchAgree
  <2> QED
    BY <1>1, <1>3, <1>4, <1>5, <2>1, <2>2 DEF Agrees, WatchAgree, LoadEnded
<1>8. DataAgree'
  <2>1. \A e \in shownData' : InData(e)' /\ ~GoesAway(e)'
    BY <1>1, <1>4, <1>5 DEF Agrees, DataAgree
  <2>2. dataLists' = <<>> => \A e \in DataIds : InData(e)' => e \in shownData' \/ GoesAway(e)' \/ Unlisted(e)'
    BY <1>1, <1>4, <1>5, LateFacts DEF Agrees, DataAgree
  <2>3. \A i \in DOMAIN dataLists' : dataLists'[i].late
    BY <1>4, LateFacts
  <2> QED
    BY <2>1, <2>2, <2>3 DEF DataAgree
<1>9. NoteAgree'
  <2>1. \A n \in shownNotes : notebook'[n] # 0 /\ ~NoteGoes(n)'
    BY <1>1, <1>4, <1>5, <1>6, PageFacts DEF Agrees, NoteAgree, NoteGoes
  <2>2. \A n \in NoteIds : NoteGoes(n) => NoteGoes(n)'
    BY <1>4, <1>5 DEF NoteGoes
  <2>3. ASSUME NEW i \in DOMAIN noteLists, ~noteLists[i].late  PROVE NoteListAgrees(i)'
    <3>1. NoteListAgrees(i)
      BY <1>1, <2>3 DEF Agrees, NoteAgree
    <3> QED
      BY <1>3, <1>4, <3>1 DEF NoteListAgrees
  <2> QED
    BY <1>1, <1>4, <2>1, <2>2, <2>3 DEF Agrees, NoteAgree
<1>10. CopiesAgree' /\ ChosenAgrees'
  BY <1>1, <1>4, LateFacts DEF Agrees, CopiesAgree, ChosenAgrees
<1> QED
  BY <1>7, <1>8, <1>9, <1>10 DEF Agrees

\* What a list that arrives was compared with is true of it when it is shown.
LEMMA PageDataArrives ==
  ASSUME DatasetsTyped, DatasetsInv, DataListArrives
  PROVE  DatasetsInv'
<1> SUFFICES ASSUME ~lost', ~mixed'  PROVE Agrees'
  BY DEF DatasetsInv
<1>1. PICK n \in DOMAIN dataLists :
        /\ shownData' = dataLists[n].rows /\ dataLists' = Without(dataLists, n)
        /\ mixed' = (mixed \/ dataLists[n].late)
        /\ chosenData' = IF dataLists[n].then # 0 THEN dataLists[n].then ELSE chosenData
  BY DEF DataListArrives
<1>2. UNCHANGED <<dataset, notebook, copying, shownNotes, noteLists, chosenNote, upload, watching,
                  dropping, outcome>>
  BY DEF DataListArrives, dataServer, loading
<1>3. Agrees /\ DataListAgrees(n)
  BY <1>1 DEF DatasetsInv, Agrees, DataAgree, DataListArrives
<1>4. dataLists \in Seq(DataList)
  BY DEF DatasetsTyped, ListsTyped
<1>5. /\ DOMAIN dataLists' = 1..(Len(dataLists) - 1) /\ DOMAIN dataLists = 1..Len(dataLists)
      /\ Len(dataLists) \in Nat
  BY <1>1, <1>4, ListGoes
<1>6. ASSUME NEW i \in DOMAIN dataLists'
      PROVE  \E j \in DOMAIN dataLists :
                /\ j # n /\ j = IF i < n THEN i ELSE i + 1
                /\ dataLists'[i].rows = dataLists[j].rows /\ dataLists'[i].then = dataLists[j].then
                /\ dataLists'[i].late = (dataLists[j].late \/ i < n)
  <2>1. i \in 1..(Len(dataLists) - 1)
    BY <1>5, <1>6
  <2> PICK j : j = IF i < n THEN i ELSE i + 1
    OBVIOUS
  <2>2. /\ j \in DOMAIN dataLists /\ j # n
        /\ Without(dataLists, n)[i].rows = dataLists[j].rows
        /\ Without(dataLists, n)[i].then = dataLists[j].then
        /\ Without(dataLists, n)[i].late = (dataLists[j].late \/ i < n)
    BY <1>4, <2>1, ListGoes
  <2> QED
    BY <1>1, <2>2
<1>7. \A e : /\ (GoesAway(e)' <=> GoesAway(e)) /\ (InData(e)' <=> InData(e))
             /\ (Unlisted(e)' <=> Unlisted(e)) /\ (Watched(e)' <=> Watched(e))
             /\ (LoadOver(e)' <=> LoadOver(e))
  BY <1>2 DEF GoesAway, InData, Unlisted, Watched, LoadOver
<1>8. dataLists[n].rows \subseteq DataIds /\ shownData \subseteq dataLists[n].rows
  BY <1>3, PageFacts DEF DataListAgrees
<1>9. WatchAgree'
  <2>1. \A w \in watching : w.id \in shownData'
    BY <1>1, <1>3, <1>8 DEF Agrees, WatchAgree
  <2>2. upload.step = "listed" => upload.id \in shownData'
    BY <1>1, <1>3, <1>8 DEF Agrees, WatchAgree
  <2> QED
    BY <1>2, <1>3, <1>7, <2>1, <2>2 DEF Agrees, WatchAgree
<1>10. DataAgree'
  <2>1. \A e \in shownData' : InData(e)' /\ ~GoesAway(e)'
    BY <1>1, <1>3, <1>7, <1>8 DEF DataListAgrees
  <2>2. \A e \in DataIds : InData(e)' => e \in shownData' \/ Unlisted(e)'
    BY <1>1, <1>3, <1>7 DEF DataListAgrees
  <2>3. ASSUME NEW i \in DOMAIN dataLists', ~dataLists'[i].late  PROVE DataListAgrees(i)'
    <3>1. PICK j \in DOMAIN dataLists :
             /\ j = i + 1 /\ n < j /\ dataLists'[i].rows = dataLists[j].rows /\ ~dataLists[j].late
      <4>1. i \in Nat /\ n \in Nat
        BY <1>5
      <4>2. PICK j \in DOMAIN dataLists :
               /\ j # n /\ j = IF i < n THEN i ELSE i + 1
               /\ dataLists'[i].rows = dataLists[j].rows
               /\ dataLists'[i].late = (dataLists[j].late \/ i < n)
        BY <1>6
      <4>3. ~(i < n) /\ ~dataLists[j].late
        BY <2>3, <4>2
      <4> QED
        BY <4>1, <4>2, <4>3
    <3>2. DataListAgrees(j) /\ dataLists[n].rows \subseteq dataLists[j].rows
      BY <1>3, <3>1 DEF Agrees, DataAgree, DataListAgrees
    <3>3. \A m \in DOMAIN dataLists' : i < m =>
            \E k \in DOMAIN dataLists : j < k /\ dataLists'[m].rows = dataLists[k].rows
      <4>1. i \in Nat /\ n \in Nat /\ \A m \in DOMAIN dataLists' : m \in Nat
        BY <1>5
      <4> QED
        BY <1>6, <3>1, <4>1
    <3> QED
      BY <1>1, <1>7, <3>1, <3>2, <3>3 DEF DataListAgrees
  <2> QED
    BY <2>1, <2>2, <2>3 DEF DataAgree
<1>11. CopiesAgree' /\ NoteAgree'
  BY <1>2, <1>3 DEF Agrees, CopiesAgree, NoteAgree, NoteListAgrees, NoteGoes, GoesAway
<1>12. ChosenAgrees'
  <2>1. chosenData' \in {0} \cup shownData' /\ chosenNote' \in {0} \cup shownNotes'
    BY <1>1, <1>2, <1>3, <1>8 DEF Agrees, ChosenAgrees
  <2>2. \A i \in DOMAIN dataLists' : dataLists'[i].then # 0 => dataLists'[i].then \in dataLists'[i].rows
    BY <1>3, <1>6 DEF Agrees, ChosenAgrees
  <2> QED
    BY <1>2, <1>3, <2>1, <2>2 DEF Agrees, ChosenAgrees
<1> QED
  BY <1>9, <1>10, <1>11, <1>12 DEF Agrees

\* So is it of a list of notebooks.
LEMMA PageNotesArrive ==
  ASSUME DatasetsTyped, DatasetsInv, NoteListArrives
  PROVE  DatasetsInv'
<1> SUFFICES ASSUME ~lost', ~mixed'  PROVE Agrees'
  BY DEF DatasetsInv
<1>1. PICK n \in DOMAIN noteLists :
        /\ shownNotes' = noteLists[n].rows /\ noteLists' = Without(noteLists, n)
        /\ mixed' = (mixed \/ noteLists[n].late)
        /\ \/ noteLists[n].then # 0 /\ chosenData' = 0 /\ chosenNote' = noteLists[n].then
           \/ noteLists[n].then = 0 /\ UNCHANGED <<chosenData, chosenNote>>
  BY DEF NoteListArrives, Chooses, chosen
<1>2. UNCHANGED <<dataset, notebook, copying, shownData, dataLists, upload, watching, dropping,
                  outcome>>
  BY DEF NoteListArrives, dataServer, loading
<1>3. Agrees /\ NoteListAgrees(n)
  BY <1>1 DEF DatasetsInv, Agrees, NoteAgree, NoteListArrives
<1>4. noteLists \in Seq(NoteList)
  BY DEF DatasetsTyped, ListsTyped
<1>5. /\ DOMAIN noteLists' = 1..(Len(noteLists) - 1) /\ DOMAIN noteLists = 1..Len(noteLists)
      /\ Len(noteLists) \in Nat /\ noteLists' \in Seq(NoteList) /\ Len(noteLists') = Len(noteLists) - 1
  <2>1. noteLists' \in Seq(NoteList)
    BY <1>1, ListGoesTyped DEF DatasetsTyped, ListsTyped
  <2>2. /\ DOMAIN noteLists' = 1..(Len(noteLists) - 1) /\ DOMAIN noteLists = 1..Len(noteLists)
        /\ Len(noteLists) \in Nat
    BY <1>1, <1>4, ListGoes
  <2>3. /\ Len(noteLists') \in Nat /\ Len(noteLists) - 1 \in Nat
        /\ 1..Len(noteLists') = 1..(Len(noteLists) - 1)
    <3>1. Len(noteLists') \in Nat /\ DOMAIN noteLists' = 1..Len(noteLists')
      BY <2>1, LenProperties
    <3>2. n \in 1..Len(noteLists)
      BY <2>2
    <3>3. Len(noteLists) - 1 \in Nat
      BY <2>2, <3>2
    <3> QED
      BY <2>2, <3>1, <3>3
  <2>4. ASSUME NEW a \in Nat, NEW b \in Nat, 1..a = 1..b  PROVE a = b
    <3>1. (a \in 1..a \/ a = 0) /\ (b \in 1..b \/ b = 0)
      OBVIOUS
    <3>2. (a \in 1..b \/ a = 0) /\ (b \in 1..a \/ b = 0)
      BY <2>4, <3>1
    <3> QED
      BY <3>2
  <2>5. Len(noteLists') = Len(noteLists) - 1
    BY <2>3, <2>4
  <2> QED
    BY <2>1, <2>2, <2>5
<1>6. ASSUME NEW i \in DOMAIN noteLists'
      PROVE  \E j \in DOMAIN noteLists :
                /\ j # n /\ j = IF i < n THEN i ELSE i + 1
                /\ noteLists'[i].rows = noteLists[j].rows /\ noteLists'[i].then = noteLists[j].then
                /\ noteLists'[i].late = (noteLists[j].late \/ i < n)
  <2>1. i \in 1..(Len(noteLists) - 1)
    BY <1>5, <1>6
  <2> PICK j : j = IF i < n THEN i ELSE i + 1
    OBVIOUS
  <2>2. /\ j \in DOMAIN noteLists /\ j # n
        /\ Without(noteLists, n)[i].rows = noteLists[j].rows
        /\ Without(noteLists, n)[i].then = noteLists[j].then
        /\ Without(noteLists, n)[i].late = (noteLists[j].late \/ i < n)
    BY <1>4, <2>1, ListGoes
  <2> QED
    BY <1>1, <2>2
<1>7. \A m : NoteGoes(m)' <=> NoteGoes(m)
  BY <1>2 DEF GoesAway, NoteGoes
<1>8. noteLists[n].rows \subseteq NoteIds /\ shownNotes \subseteq noteLists[n].rows
      /\ \A m \in noteLists[n].rows : notebook[m] # 0
      /\ \A x \in dropping : x.kind = "dataset" /\ dataset[x.id].status # "finished"
  BY <1>3, PageFacts DEF NoteListAgrees
<1>9. NoteAgree'
  <2>1. \A m \in shownNotes' : notebook'[m] # 0 /\ ~NoteGoes(m)'
    <3>1. ASSUME NEW m \in noteLists[n].rows  PROVE ~NoteGoes(m)
      <4>1. m \in NoteIds /\ dataset[notebook[m]].status = "finished"
        BY <1>3, <1>8 DEF Agrees, CopiesAgree
      <4>2. ASSUME GoesAway(notebook[m])  PROVE FALSE
        <5>1. PICK x \in dropping : x = [kind |-> "dataset", id |-> notebook[m]]
          BY <4>2 DEF GoesAway
        <5> QED
          BY <1>8, <4>1, <5>1
      <4>3. ASSUME [kind |-> "notebook", id |-> m] \in dropping  PROVE FALSE
        <5>1. PICK x \in dropping : x = [kind |-> "notebook", id |-> m]
          BY <4>3
        <5> QED
          BY <1>8, <5>1
      <4> QED
        BY <4>2, <4>3 DEF NoteGoes
    <3> QED
      BY <1>1, <1>2, <1>7, <1>8, <3>1
  <2>2. noteLists' = <<>> => \A m \in NoteIds : notebook'[m] # 0 => m \in shownNotes'
    <3>1. noteLists' = <<>> => n = Len(noteLists)
      BY <1>5
    <3> QED
      BY <1>1, <1>2, <1>3, <3>1 DEF NoteListAgrees
  <2>3. ASSUME NEW i \in DOMAIN noteLists', ~noteLists'[i].late  PROVE NoteListAgrees(i)'
    <3>0. i \in Nat /\ n \in Nat /\ \A m \in DOMAIN noteLists' : m \in Nat
      BY <1>5
    <3>1. PICK j \in DOMAIN noteLists :
             /\ j = i + 1 /\ n < j /\ noteLists'[i].rows = noteLists[j].rows /\ ~noteLists[j].late
      <4>1. PICK j \in DOMAIN noteLists :
               /\ j # n /\ j = IF i < n THEN i ELSE i + 1
               /\ noteLists'[i].rows = noteLists[j].rows
               /\ noteLists'[i].late = (noteLists[j].late \/ i < n)
        BY <1>6
      <4>2. ~(i < n) /\ ~noteLists[j].late
        BY <2>3, <4>1
      <4> QED
        BY <3>0, <4>1, <4>2
    <3>2. NoteListAgrees(j) /\ noteLists[n].rows \subseteq noteLists[j].rows
      BY <1>3, <3>1 DEF Agrees, NoteAgree, NoteListAgrees
    <3>3. \A m \in DOMAIN noteLists' : i < m =>
            \E k \in DOMAIN noteLists : j < k /\ noteLists'[m].rows = noteLists[k].rows
      BY <1>6, <3>0, <3>1
    <3>4. i = Len(noteLists') => j = Len(noteLists)
      BY <1>5, <3>0, <3>1
    <3> QED
      BY <1>1, <1>2, <3>1, <3>2, <3>3, <3>4 DEF NoteListAgrees
  <2> QED
    BY <2>1, <2>2, <2>3 DEF NoteAgree
<1>10. CopiesAgree' /\ WatchAgree' /\ DataAgree'
  BY <1>2, <1>3 DEF Agrees, CopiesAgree, WatchAgree, DataAgree, DataListAgrees, GoesAway, Unlisted,
                    Watched, InData, LoadOver
<1>11. ChosenAgrees'
  <2>1. chosenData' \in {0} \cup shownData' /\ chosenNote' \in {0} \cup shownNotes'
    BY <1>1, <1>2, <1>3, <1>8 DEF Agrees, ChosenAgrees
  <2>2. \A i \in DOMAIN noteLists' : noteLists'[i].then # 0 => noteLists'[i].then \in noteLists'[i].rows
    BY <1>3, <1>6 DEF Agrees, ChosenAgrees
  <2> QED
    BY <1>2, <1>3, <2>1, <2>2 DEF Agrees, ChosenAgrees
<1> QED
  BY <1>9, <1>10, <1>11 DEF Agrees

\* A notebook's dataset is copied, and the list that holds it is fetched.
LEMMA PageCopies ==
  ASSUME DatasetsTyped, DatasetsInv, (\E d \in DataIds : CopyBegins(d)) \/ CopyEnds
  PROVE  DatasetsInv'
<1> SUFFICES ASSUME ~lost, ~mixed  PROVE Agrees'
  BY DEF CopyBegins, CopyEnds, DatasetsInv
<1>1. Agrees
  BY DEF DatasetsInv
<1>2. UNCHANGED <<dataset, outcome, shownData, shownNotes, dataLists, chosen, upload, watching,
                  dropping>>
  BY DEF CopyBegins, CopyEnds, shownLists, loading
<1>3. WatchAgree' /\ DataAgree'
  BY <1>1, <1>2 DEF Agrees, WatchAgree, DataAgree, DataListAgrees, GoesAway, Unlisted, Watched, InData,
                    LoadOver
<1>4. ASSUME NEW d \in DataIds, CopyBegins(d)  PROVE CopiesAgree' /\ NoteAgree' /\ ChosenAgrees'
  <2>1. copying' = d /\ dataset[d].status = "finished" /\ UNCHANGED <<notebook, noteLists>>
    BY <1>4 DEF CopyBegins, shownLists
  <2> QED
    BY <1>1, <1>2, <2>1 DEF Agrees, CopiesAgree, NoteAgree, NoteListAgrees, NoteGoes, GoesAway, ChosenAgrees,
                            chosen
<1>5. ASSUME CopyEnds  PROVE CopiesAgree' /\ NoteAgree' /\ ChosenAgrees'
  <2> PICK n : n = NextNote
    OBVIOUS
  <2> PICK l : l = [rows |-> {m \in NoteIds : notebook'[m] # 0},
                    then |-> n, late |-> dropping # {}]
    OBVIOUS
  <2>1. n \in NoteIds /\ notebook[n] = 0 /\ copying # 0
    BY <1>5, NextNoteBound DEF CopyEnds, DatasetsTyped
  <2>2. /\ notebook' = [notebook EXCEPT ![n] = copying] /\ noteLists' = Append(noteLists, l)
        /\ copying' = 0
    BY <1>5 DEF CopyEnds
  <2>3. \A m \in NoteIds : notebook'[m] = IF m = n THEN copying ELSE notebook[m]
    BY <2>2 DEF DatasetsTyped, NotesTyped
  <2>4. /\ l.rows = {m \in NoteIds : notebook'[m] # 0} /\ l.late = (dropping # {}) /\ n \in l.rows
        /\ l.then = n /\ l \in NoteList
    BY <2>1, <2>3 DEF NoteList
  <2>5. /\ DOMAIN noteLists' = 1..(Len(noteLists) + 1) /\ DOMAIN noteLists = 1..Len(noteLists)
        /\ Len(noteLists) \in Nat /\ noteLists' # <<>> /\ Len(noteLists') = Len(noteLists) + 1
        /\ \A i \in DOMAIN noteLists : noteLists'[i] = noteLists[i]
        /\ noteLists'[Len(noteLists) + 1] = l
    <3>1. noteLists \in Seq(NoteList)
      BY DEF DatasetsTyped, ListsTyped
    <3>2. l \in NoteList /\ noteLists' = Append(noteLists, l)
      BY <2>2, <2>4
    <3>3. Len(Append(noteLists, l)) = Len(noteLists) + 1
      BY <3>2, <3>1, AppendProperties
    <3>4. /\ DOMAIN noteLists' = 1..(Len(noteLists) + 1) /\ DOMAIN noteLists = 1..Len(noteLists)
          /\ Len(noteLists) \in Nat /\ noteLists' # <<>>
          /\ \A i \in DOMAIN noteLists : noteLists'[i] = noteLists[i]
          /\ noteLists'[Len(noteLists) + 1] = l
      BY <3>2, <3>1, AtTheEnd
    <3> QED
      BY <3>2, <3>3, <3>4
  <2>6. \A i \in DOMAIN noteLists' : i \in DOMAIN noteLists \/ i = Len(noteLists) + 1
    BY <2>5
  <2>7. CopiesAgree'
    BY <1>1, <1>2, <2>1, <2>2, <2>3 DEF Agrees, CopiesAgree
  <2>8. NoteAgree'
    <3>1. \A m \in shownNotes : notebook'[m] # 0 /\ ~NoteGoes(m)'
      <4>1. \A m \in shownNotes : m \in NoteIds /\ m # n
        BY <1>1, <2>1, PageFacts DEF Agrees, NoteAgree
      <4> QED
        BY <1>1, <1>2, <2>3, <4>1 DEF Agrees, NoteAgree, NoteGoes, GoesAway
    <3>2. ASSUME NEW i \in DOMAIN noteLists', ~noteLists'[i].late  PROVE NoteListAgrees(i)'
      <4>1. CASE i = Len(noteLists) + 1
        <5>1. dropping = {} /\ noteLists'[i] = l /\ ~ \E j \in DOMAIN noteLists' : i < j
          <6>1. noteLists'[i] = l /\ ~l.late
            BY <2>5, <3>2, <4>1
          <6>2. ~ \E j \in DOMAIN noteLists' : i < j
            BY <2>5, <4>1
          <6> QED
            BY <2>4, <6>1, <6>2
        <5>2. shownNotes \subseteq l.rows
          BY <2>4, <3>1, PageFacts
        <5> QED
          BY <1>2, <2>4, <5>1, <5>2 DEF NoteListAgrees
      <4>2. CASE i \in DOMAIN noteLists
        <5>1. noteLists'[i] = noteLists[i] /\ NoteListAgrees(i) /\ noteLists[i].rows \subseteq NoteIds
          BY <1>1, <2>5, <3>2, <4>2, PageFacts DEF Agrees, NoteAgree
        <5>2. \A m \in noteLists[i].rows : notebook'[m] # 0
          BY <2>1, <2>3, <5>1 DEF NoteListAgrees
        <5>3. noteLists[i].rows \subseteq l.rows
          BY <2>4, <5>1, <5>2
        <5>4. \A j \in DOMAIN noteLists' : i < j => noteLists[i].rows \subseteq noteLists'[j].rows
          BY <2>5, <2>6, <5>1, <5>3 DEF NoteListAgrees
        <5>5. i # Len(noteLists')
          BY <2>5, <4>2
        <5> QED
          BY <1>2, <5>1, <5>2, <5>4, <5>5 DEF NoteListAgrees
      <4> QED
        BY <2>6, <3>2, <4>1, <4>2
    <3> QED
      BY <1>2, <2>5, <3>1, <3>2 DEF NoteAgree
  <2>9. ChosenAgrees'
    <3>1. \A i \in DOMAIN noteLists' : noteLists'[i].then # 0 => noteLists'[i].then \in noteLists'[i].rows
      BY <1>1, <2>4, <2>5, <2>6 DEF Agrees, ChosenAgrees
    <3> QED
      BY <1>1, <1>2, <3>1 DEF Agrees, ChosenAgrees, chosen
  <2> QED
    BY <2>7, <2>8, <2>9
<1> QED
  BY <1>1, <1>3, <1>4, <1>5 DEF Agrees

\* What is clicked is listed.
LEMMA PageClicks ==
  ASSUME DatasetsTyped, DatasetsInv,
         (\E d \in {0} \cup DataIds : ChooseDataset(d)) \/ (\E n \in NoteIds : ChooseNotebook(n))
  PROVE  DatasetsInv'
<1> SUFFICES ASSUME ~lost, ~mixed  PROVE Agrees'
  BY DEF ChooseDataset, ChooseNotebook, DatasetsInv
<1>1. Agrees
  BY DEF DatasetsInv
<1>2. UNCHANGED <<dataset, outcome, notebook, copying, shownLists, upload, watching, dropping>>
  BY DEF ChooseDataset, ChooseNotebook, dataServer, loading
<1>3. CopiesAgree' /\ WatchAgree' /\ DataAgree' /\ NoteAgree'
  BY <1>1, <1>2 DEF Agrees, CopiesAgree, WatchAgree, DataAgree, DataListAgrees, NoteAgree, NoteListAgrees,
                    NoteGoes, GoesAway, Unlisted, Watched, InData, LoadOver, shownLists
<1>4. chosenData' \in {0} \cup shownData' /\ chosenNote' \in {0} \cup shownNotes'
  BY <1>2 DEF ChooseDataset, ChooseNotebook, Chooses, shownLists
<1>5. ChosenAgrees'
  BY <1>1, <1>2, <1>4 DEF Agrees, ChosenAgrees, shownLists
<1> QED
  BY <1>3, <1>5 DEF Agrees

\* A dataset leaves the page with its notebooks, and whatever of them is selected.
LEMMA PageDeletesData ==
  ASSUME DatasetsTyped, LoadInv, DatasetsInv, NEW d \in DataIds, DeleteDataset(d)
  PROVE  DatasetsInv'
<1> SUFFICES ASSUME ~lost', ~mixed'  PROVE Agrees'
  BY DEF DatasetsInv
<1>1. Agrees /\ upload.id # d /\ ~Watched(d) /\ d \in shownData /\ InData(d) /\ ~GoesAway(d)
  BY DEF DeleteDataset, DatasetsInv, Watched, Agrees, DataAgree
<1>2. /\ shownData' = shownData \ {d} /\ dataLists' = Late(dataLists)
      /\ shownNotes' = shownNotes \ NotesOf(d) /\ noteLists' = Late(noteLists)
      /\ dropping' = dropping \cup {[kind |-> "dataset", id |-> d]}
      /\ chosenData' = IF chosenData = d THEN 0 ELSE chosenData
      /\ chosenNote' = IF chosenNote \in NotesOf(d) THEN 0 ELSE chosenNote
      /\ UNCHANGED <<dataset, outcome, notebook, copying, upload, watching>>
  BY DEF DeleteDataset, ShowData, ShowNotes, dataServer, loading
<1>3. \A e : /\ (GoesAway(e)' <=> GoesAway(e) \/ e = d) /\ (InData(e)' <=> InData(e))
             /\ (Unlisted(e)' <=> Unlisted(e)) /\ (Watched(e)' <=> Watched(e))
             /\ (LoadOver(e)' <=> LoadOver(e))
  BY <1>2, GoesMore DEF InData, Unlisted, Watched, LoadOver
<1>4. LoadOver(d)
  <2>1. dataset[d].status = "finished"
    BY <1>1 DEF Agrees, WatchAgree
  <2>2. ~lost
    BY DEF DeleteDataset
  <2> QED
    BY <2>1, <2>2, EndedIsOver DEF LoadEnded
<1>5. /\ \A i \in DOMAIN dataLists' : dataLists'[i].late
      /\ \A i \in DOMAIN noteLists' : noteLists'[i].late
      /\ (dataLists' = <<>> => dataLists = <<>>) /\ (noteLists' = <<>> => noteLists = <<>>)
  BY <1>2, LateFacts
<1>6. WatchAgree'
  <2>1. \A w \in watching : w.id # d
    BY <1>1 DEF Watched
  <2> QED
    BY <1>1, <1>2, <1>3, <1>4, <2>1 DEF Agrees, WatchAgree
<1>7. DataAgree'
  BY <1>1, <1>2, <1>3, <1>5 DEF Agrees, DataAgree
<1>8. NoteAgree'
  <2>1. \A n : [kind |-> "notebook", id |-> n] \in dropping'
                <=> [kind |-> "notebook", id |-> n] \in dropping
    <3>1. \A n : [kind |-> "notebook", id |-> n] # [kind |-> "dataset", id |-> d]
      OBVIOUS
    <3> QED
      BY <1>2, <3>1
  <2>2. \A n : NoteGoes(n)' <=> NoteGoes(n) \/ notebook[n] = d
    BY <1>2, <1>3, <2>1 DEF NoteGoes
  <2> QED
    BY <1>1, <1>2, <1>5, <2>2 DEF Agrees, NoteAgree, NotesOf
<1>9. ChosenAgrees'
  <2>1. chosenData' \in {0} \cup shownData' /\ chosenNote' \in {0} \cup shownNotes'
    BY <1>1, <1>2 DEF Agrees, ChosenAgrees
  <2> QED
    BY <1>1, <1>2, <2>1, LateFacts DEF Agrees, ChosenAgrees
<1>10. CopiesAgree'
  BY <1>1, <1>2 DEF Agrees, CopiesAgree
<1> QED
  BY <1>6, <1>7, <1>8, <1>9, <1>10 DEF Agrees

\* So does a notebook.
LEMMA PageDeletesNote ==
  ASSUME DatasetsTyped, DatasetsInv, NEW n \in NoteIds, DeleteNotebookOf(n)
  PROVE  DatasetsInv'
<1> SUFFICES ASSUME ~lost, ~mixed  PROVE Agrees'
  BY DEF DatasetsInv, DeleteNotebookOf
<1>1. Agrees
  BY DEF DatasetsInv
<1>2. /\ shownNotes' = shownNotes \ {n} /\ noteLists' = Late(noteLists)
      /\ dropping' = dropping \cup {[kind |-> "notebook", id |-> n]}
      /\ chosenNote' = (IF chosenNote = n THEN 0 ELSE chosenNote) /\ UNCHANGED chosenData
      /\ UNCHANGED <<dataset, outcome, notebook, copying, shownData, dataLists, upload, watching>>
  BY DEF DeleteNotebookOf, ShowNotes, dataServer, loading
<1>3. \A e : GoesAway(e)' <=> GoesAway(e)
  <2>1. \A e : [kind |-> "dataset", id |-> e] # [kind |-> "notebook", id |-> n]
    OBVIOUS
  <2> QED
    BY <1>2, <2>1 DEF GoesAway
<1>4. \A i \in DOMAIN noteLists' : noteLists'[i].late
  BY <1>2, LateFacts
<1>5. CopiesAgree' /\ WatchAgree' /\ DataAgree'
  BY <1>1, <1>2, <1>3 DEF Agrees, CopiesAgree, WatchAgree, DataAgree, DataListAgrees, Unlisted, Watched,
                          InData, LoadOver
<1>6. NoteAgree'
  <2>1. \A m : NoteGoes(m)' <=> NoteGoes(m) \/ m = n
    <3>1. \A m : [kind |-> "notebook", id |-> m] \in dropping'
                   <=> [kind |-> "notebook", id |-> m] \in dropping \/ m = n
      BY <1>2
    <3> QED
      BY <1>2, <1>3, <3>1 DEF NoteGoes
  <2> QED
    BY <1>1, <1>2, <1>4, <2>1, LateFacts DEF Agrees, NoteAgree
<1>7. ChosenAgrees'
  <2>1. chosenData' \in {0} \cup shownData' /\ chosenNote' \in {0} \cup shownNotes'
    BY <1>1, <1>2 DEF Agrees, ChosenAgrees
  <2> QED
    BY <1>1, <1>2, <2>1, LateFacts DEF Agrees, ChosenAgrees
<1> QED
  BY <1>5, <1>6, <1>7 DEF Agrees

\* The rows that go are those that left the page, and no list on its way has them.
LEMMA PageDrops ==
  ASSUME DatasetsTyped, DatasetsInv, NEW x \in dropping, Dropped(x)
  PROVE  DatasetsInv'
<1> SUFFICES ASSUME ~lost', ~mixed'  PROVE Agrees'
  BY DEF DatasetsInv
<1>1. Agrees
  BY DEF DatasetsInv, Dropped
<1>2. /\ dropping' = dropping \ {x}
      /\ UNCHANGED <<copying, shownLists, chosen, upload, watching, outcome>>
  BY DEF Dropped, loading
<1>3. ChosenAgrees'
  BY <1>1, <1>2 DEF Agrees, ChosenAgrees, shownLists, chosen
<1>4. CASE x.kind = "dataset"
  <2> PICK d : d = x.id
    OBVIOUS
  <2>1. d \in DataIds /\ x = [kind |-> "dataset", id |-> d] /\ GoesAway(d)
    BY <1>4, PageFacts DEF GoesAway
  <2>2. /\ dataset' = [dataset EXCEPT ![d] = noData] /\ copying # d /\ upload.id # d
        /\ notebook' = [n \in NoteIds |-> IF notebook[n] = d THEN 0 ELSE notebook[n]]
    BY <1>4 DEF Dropped
  <2>3. /\ \A e \in DataIds : e # d => dataset'[e] = dataset[e] /\ (InData(e)' <=> InData(e))
        /\ dataset'[d] = noData /\ ~InData(d)'
    BY <2>1, <2>2 DEF DatasetsTyped, DataTyped, InData
  <2>4. \A e : GoesAway(e)' <=> GoesAway(e) /\ e # d
    <3>1. \A e : [kind |-> "dataset", id |-> e] = x <=> e = d
      BY <2>1
    <3> QED
      BY <1>2, <3>1 DEF GoesAway
  <2>5. \A n : [kind |-> "notebook", id |-> n] \in dropping'
                <=> [kind |-> "notebook", id |-> n] \in dropping
    <3>1. \A n : [kind |-> "notebook", id |-> n] # x
      BY <2>1
    <3> QED
      BY <1>2, <3>1
  <2>6. \A n \in NoteIds : /\ notebook'[n] # 0 => notebook[n] # d
                           /\ notebook[n] # d => notebook'[n] = notebook[n]
                           /\ notebook[n] # 0 => notebook[n] \in DataIds
    <3>1. \A n \in NoteIds : notebook'[n] = IF notebook[n] = d THEN 0 ELSE notebook[n]
      BY <2>2
    <3>2. \A n \in NoteIds : notebook[n] # 0 => notebook[n] \in DataIds
      BY DataBounds DEF DatasetsTyped, NotesTyped, DataIds
    <3> QED
      BY <3>1, <3>2
  <2>7. d \notin shownData /\ ~Watched(d) /\ \A w \in watching : w.id \in DataIds \ {d}
    BY <1>1, <2>1, PageFacts DEF Agrees, WatchAgree, DataAgree, Watched
  <2>8. CopiesAgree'
    <3>1. copying # 0 => copying \in DataIds
      BY DataBounds DEF DatasetsTyped, NotesTyped, DataIds
    <3> QED
      BY <1>1, <1>2, <2>2, <2>3, <2>6, <3>1 DEF Agrees, CopiesAgree
  <2>9. WatchAgree'
    <3>1. \A w \in watching : dataset'[w.id].made = w.made
      BY <1>1, <2>3, <2>7 DEF Agrees, WatchAgree
    <3>2. \A e : Watched(e)' <=> Watched(e)
      BY <1>2 DEF Watched
    <3>3. \A e \in DataIds : InData(e)' /\ dataset'[e].status # "finished" =>
            upload'.id = e \/ Watched(e)' \/ GoesAway(e)'
      BY <1>1, <1>2, <2>3, <2>4, <3>2 DEF Agrees, WatchAgree
    <3>4. \A e \in DataIds : GoesAway(e)' => LoadOver(e)' /\ upload'.id # e /\ ~Watched(e)'
      <4>1. \A e \in DataIds : e # d /\ LoadOver(e) => LoadOver(e)'
        BY <1>2, <2>3 DEF LoadOver
      <4> QED
        BY <1>1, <1>2, <2>4, <3>2, <4>1 DEF Agrees, WatchAgree
    <3> QED
      BY <1>1, <1>2, <3>1, <3>3, <3>4 DEF Agrees, WatchAgree, shownLists
  <2>10. DataAgree'
    <3>1. \A i \in DOMAIN dataLists : dataLists[i].late
      BY <1>1, <2>1 DEF Agrees, DataAgree, DataListAgrees
    <3>2. \A e \in shownData : InData(e)' /\ ~GoesAway(e)'
      BY <1>1, <2>3, <2>4, <2>7, PageFacts DEF Agrees, DataAgree
    <3>3. \A e \in DataIds : InData(e)' => e # d /\ InData(e) /\ (GoesAway(e) => GoesAway(e)')
      BY <2>3, <2>4
    <3>4. \A e : Unlisted(e)' <=> Unlisted(e)
      BY <1>2 DEF Unlisted
    <3> QED
      BY <1>1, <1>2, <3>1, <3>2, <3>3, <3>4 DEF Agrees, DataAgree, shownLists
  <2>11. NoteAgree'
    <3>1. \A n \in shownNotes : notebook'[n] # 0 /\ ~NoteGoes(n)'
      <4>1. \A n \in shownNotes : n \in NoteIds /\ notebook[n] # 0 /\ ~NoteGoes(n) /\ notebook[n] # d
        BY <1>1, <2>1, PageFacts DEF Agrees, NoteAgree, NoteGoes
      <4> QED
        BY <2>4, <2>5, <2>6, <4>1 DEF NoteGoes
    <3>2. \A n \in NoteIds : notebook'[n] # 0 =>
            notebook[n] # 0 /\ notebook'[n] = notebook[n] /\ (NoteGoes(n) => NoteGoes(n)')
      <4>1. \A n \in NoteIds : notebook'[n] # 0 => notebook[n] # d /\ notebook'[n] = notebook[n]
        BY <2>6
      <4> QED
        BY <2>4, <2>5, <4>1 DEF NoteGoes
    <3>3. ASSUME NEW i \in DOMAIN noteLists, ~noteLists[i].late  PROVE NoteListAgrees(i)'
      <4>1. NoteListAgrees(i) /\ noteLists[i].rows \subseteq NoteIds
        BY <1>1, <3>3, PageFacts DEF Agrees, NoteAgree
      <4>2. dataset[d].status # "finished"
        BY <4>1 DEF NoteListAgrees
      <4>3. \A n \in NoteIds : notebook[n] # 0 => notebook[n] # d
        BY <1>1, <4>2 DEF Agrees, CopiesAgree
      <4>4. \A n \in noteLists[i].rows : notebook'[n] # 0
        BY <2>6, <4>1, <4>3 DEF NoteListAgrees
      <4>5. \A y \in dropping' : y.kind = "dataset" /\ dataset'[y.id].status # "finished"
        <5>1. ASSUME NEW y \in dropping, y # x
              PROVE  y.kind = "dataset" /\ dataset'[y.id].status # "finished"
          <6>1. y.kind = "dataset" /\ dataset[y.id].status # "finished"
            BY <4>1 DEF NoteListAgrees
          <6>2. y.id \in DataIds /\ y = [kind |-> "dataset", id |-> y.id]
            BY <6>1, PageFacts
          <6>3. y.id # d
            BY <2>1, <5>1, <6>2
          <6> QED
            BY <2>3, <6>1, <6>2, <6>3
        <5> QED
          BY <1>2, <5>1
      <4> QED
        BY <1>2, <3>2, <4>1, <4>4, <4>5 DEF NoteListAgrees, shownLists
    <3> QED
      BY <1>1, <1>2, <3>1, <3>2, <3>3 DEF Agrees, NoteAgree, shownLists
  <2> QED
    BY <1>3, <2>8, <2>9, <2>10, <2>11 DEF Agrees
<1>5. CASE x.kind # "dataset"
  <2> PICK n : n = x.id
    OBVIOUS
  <2>1. n \in NoteIds /\ x = [kind |-> "notebook", id |-> n] /\ NoteGoes(n)
    BY <1>5, PageFacts DEF NoteGoes
  <2>2. notebook' = [notebook EXCEPT ![n] = 0] /\ UNCHANGED dataset
    BY <1>5 DEF Dropped
  <2>3. \A m \in NoteIds : notebook'[m] = IF m = n THEN 0 ELSE notebook[m]
    BY <2>2 DEF DatasetsTyped, NotesTyped
  <2>4. \A e : GoesAway(e)' <=> GoesAway(e)
    <3>1. \A e : [kind |-> "dataset", id |-> e] # x
      BY <2>1
    <3> QED
      BY <1>2, <3>1 DEF GoesAway
  <2>5. CopiesAgree' /\ WatchAgree' /\ DataAgree'
    <3>1. CopiesAgree'
      BY <1>1, <1>2, <2>2, <2>3 DEF Agrees, CopiesAgree
    <3>2. WatchAgree' /\ DataAgree'
      BY <1>1, <1>2, <2>2, <2>4 DEF Agrees, WatchAgree, DataAgree, DataListAgrees, Unlisted, Watched,
                                    InData, LoadOver, shownLists
    <3> QED
      BY <3>1, <3>2
  <2>6. NoteAgree'
    <3>1. \A m \in NoteIds : m # n => (NoteGoes(m)' <=> NoteGoes(m)) /\ notebook'[m] = notebook[m]
      <4>1. \A m : m # n => ([kind |-> "notebook", id |-> m] \in dropping'
                               <=> [kind |-> "notebook", id |-> m] \in dropping)
        BY <1>2, <2>1
      <4> QED
        BY <2>3, <2>4, <4>1 DEF NoteGoes
    <3>2. n \notin shownNotes
      BY <1>1, <2>1 DEF Agrees, NoteAgree
    <3>3. \A i \in DOMAIN noteLists : noteLists[i].late
      BY <1>1, <1>5 DEF Agrees, NoteAgree, NoteListAgrees
    <3>4. notebook'[n] = 0 /\ shownNotes \subseteq NoteIds
      BY <2>1, <2>3, PageFacts
    <3> QED
      BY <1>1, <1>2, <3>1, <3>2, <3>3, <3>4 DEF Agrees, NoteAgree, shownLists
  <2> QED
    BY <1>3, <2>5, <2>6 DEF Agrees
<1> QED
  BY <1>4, <1>5

\* A page that is mounted again asks for all there is.
LEMMA PageReturns ==
  ASSUME DatasetsTyped, DatasetsInv, ReturnToPage
  PROVE  DatasetsInv'
<1> SUFFICES ASSUME ~lost', ~mixed'  PROVE Agrees'
  BY DEF DatasetsInv
<1> PICK l, k : l = DataAnswer(0) /\ k = NoteAnswer(0)
  OBVIOUS
<1>1. /\ Agrees /\ upload = noUpload /\ watching = {}
      /\ upload' = noUpload /\ watching' = {} /\ shownData' = {} /\ shownNotes' = {}
      /\ chosenData' = 0 /\ chosenNote' = 0 /\ dataLists' = <<l>> /\ noteLists' = <<k>>
      /\ UNCHANGED <<dataset, outcome, notebook, copying, dropping>>
  BY DEF ReturnToPage, DatasetsInv, Chooses, dataServer, loading
<1>2. /\ l.rows = {d \in DataIds : InData(d)} /\ l.late = (dropping # {}) /\ l.then = 0
      /\ k.rows = {n \in NoteIds : notebook[n] # 0} /\ k.late = (dropping # {}) /\ k.then = 0
  BY DEF DataAnswer, NoteAnswer, InData
<1>3. /\ DOMAIN dataLists' = {1} /\ dataLists'[1] = l /\ dataLists' # <<>>
      /\ DOMAIN noteLists' = {1} /\ noteLists'[1] = k /\ noteLists' # <<>> /\ Len(noteLists') = 1
  BY <1>1
<1>4. \A e : /\ (GoesAway(e)' <=> GoesAway(e)) /\ (InData(e)' <=> InData(e))
             /\ (LoadOver(e)' <=> LoadOver(e)) /\ ~Watched(e) /\ ~Watched(e)'
  BY <1>1 DEF GoesAway, InData, LoadOver, Watched
<1>5. CopiesAgree'
  BY <1>1 DEF Agrees, CopiesAgree
<1>6. WatchAgree'
  BY <1>1, <1>4 DEF Agrees, WatchAgree, noUpload
<1>7. DataAgree'
  <2>1. ~l.late => \A e : ~GoesAway(e)
    BY <1>2 DEF GoesAway
  <2>2. ~l.late => DataListAgrees(1)'
    BY <1>1, <1>2, <1>3, <1>4, <2>1 DEF DataListAgrees
  <2> QED
    BY <1>1, <1>3, <2>2 DEF DataAgree
<1>8. NoteAgree'
  <2>1. ~k.late => NoteListAgrees(1)'
    BY <1>1, <1>2, <1>3 DEF NoteListAgrees
  <2> QED
    BY <1>1, <1>3, <2>1 DEF NoteAgree
<1>9. ChosenAgrees'
  BY <1>1, <1>2, <1>3 DEF ChosenAgrees
<1> QED
  BY <1>5, <1>6, <1>7, <1>8, <1>9 DEF Agrees

\* The page stays in agreement with the tables.
LEMMA DatasetsStepHolds ==
  DatasetsTyped /\ LoadInv /\ DatasetsInv /\ [DatasetsPageNext]_datasetsPageVars => DatasetsInv'
<1> SUFFICES ASSUME DatasetsTyped, LoadInv, DatasetsInv, [DatasetsPageNext]_datasetsPageVars  PROVE DatasetsInv'
  OBVIOUS
<1>1. CASE UNCHANGED datasetsPageVars
  <2>1. 1 \in DataIds
    BY DataBounds DEF DataIds
  <2> QED
    BY <1>1, <2>1, PageStatus DEF datasetsPageVars, dataServer, loading, InData, LoadOver
<1>2. CASE \E from \in {0} \cup NoteIds : CreateDataset(from)
  BY <1>2, PageCreates
<1>3. CASE DatasetListed \/ EnqueueLoad
  BY <1>3, PageLists, PageEnqueues
<1>4. CASE TakeLoad \/ SaveLoad \/ LoadRaises \/ StoreLoad
  BY <1>4, PageLoads
<1>5. CASE \E w \in watching : LoadSucceeded(w) \/ LoadFailed(w)
  BY <1>5, PageFetches, PageFails
<1>6. CASE DataListArrives \/ NoteListArrives
  BY <1>6, PageDataArrives, PageNotesArrive
<1>7. CASE (\E d \in DataIds : CopyBegins(d)) \/ CopyEnds
  BY <1>7, PageCopies
<1>8. CASE (\E d \in {0} \cup DataIds : ChooseDataset(d)) \/ (\E n \in NoteIds : ChooseNotebook(n))
  BY <1>8, PageClicks
<1>9. CASE \/ \E d \in DataIds : DeleteDataset(d)
           \/ \E n \in NoteIds : DeleteNotebookOf(n)
  BY <1>9, PageDeletesData, PageDeletesNote
<1>10. CASE \E x \in dropping : Dropped(x)
  BY <1>10, PageDrops
<1>11. CASE ReturnToPage
  BY <1>11, PageReturns
<1> QED
  BY <1>1, <1>2, <1>3, <1>4, <1>5, <1>6, <1>7, <1>8, <1>9, <1>10, <1>11 DEF DatasetsPageNext

\* The tables, the loads and the page agree at all times.
LEMMA PageAgrees == DatasetsPageSpec => [](DatasetsTyped /\ DatasetsInv)
  BY PageTypedInit, PageTypedStep, LoadInit, LoadStep, DatasetsInitHolds, DatasetsStepHolds, PTL DEF DatasetsPageSpec

\* At rest the page lists what the server has, and no dataset whose load
\* failed: what is missing from its lists is on its way out or in, and a list
\* that was asked for is overtaken by no step that does not mark it late.
THEOREM ListsAreTablesHolds == DatasetsPageSpec => []ListsAreTables
<1>1. DatasetsTyped /\ DatasetsInv => ListsAreTables
  <2> SUFFICES ASSUME DatasetsTyped, DatasetsInv, PageAtRest, ~lost, ~mixed
               PROVE  /\ shownData = {d \in DataIds : dataset[d] # noData}
                      /\ shownNotes = {n \in NoteIds : notebook[n] # 0}
                      /\ \A d \in shownData : dataset[d].status = "finished"
    BY DEF ListsAreTables
  <2>1. /\ Agrees /\ upload = noUpload /\ watching = {} /\ dropping = {} /\ dataLists = <<>>
        /\ noteLists = <<>>
    BY DEF DatasetsInv, PageAtRest
  <2>2. \A e : ~GoesAway(e) /\ ~NoteGoes(e) /\ ~Unlisted(e) /\ ~Watched(e)
    BY <2>1 DEF GoesAway, NoteGoes, Unlisted, Watched, noUpload
  <2>3. shownData = {d \in DataIds : InData(d)}
    BY <2>1, <2>2, PageFacts DEF Agrees, DataAgree
  <2>4. shownNotes = {n \in NoteIds : notebook[n] # 0}
    BY <2>1, <2>2, PageFacts DEF Agrees, NoteAgree
  <2>5. \A d \in DataIds : InData(d) => dataset[d].status = "finished"
    BY <2>1, <2>2, PageFacts DEF Agrees, WatchAgree, noUpload
  <2> QED
    BY <2>3, <2>4, <2>5 DEF InData
<1> QED
  BY <1>1, PageAgrees, PTL

\* At rest the dataset and the notebook that are selected are in their lists;
\* so is, at all times, what a list on its way will select.
THEOREM ChosenIsListedHolds == DatasetsPageSpec => []ChosenIsListed
<1>1. DatasetsInv => ChosenIsListed
  BY DEF DatasetsInv, Agrees, ChosenAgrees, ChosenIsListed
<1> QED
  BY <1>1, PageAgrees, PTL
-----------------------------------------------------------------------------
(* The third part: the metrics of one run.  Of the trainer the socket needs *)
(* only that timestamps grow: in which order the query lists its rows, and  *)
(* so which of them the cursor is taken from, makes no difference.  That    *)
(* steps grow too rests on the counters, which a reset of the run may leave *)
(* ahead of the table, never behind it.                                     *)
UpTo(t) == {m \in metrics : m.at <= t}

\* Timestamps are in the past.
Timed ==
  /\ now \in Nat
  /\ \A m \in metrics : m.at \in 1..now

Shaped ==
  /\ socket = [step |-> socket.step, cursor |-> socket.cursor, read |-> socket.read,
               closed |-> socket.closed]
  /\ socket.cursor \in 0..now /\ socket.closed \in 0..now

\* Between the two queries what is not in the chart was read.
Sending ==
  /\ socket.step = "open" => UpTo(socket.cursor) \subseteq chart
  /\ socket.step = "read" => UpTo(socket.cursor) \subseteq chart \cup socket.read
  /\ socket.step = "read" /\ ~torn => metrics \subseteq chart \cup socket.read
  /\ socket.step = "closed" /\ ~torn => UpTo(socket.closed) \subseteq chart

MetricsInv == Timed /\ Shaped /\ Sending

-----------------------------------------------------------------------------
LEMMA MetricsInitHolds == LiveMetricsInit => MetricsInv
  BY DEF LiveMetricsInit, MetricsInv, Timed, Shaped, Sending, noSocket

\* Rows that go, or stay, with browser and clock as they are.
LEMMA FewerRows ==
  ASSUME MetricsInv, metrics' \subseteq metrics, UNCHANGED <<now, browser>>
  PROVE  MetricsInv'
  BY DEF MetricsInv, Timed, Shaped, Sending, UpTo, browser

LEMMA MetricsStepHolds == MetricsInv /\ [LiveMetricsNext]_liveMetricsVars => MetricsInv'
<1> SUFFICES ASSUME MetricsInv, [LiveMetricsNext]_liveMetricsVars  PROVE MetricsInv'
  OBVIOUS
<1>1. ASSUME NEW l \in Levels, NEW index \in 0..MaxIndex, LogMetric(l, index)  PROVE MetricsInv'
  <2>1. PICK row : row.at = now + 1 /\ metrics' = metrics \cup {row}
    BY <1>1 DEF LogMetric
  <2>2. /\ now' = now + 1 /\ UNCHANGED <<socket, chart>>
        /\ (socket.step = "read" => torn') /\ (torn => torn')
    BY <1>1 DEF LogMetric
  <2>3. Timed' /\ Shaped'
    BY <2>1, <2>2 DEF MetricsInv, Timed, Shaped
  <2>4. UpTo(socket.cursor)' = UpTo(socket.cursor) /\ UpTo(socket.closed)' = UpTo(socket.closed)
    BY <2>1, <2>2 DEF MetricsInv, Timed, Shaped, UpTo
  <2>5. Sending'
    BY <2>2, <2>4 DEF MetricsInv, Sending
  <2> QED
    BY <2>3, <2>5 DEF MetricsInv
<1>2. CASE StartTraining
  BY <1>2, FewerRows DEF StartTraining
<1>3. CASE TrainingStops
  BY <1>3, FewerRows DEF TrainingStops
<1>4. CASE TrainAgain
  BY <1>4, FewerRows DEF TrainAgain
<1>5. CASE DeleteTheRun
  BY <1>5, FewerRows DEF DeleteTheRun
<1>6. CASE OpenSocket
  <2>1. /\ UNCHANGED <<metrics, now, torn>>
        /\ socket' = [step |-> "open", cursor |-> 0, read |-> {}, closed |-> 0]
    BY <1>6 DEF OpenSocket, noSocket, training
  <2>2. Timed' /\ Shaped'
    BY <2>1 DEF MetricsInv, Timed, Shaped
  <2>3. UpTo(socket.cursor)' = {}
    BY <2>1 DEF MetricsInv, Timed, UpTo
  <2> QED
    BY <2>1, <2>2, <2>3 DEF MetricsInv, Sending
<1>7. CASE QueryMetrics
  <2> DEFINE rows == {m \in metrics : m.at > socket.cursor}
  <2>1. UNCHANGED <<metrics, now, chart, torn>> /\ socket.step = "open"
    BY <1>7 DEF QueryMetrics
  <2>2. PICK cursor \in 0..now : socket' = [socket EXCEPT !.step = "read", !.read = rows, !.cursor = cursor]
    BY <1>7 DEF QueryMetrics, Reads
  <2>3. socket' = [step |-> "read", cursor |-> cursor, read |-> rows, closed |-> socket.closed]
    BY <2>2 DEF MetricsInv, Shaped
  <2>4. Timed' /\ Shaped'
    BY <2>1, <2>3 DEF MetricsInv, Timed, Shaped
  <2>5. metrics \subseteq chart \cup rows
    BY <2>1 DEF MetricsInv, Timed, Shaped, Sending, UpTo
  <2> QED
    BY <2>1, <2>3, <2>4, <2>5 DEF MetricsInv, Sending, UpTo
<1>8. CASE SendRows
  <2>1. UNCHANGED <<metrics, now, torn>> /\ chart' = chart \cup socket.read /\ socket.step = "read"
    BY <1>8 DEF SendRows
  <2>2. CASE Ended
    <3>1. socket' = [step |-> "closed", cursor |-> socket.cursor, read |-> {}, closed |-> now]
      BY <1>8, <2>2 DEF SendRows, MetricsInv, Shaped
    <3>2. Timed' /\ Shaped'
      BY <2>1, <3>1 DEF MetricsInv, Timed, Shaped
    <3> QED
      BY <2>1, <3>1, <3>2 DEF MetricsInv, Sending, UpTo
  <2>3. CASE ~Ended
    <3>1. socket' = [step |-> "open", cursor |-> socket.cursor, read |-> {}, closed |-> 0]
      BY <1>8, <2>3 DEF SendRows, MetricsInv, Shaped
    <3>2. Timed' /\ Shaped'
      BY <2>1, <3>1 DEF MetricsInv, Timed, Shaped
    <3> QED
      BY <2>1, <3>1, <3>2 DEF MetricsInv, Sending, UpTo
  <2> QED
    BY <2>2, <2>3
<1>9. CASE UNCHANGED liveMetricsVars
  BY <1>9, FewerRows DEF liveMetricsVars
<1> QED
  BY <1>1, <1>2, <1>3, <1>4, <1>5, <1>6, <1>7, <1>8, <1>9 DEF LiveMetricsNext

LEMMA MetricsInvariance == LiveMetricsSpec => []MetricsInv
  BY MetricsInitHolds, MetricsStepHolds, PTL DEF LiveMetricsSpec

-----------------------------------------------------------------------------
\* Of what its cursor has passed the socket has sent everything, whatever the
\* levels count and in whatever order their rows are listed.
THEOREM CursorCoversHolds == LiveMetricsSpec => []CursorCovers
<1>1. MetricsInv => CursorCovers
  BY DEF MetricsInv, Sending, CursorCovers, UpTo
<1> QED
  BY <1>1, MetricsInvariance, PTL

\* A socket that the server closed has sent the rows of the run, unless some
\* came between its last two queries.
THEOREM ClosedHasAllHolds == LiveMetricsSpec => []ClosedHasAll
<1>1. MetricsInv => ClosedHasAll
  BY DEF MetricsInv, Sending, ClosedHasAll, UpTo
<1> QED
  BY <1>1, MetricsInvariance, PTL

-----------------------------------------------------------------------------
(* The steps of a level *)

\* The steps of a level have a bound, so that CounterOf finds a last one, and
\* the one before it.
Bounded(l) == \E n \in Nat : StepsOf(l) \subseteq 0..n

\* What CounterOf reads from the table is a number that no member exceeds.
LEMMA TopOf ==
  ASSUME NEW n \in Nat, NEW S \in SUBSET (0..n)
  PROVE  Max({0} \cup S) \in Nat /\ \A s \in S : s <= Max({0} \cup S)
<1>1. {0} \cup S \in SUBSET (0..n) /\ {0} \cup S # {}
  OBVIOUS
<1> DEFINE top == Max({0} \cup S)
<1>2. top \in {0} \cup S /\ \A s \in {0} \cup S : s <= top
  BY <1>1, MaxIsMax
<1> HIDE DEF top
<1>3. top \in Nat /\ \A s \in S : s <= top
  BY <1>1, <1>2
<1> QED
  BY <1>3 DEF top

\* A counter that is stuck goes on by one at least.
LEMMA GapIs ==
  ASSUME NEW a \in Nat, NEW b \in Nat
  PROVE  Max({1, a - b}) \in Nat \ {0}
<1> DEFINE top == IF a - b > 1 THEN a - b ELSE 1
<1>1. top \in {1, a - b} /\ \A x \in {1, a - b} : top >= x
  OBVIOUS
<1>2. Max({1, a - b}) \in {1, a - b} /\ \A x \in {1, a - b} : Max({1, a - b}) >= x
  BY <1>1 DEF Max
<1> QED
  BY <1>2

\* A model's counter is not behind the rows of its level.
CounterLeads(l) ==
  counters[l] # unset =>
    /\ counters[l].current \in Nat /\ counters[l].previous \in Nat
    /\ \A s \in StepsOf(l) : s <= counters[l].current

Counted ==
  /\ DOMAIN counters = Levels
  /\ \A l \in Levels : Bounded(l) /\ CounterLeads(l)

StepInv == Timed /\ Counted /\ OneRowPerStep

\* The next step of a level is later than every row of it.
LEMMA NextStepLater ==
  ASSUME Counted, NEW l \in Levels, NEW index \in Nat
  PROVE  /\ NextStep(CounterOf(l), index) \in Nat
         /\ CounterOf(l).current \in Nat
         /\ \A s \in StepsOf(l) : s < NextStep(CounterOf(l), index)
<1> DEFINE c == CounterOf(l)
<1>1. /\ c.current \in Nat /\ c.previous \in Nat
      /\ \A s \in StepsOf(l) : s <= c.current
      /\ StepsOf(l) \subseteq Nat
  <2>0. StepsOf(l) \subseteq Nat
    BY DEF Counted, Bounded
  <2>1. CASE counters[l] # unset
    BY <2>0, <2>1 DEF CounterOf, Counted, CounterLeads
  <2>2. CASE counters[l] = unset
    <3> DEFINE last == Max({0} \cup StepsOf(l))
               before == Max({0} \cup (StepsOf(l) \ {last}))
    <3>1. PICK n \in Nat : StepsOf(l) \in SUBSET (0..n)
      BY DEF Counted, Bounded
    <3>2. last \in Nat /\ \A s \in StepsOf(l) : s <= last
      BY <3>1, TopOf
    <3>4. StepsOf(l) \ {last} \in SUBSET (0..n)
      BY <3>1
    <3>5. before \in Nat
      BY <3>1, <3>4, TopOf
    <3>3. c = [current |-> last, previous |-> before]
      BY <2>2 DEF CounterOf
    <3> HIDE DEF last, before, c
    <3> QED  BY <2>0, <3>2, <3>3, <3>5
  <2> QED  BY <2>1, <2>2
<1> HIDE DEF c
<1>2. CASE index > c.current
  BY <1>1, <1>2 DEF NextStep, c
<1>3. CASE ~(index > c.current)
  <2> DEFINE gap == Max({1, c.current - c.previous})
  <2>2. gap \in Nat \ {0}
    BY <1>1, GapIs
  <2>3. NextStep(c, index) = c.current + gap
    BY <1>3 DEF NextStep
  <2> HIDE DEF gap
  <2> QED  BY <1>1, <2>2, <2>3 DEF c
<1> QED
  BY <1>2, <1>3

\* A row that is later, in time and in steps, than those of its level.
LEMMA RowAdded ==
  ASSUME Timed, Counted, OneRowPerStep, NEW l \in Levels, NEW step \in Nat,
         \A s \in StepsOf(l) : s < step,
         metrics' = metrics \cup {[level |-> l, step |-> step, at |-> now + 1]}
  PROVE  /\ \A k \in Levels \ {l} : StepsOf(k)' = StepsOf(k)
         /\ StepsOf(l)' = StepsOf(l) \cup {step}
         /\ Bounded(l)'
         /\ OneRowPerStep'
<1> DEFINE row == [level |-> l, step |-> step, at |-> now + 1]
<1>0. /\ metrics' = metrics \cup {row}
      /\ row.level = l /\ row.step = step /\ row.at = now + 1
  OBVIOUS
<1> HIDE DEF row
<1>1. /\ \A k \in Levels \ {l} : StepsOf(k)' = StepsOf(k)
      /\ StepsOf(l)' = StepsOf(l) \cup {step}
  BY <1>0 DEF StepsOf
<1>2. PICK b \in Nat : StepsOf(l) \subseteq 0..b
  BY DEF Counted, Bounded
<1>3. Bounded(l)'
  <2>1. StepsOf(l)' \subseteq 0..(b + step)
    BY <1>1, <1>2
  <2> QED  BY <2>1 DEF Bounded
<1>5. OneRowPerStep'
  <2> SUFFICES ASSUME NEW m \in metrics', NEW n \in metrics', m.level = n.level, m.at < n.at
               PROVE  m.step < n.step
    BY DEF OneRowPerStep
  <2>1. m \in metrics
    BY <1>0 DEF Timed
  <2>2. CASE n \in metrics
    BY <2>1, <2>2 DEF OneRowPerStep
  <2>3. CASE n \notin metrics
    <3>1. n.level = l /\ n.step = step
      BY <1>0, <2>3
    <3> QED  BY <2>1, <3>1 DEF StepsOf
  <2> QED  BY <2>2, <2>3
<1> QED
  BY <1>1, <1>3, <1>5

\* A table that keeps its rows or loses them all.
LEMMA TableKeptOrEmptied ==
  ASSUME StepInv, metrics' = metrics \/ metrics' = {}, now' = now,
         counters' = counters \/ counters' = [l \in Levels |-> unset]
  PROVE  StepInv'
<1>1. Timed' /\ OneRowPerStep' /\ DOMAIN counters' = Levels
  BY DEF StepInv, Timed, OneRowPerStep, Counted
<1>2. ASSUME NEW l \in Levels  PROVE Bounded(l)' /\ CounterLeads(l)'
  <2>1. Bounded(l) /\ CounterLeads(l)
    BY DEF StepInv, Counted
  <2>2. CASE metrics' = metrics
    <3>1. StepsOf(l)' = StepsOf(l)
      BY <2>2 DEF StepsOf
    <3>2. Bounded(l)'
      BY <2>1, <3>1 DEF Bounded
    <3>3. counters'[l] = counters[l] \/ counters'[l] = unset
      OBVIOUS
    <3> QED  BY <2>1, <3>1, <3>2, <3>3 DEF CounterLeads
  <2>3. CASE metrics' = {}
    <3>1. StepsOf(l)' = {}
      BY <2>3 DEF StepsOf
    <3>2. Bounded(l)'
      BY <3>1 DEF Bounded
    <3>3. counters'[l] = counters[l] \/ counters'[l] = unset
      OBVIOUS
    <3> QED  BY <2>1, <3>1, <3>2, <3>3 DEF CounterLeads
  <2> QED  BY <2>2, <2>3
<1> QED
  BY <1>1, <1>2 DEF StepInv, Counted

\* Nothing is logged at first.
LEMMA InitSteps == LiveMetricsInit => StepInv
<1> SUFFICES ASSUME LiveMetricsInit  PROVE StepInv
  OBVIOUS
<1>1. ASSUME NEW l \in Levels  PROVE Bounded(l) /\ CounterLeads(l)
  <2>1. StepsOf(l) = {}
    BY DEF LiveMetricsInit, StepsOf
  <2>2. counters[l] = unset
    BY DEF LiveMetricsInit
  <2> QED  BY <2>1, <2>2 DEF Bounded, CounterLeads
<1> QED
  BY <1>1 DEF LiveMetricsInit, StepInv, Timed, Counted, OneRowPerStep

\* Every step of the trainer, the user and the socket keeps it.
LEMMA StepsRise == StepInv /\ [LiveMetricsNext]_liveMetricsVars => StepInv'
<1> SUFFICES ASSUME StepInv, [LiveMetricsNext]_liveMetricsVars  PROVE StepInv'
  OBVIOUS
<1>1. ASSUME NEW l \in Levels, NEW index \in 0..MaxIndex, LogMetric(l, index)  PROVE StepInv'
  <2> DEFINE step == NextStep(CounterOf(l), index)
             last == CounterOf(l).current
  <2>1. /\ metrics' = metrics \cup {[level |-> l, step |-> step, at |-> now + 1]}
        /\ now' = now + 1
        /\ counters' = [counters EXCEPT ![l] = [current |-> step, previous |-> last]]
    BY <1>1 DEF LogMetric
  <2>2. step \in Nat /\ last \in Nat /\ \A s \in StepsOf(l) : s < step
    BY NextStepLater DEF StepInv
  <2> HIDE DEF step, last
  <2>3. /\ \A k \in Levels \ {l} : StepsOf(k)' = StepsOf(k)
        /\ StepsOf(l)' = StepsOf(l) \cup {step}
        /\ Bounded(l)'
        /\ OneRowPerStep'
    BY <2>1, <2>2, RowAdded DEF StepInv
  <2>4. Timed'
    BY <2>1 DEF StepInv, Timed
  <2>5. DOMAIN counters' = Levels
    BY <2>1 DEF StepInv, Counted
  <2>6. ASSUME NEW k \in Levels  PROVE Bounded(k)' /\ CounterLeads(k)'
    <3>1. CASE k = l
      <4>1. counters'[l] = [current |-> step, previous |-> last]
        BY <2>1 DEF StepInv, Counted
      <4>2. PICK n \in Nat : StepsOf(l) \subseteq 0..n
        BY DEF StepInv, Counted, Bounded
      <4>3. \A s \in StepsOf(l)' : s <= step
        BY <2>2, <2>3, <4>2
      <4> QED  BY <2>2, <2>3, <3>1, <4>1, <4>3 DEF CounterLeads
    <3>2. CASE k # l
      <4>1. counters'[k] = counters[k] /\ StepsOf(k)' = StepsOf(k)
        BY <2>1, <2>3, <3>2 DEF StepInv, Counted
      <4>2. Bounded(k) /\ CounterLeads(k)
        BY DEF StepInv, Counted
      <4> QED  BY <4>1, <4>2 DEF Bounded, CounterLeads
    <3> QED  BY <3>1, <3>2
  <2> QED  BY <2>3, <2>4, <2>5, <2>6 DEF StepInv, Counted
<1>2. CASE StartTraining
  BY <1>2, TableKeptOrEmptied DEF StartTraining
<1>3. CASE TrainingStops
  BY <1>3, TableKeptOrEmptied DEF TrainingStops
<1>4. CASE TrainAgain
  BY <1>4, TableKeptOrEmptied DEF TrainAgain
<1>5. CASE DeleteTheRun
  BY <1>5, TableKeptOrEmptied DEF DeleteTheRun
<1>6. CASE OpenSocket \/ QueryMetrics \/ SendRows
  <2>1. UNCHANGED <<metrics, now, counters>>
    BY <1>6 DEF OpenSocket, QueryMetrics, SendRows, training
  <2> QED  BY <2>1, TableKeptOrEmptied
<1>7. CASE UNCHANGED liveMetricsVars
  BY <1>7, TableKeptOrEmptied DEF liveMetricsVars, training
<1> QED
  BY <1>1, <1>2, <1>3, <1>4, <1>5, <1>6, <1>7 DEF LiveMetricsNext

\* Later rows of a level have later steps, whatever indices the model logs
\* with and whenever the run is reset, deleted or trained again.
THEOREM OneRowPerStepHolds == LiveMetricsSpec => []OneRowPerStep
<1>1. StepInv => OneRowPerStep
  BY DEF StepInv
<1> QED
  BY <1>1, InitSteps, StepsRise, PTL DEF LiveMetricsSpec

-----------------------------------------------------------------------------
\* The splits of a dataset.  A sequence that puts numbers in order:
Rises(s, n) == \A i, j \in 1..n : i < j => s[i] < s[j]

\* The elements of a set of numbers can be put in order: the largest goes last.
LEMMA OrderExists ==
  ASSUME NEW b \in Nat
  PROVE  \A S \in SUBSET (0..b) : \E s \in [1..Cardinality(S) -> S] : Rises(s, Cardinality(S))
<1> DEFINE Ordered(S) == \E s \in [1..Cardinality(S) -> S] : Rises(s, Cardinality(S))
           Bad == {n \in Nat : \E S \in SUBSET (0..b) : Cardinality(S) = n /\ ~Ordered(S)}
           R == {ss \in Nat \X Nat : ss[1] < ss[2]}
<1>1. ASSUME NEW S \in SUBSET (0..b)  PROVE IsFiniteSet(S) /\ Cardinality(S) \in Nat
  <2>1. IsFiniteSet(0..b)
    BY FS_Interval
  <2>2. IsFiniteSet(S)
    BY <2>1, FS_Subset
  <2> QED  BY <2>2, FS_CardinalityType
<1>2. SUFFICES ASSUME Bad # {}  PROVE FALSE
  BY <1>1
<1>3. PICK n \in Bad : \A m \in Bad : ~(<<m, n>> \in R)
  <2> HIDE DEF Bad, R
  <2>1. IsWellFoundedOn(R, Nat)
    BY LessIsWellFounded DEF R
  <2>2. Bad \subseteq Nat
    BY DEF Bad
  <2> QED  BY <1>2, <2>1, <2>2, WFMin
<1>4. n \in Nat /\ \A m \in Nat : m < n => m \notin Bad
  BY <1>3
<1>5. PICK S \in SUBSET (0..b) : Cardinality(S) = n /\ ~Ordered(S)
  BY <1>3
<1> HIDE DEF Bad, R
<1>6. n # 0
  <2> SUFFICES ASSUME n = 0  PROVE FALSE
    OBVIOUS
  <2>1. S = {}
    BY <1>1, <1>5, FS_EmptySet
  <2>2. 1..Cardinality(S) = {}
    BY <1>5
  <2> DEFINE s == [i \in {} |-> 0]
  <2>3. s \in [1..Cardinality(S) -> S] /\ Rises(s, Cardinality(S))
    BY <2>2 DEF Rises
  <2> QED  BY <1>5, <2>3
<1>7. S # {}
  BY <1>5, <1>6, FS_EmptySet
<1> DEFINE top == Max(S)
           rest == S \ {top}
<1>8. top \in S /\ \A y \in S : y <= top
  BY <1>7, MaxIsMax
<1>9. rest \in SUBSET (0..b) /\ Cardinality(rest) = n - 1 /\ n - 1 \in Nat
  <2>1. Cardinality(rest) = n - 1
    BY <1>1, <1>5, <1>8, FS_RemoveElement
  <2>2. rest \in SUBSET (0..b) /\ n - 1 \in Nat
    <3>1. n - 1 \in Nat
      BY <1>4, <1>6
    <3>2. \A x \in rest : x \in 0..b
      OBVIOUS
    <3> QED  BY <3>1, <3>2
  <2> QED  BY <2>1, <2>2
<1> HIDE DEF top
<1>10. Ordered(rest)
  <2>1. n - 1 \notin Bad
    BY <1>4, <1>9
  <2> QED  BY <1>9, <2>1 DEF Bad
<1>11. PICK s \in [1..(n - 1) -> rest] : Rises(s, n - 1)
  BY <1>9, <1>10
<1> DEFINE t == [i \in 1..n |-> IF i = n THEN top ELSE s[i]]
<1>12. ASSUME NEW i \in 1..n  PROVE t[i] \in S /\ (i < n => t[i] = s[i] /\ s[i] < top)
  <2>1. CASE i = n
    BY <1>8, <2>1
  <2>2. CASE i # n
    <3>1. i \in 1..(n - 1)
      BY <1>4, <2>2
    <3>2. s[i] \in S /\ s[i] # top
      BY <1>11, <3>1
    <3>3. s[i] <= top
      BY <1>8, <3>2
    <3>4. s[i] \in 0..b /\ top \in 0..b
      BY <1>8, <3>2
    <3> QED  BY <2>2, <3>2, <3>3, <3>4
  <2> QED  BY <2>1, <2>2
<1>13. t \in [1..n -> S]
  BY <1>12
<1>14. ASSUME NEW i \in 1..n, NEW j \in 1..n, i < j  PROVE t[i] < t[j]
  <2>1. i \in 1..(n - 1) /\ t[i] = s[i] /\ s[i] < top
    BY <1>4, <1>12, <1>14
  <2>2. CASE j = n
    BY <2>1, <2>2
  <2>3. CASE j # n
    <3>1. j \in 1..(n - 1) /\ t[j] = s[j]
      BY <1>4, <1>12, <2>3
    <3> QED  BY <1>11, <1>14, <2>1, <3>1 DEF Rises
  <2> QED  BY <2>2, <2>3
<1> HIDE DEF t
<1> QED
  BY <1>5, <1>13, <1>14 DEF Rises

\* Ascending has all elements of its set.
LEMMA AscendingHasAll ==
  ASSUME NEW b \in Nat, NEW S \in SUBSET (0..b)
  PROVE  /\ Cardinality(S) \in Nat
         /\ Ascending(S) \in [1..Cardinality(S) -> S]
         /\ \A x \in S : \E i \in 1..Cardinality(S) : Ascending(S)[i] = x
<1> DEFINE n == Cardinality(S)
           s == Ascending(S)
<1>1. IsFiniteSet(S) /\ n \in Nat
  <2>1. IsFiniteSet(0..b)
    BY FS_Interval
  <2>2. IsFiniteSet(S)
    BY <2>1, FS_Subset
  <2> QED  BY <2>2, FS_CardinalityType
<1>2. s \in [1..n -> S] /\ \A i, j \in 1..n : i < j => s[i] < s[j]
  <2>1. \E f \in [1..n -> S] : \A i, j \in 1..n : i < j => f[i] < f[j]
    BY OrderExists DEF Rises
  <2> QED  BY <2>1 DEF Ascending
<1> HIDE DEF s
<1>3. ASSUME NEW x \in S, \A i \in 1..n : s[i] # x  PROVE FALSE
  <2>1. IsFiniteSet(S \ {x}) /\ Cardinality(S \ {x}) = n - 1
    BY <1>1, FS_RemoveElement
  <2>2. IsFiniteSet(1..n) /\ Cardinality(1..n) = n
    <3>1. n # 0
      BY <1>1, <1>3, FS_EmptySet
    <3> QED  BY <1>1, <3>1, FS_Interval
  <2>3. s \in [1..n -> S \ {x}]
    BY <1>2, <1>3
  <2>4. Cardinality(S \ {x}) < Cardinality(1..n)
    BY <1>1, <2>1, <2>2
  <2> HIDE DEF n
  <2>5. \E i, j \in 1..n : i # j /\ s[i] = s[j]
    <3> DEFINE A == 1..n
               B == S \ {x}
    <3>1. /\ IsFiniteSet(A) /\ IsFiniteSet(B) /\ s \in [A -> B]
          /\ Cardinality(B) < Cardinality(A)
      BY <2>1, <2>2, <2>3, <2>4
    <3> HIDE DEF A, B
    <3>2. \E i, j \in A : i # j /\ s[i] = s[j]
      BY <3>1, FS_PigeonHole
    <3> QED  BY <3>2 DEF A
  <2>6. PICK i \in 1..n, j \in 1..n : i # j /\ s[i] = s[j]
    BY <2>5
  <2>7. s[i] \in 0..b /\ s[j] \in 0..b
    <3>1. s[i] \in S /\ s[j] \in S
      BY <1>2 DEF n
    <3> QED  BY <3>1
  <2>8. i < j \/ j < i
    BY <2>6
  <2> QED  BY <1>2, <2>6, <2>7, <2>8
<1> QED
  BY <1>1, <1>2, <1>3 DEF s

\* Filtering a table gives rows of it, and all that the mask lets through.
LEMMA RowsAtOfTable ==
  ASSUME NEW T, NEW table \in Seq(T), NEW indexes
  PROVE  /\ RowsAt(table, indexes) \in Seq(T)
         /\ \A x \in T : Has(RowsAt(table, indexes), x)
                           <=> \E k \in 1..Len(table) : k - 1 \in indexes /\ table[k] = x
<1> DEFINE masked == {k \in 1..Len(table) : k - 1 \in indexes}
           n == Cardinality(masked)
           at == Ascending(masked)
           rows == [i \in 1..n |-> table[at[i]]]
<1>1. RowsAt(table, indexes) = rows
  BY DEF RowsAt
<1>2. Len(table) \in Nat /\ masked \in SUBSET (0..Len(table))
  OBVIOUS
<1>3. /\ n \in Nat /\ at \in [1..n -> masked]
      /\ \A k \in masked : \E i \in 1..n : at[i] = k
  <2> HIDE DEF masked
  <2> QED  BY <1>2, AscendingHasAll
<1> HIDE DEF at, n
<1>4. \A i \in 1..n : at[i] \in 1..Len(table) /\ at[i] - 1 \in indexes
  BY <1>3
<1>5. \A k \in 1..Len(table) : table[k] \in T
  OBVIOUS
<1>6. rows \in [1..n -> T]
  BY <1>4, <1>5
<1>7. rows \in Seq(T) /\ Len(rows) = n
  BY <1>3, <1>6
<1>8. ASSUME NEW x \in T
      PROVE  Has(rows, x) <=> \E k \in 1..Len(table) : k - 1 \in indexes /\ table[k] = x
  <2>1. ASSUME NEW i \in 1..n, rows[i] = x
        PROVE  \E k \in 1..Len(table) : k - 1 \in indexes /\ table[k] = x
    BY <1>4, <2>1
  <2>2. ASSUME NEW k \in 1..Len(table), k - 1 \in indexes, table[k] = x
        PROVE  \E i \in 1..n : rows[i] = x
    <3>1. PICK i \in 1..n : at[i] = k
      BY <1>3, <2>2
    <3> QED  BY <2>2, <3>1
  <2> HIDE DEF rows
  <2> QED  BY <1>7, <2>1, <2>2 DEF Has
<1> HIDE DEF rows
<1> QED
  BY <1>1, <1>7, <1>8

\* So a part of the dataset has the rows of its list, those of them that there are.
LEMMA RowsOfDataset ==
  ASSUME NEW n \in Nat, NEW I
  PROVE  /\ Table(n) \in Seq(0..n) /\ Len(Table(n)) = n
         /\ RowsAt(Table(n), I) \in Seq(0..n)
         /\ \A row \in 0..(n - 1) : Has(RowsAt(Table(n), I), row) <=> row \in I
<1> DEFINE t == Table(n)
<1>1. t \in Seq(0..n) /\ Len(t) = n /\ \A k \in 1..n : t[k] = k - 1
  BY DEF Table
<1> HIDE DEF t
<1>2. /\ RowsAt(t, I) \in Seq(0..n)
      /\ \A x \in 0..n : Has(RowsAt(t, I), x) <=> \E k \in 1..Len(t) : k - 1 \in I /\ t[k] = x
  <2> DEFINE T == 0..n
  <2>1. t \in Seq(T)
    BY <1>1
  <2> HIDE DEF T
  <2>2. /\ RowsAt(t, I) \in Seq(T)
        /\ \A x \in T : Has(RowsAt(t, I), x) <=> \E k \in 1..Len(t) : k - 1 \in I /\ t[k] = x
    BY <2>1, RowsAtOfTable
  <2> QED  BY <2>2 DEF T
<1>3. ASSUME NEW row \in 0..(n - 1)  PROVE Has(RowsAt(t, I), row) <=> row \in I
  <2>1. (\E k \in 1..Len(t) : k - 1 \in I /\ t[k] = row) <=> row \in I
    <3>1. ASSUME row \in I  PROVE \E k \in 1..Len(t) : k - 1 \in I /\ t[k] = row
      <4>1. row + 1 \in 1..Len(t) /\ (row + 1) - 1 = row /\ t[row + 1] = row
        BY <1>1
      <4> QED  BY <3>1, <4>1
    <3>2. ASSUME NEW k \in 1..Len(t), k - 1 \in I, t[k] = row  PROVE row \in I
      BY <1>1, <3>2
    <3> QED  BY <3>1, <3>2
  <2>2. row \in 0..n
    OBVIOUS
  <2> QED  BY <1>2, <2>1, <2>2
<1> QED
  BY <1>1, <1>2, <1>3 DEF t

\* What was merged is taken apart again into the same parts.
LEMMA TakenApart ==
  ASSUME NEW T, NEW parts \in [PartNames -> Seq(T)], NEW p \in PartNames
  PROVE  GetSplit(parts, p) = parts[p]
<1> DEFINE a == parts["test"]
           b == parts["train"]
           c == parts["validation"]
           m == MergeSplits(parts)
           k == FirstOf(parts, p)
           n == Len(parts[p])
<1>1. a \in Seq(T) /\ b \in Seq(T) /\ c \in Seq(T) /\ parts[p] \in Seq(T)
  BY DEF PartNames
<1>2. Len(a) \in Nat /\ Len(b) \in Nat /\ Len(c) \in Nat /\ n \in Nat
  BY <1>1
<1>3. /\ m \in Seq(T) /\ Len(m) = Len(a) + Len(b) + Len(c)
      /\ \A i \in 1..(Len(a) + Len(b) + Len(c)) :
           m[i] = IF i <= Len(a) THEN a[i]
                  ELSE IF i <= Len(a) + Len(b) THEN b[i - Len(a)] ELSE c[i - Len(a) - Len(b)]
  <2> HIDE DEF a, b, c
  <2> DEFINE ab == a \o b
  <2>1. /\ ab \in Seq(T) /\ Len(ab) = Len(a) + Len(b)
        /\ \A i \in 1..(Len(a) + Len(b)) : ab[i] = IF i <= Len(a) THEN a[i] ELSE b[i - Len(a)]
    BY <1>1, ConcatProperties
  <2> HIDE DEF ab
  <2>2. /\ ab \o c \in Seq(T) /\ Len(ab \o c) = Len(ab) + Len(c)
        /\ \A i \in 1..(Len(ab) + Len(c)) :
             (ab \o c)[i] = IF i <= Len(ab) THEN ab[i] ELSE c[i - Len(ab)]
    <3>1. ab \in Seq(T) /\ c \in Seq(T)
      BY <1>1, <2>1
    <3> QED  BY <3>1, ConcatProperties
  <2>3. m = ab \o c
    BY DEF MergeSplits, a, b, c, ab
  <2> HIDE DEF m
  <2> QED  BY <1>2, <2>1, <2>2, <2>3
<1>4. k \in Nat /\ k + n <= Len(m) /\ \A i \in 1..n : m[k + i] = parts[p][i]
  <2>1. CASE p = "test"
    <3>1. k = 0 /\ n = Len(a) /\ parts[p] = a
      BY <2>1 DEF FirstOf
    <3> HIDE DEF a, b, c, m, k, n
    <3> QED  BY <1>2, <1>3, <3>1
  <2>2. CASE p = "train"
    <3>1. k = Len(a) /\ n = Len(b) /\ parts[p] = b
      BY <2>2 DEF FirstOf
    <3> HIDE DEF a, b, c, m, k, n
    <3> QED  BY <1>2, <1>3, <3>1
  <2>3. CASE p = "validation"
    <3>1. k = Len(a) + Len(b) /\ n = Len(c) /\ parts[p] = c
      BY <2>3 DEF FirstOf
    <3> HIDE DEF a, b, c, m, k, n
    <3> QED  BY <1>2, <1>3, <3>1
  <2> QED  BY <2>1, <2>2, <2>3 DEF PartNames
<1>5. GetSplit(parts, p) = SubSeq(m, k + 1, k + n)
  BY DEF GetSplit
<1> HIDE DEF m, k
<1>6. \A i \in (k + 1)..(k + n) : m[i] \in T
  <2> HIDE DEF a, b, c, n
  <2>1. \A i \in 1..Len(m) : m[i] \in T
    BY <1>3
  <2>2. \A i \in (k + 1)..(k + n) : i \in 1..Len(m)
    BY <1>2, <1>3, <1>4
  <2> QED  BY <2>1, <2>2
<1> DEFINE s == SubSeq(m, k + 1, k + n)
<1>7. /\ s \in Seq(T) /\ Len(s) = n /\ \A i \in 1..n : s[i] = m[k + i]
  <2>1. k + 1 \in Int /\ k + n \in Int
    BY <1>2, <1>4
  <2>2. /\ s \in Seq(T) /\ Len(s) = IF k + 1 <= k + n THEN (k + n) - (k + 1) + 1 ELSE 0
        /\ \A i \in 1..((k + n) - (k + 1) + 1) : s[i] = m[(k + 1) + i - 1]
    BY <1>6, <2>1, SubSeqProperties
  <2> HIDE DEF s, n
  <2>3. Len(s) = n
    BY <1>2, <1>4, <2>2
  <2>4. ASSUME NEW i \in 1..n  PROVE s[i] = m[k + i]
    <3>1. i \in 1..((k + n) - (k + 1) + 1) /\ (k + 1) + i - 1 = k + i
      BY <1>2, <1>4
    <3> QED  BY <2>2, <3>1
  <2> QED  BY <2>2, <2>3, <2>4
<1> HIDE DEF s
<1>8. s = parts[p]
  <2> DEFINE part == parts[p]
  <2>1. part \in Seq(T) /\ Len(part) = n /\ \A i \in 1..n : m[k + i] = part[i]
    BY <1>1, <1>4
  <2> HIDE DEF part, n
  <2>2. \A i \in 1..n : s[i] = part[i]
    BY <1>7, <2>1
  <2>3. s = part
    BY <1>7, <2>1, <2>2, SeqEqual
  <2> QED  BY <2>3 DEF part
<1> QED
  BY <1>5, <1>8 DEF s

\* The parts of the dataset, and of any table of its rows.
LEMMA PartsOfTable ==
  ASSUME NEW T, NEW table \in Seq(T), NEW lists
  PROVE  SplitDataset(table, lists) \in [PartNames -> Seq(T)]
  BY RowsAtOfTable DEF SplitDataset

\* What the model is given is the dataset's rows at the indexes.
LEMMA ModelJobDataIs ==
  ASSUME NEW n \in Nat, NEW lists
  PROVE  /\ ModelJobData(Table(n), lists) = SplitDataset(Table(n), lists)
         /\ SplitDataset(Table(n), lists) \in [PartNames -> Seq(0..n)]
         /\ ExplainerJobData(Table(n), lists) \in [PartNames -> Seq(0..n)]
<1> DEFINE T == 0..n
           t == Table(n)
           parts == SplitDataset(t, lists)
<1>1. t \in Seq(T)
  BY RowsOfDataset
<1> HIDE DEF T, t
<1>2. parts \in [PartNames -> Seq(T)]
  BY <1>1, PartsOfTable
<1>3. parts = [p \in PartNames |-> parts[p]]
  BY DEF SplitDataset
<1> HIDE DEF parts
<1>4. \A p \in PartNames : GetSplit(parts, p) = parts[p]
  BY <1>2, TakenApart
<1>5. ModelJobData(t, lists) = parts
  BY <1>3, <1>4 DEF ModelJobData, parts
<1>6. MergeSplits(parts) \in Seq(T)
  <2>1. /\ parts["test"] \in Seq(T) /\ parts["train"] \in Seq(T)
        /\ parts["validation"] \in Seq(T)
    BY <1>2 DEF PartNames
  <2>2. parts["test"] \o parts["train"] \in Seq(T)
    BY <2>1, ConcatProperties
  <2> QED  BY <2>1, <2>2, ConcatProperties DEF MergeSplits
<1>7. ExplainerJobData(t, lists) \in [PartNames -> Seq(T)]
  BY <1>6, PartsOfTable DEF ExplainerJobData, parts
<1> QED
  BY <1>2, <1>5, <1>7 DEF T, t, parts

\* Lists are of the dataset's rows, and a random split gives each row to one of them.
LEMMA ListsPrepared ==
  ASSUME NEW n \in Nat, NEW split, split.lists \in [PartNames -> SUBSET (0..n)],
         NEW lists \in PrepareForModelSession(n, split)
  PROVE  /\ lists \in [PartNames -> SUBSET (0..n)]
         /\ split.splitType = "random" =>
              \A row \in 0..(n - 1) :
                \E p \in PartNames : \A q \in PartNames : (row \in lists[q]) = (q = p)
<1> DEFINE all == 0..(n - 1)
<1>1. CASE split.splitType # "random"
  BY <1>1 DEF PrepareForModelSession
<1>2. CASE split.splitType = "random"
  <2>1. PICK T \in ForTraining(all, split) : \E U \in ForTesting(all \ T, split) :
               lists = [train |-> T, test |-> U, validation |-> (all \ T) \ U]
    BY <1>2 DEF PrepareForModelSession
  <2>2. PICK U \in ForTesting(all \ T, split) :
               lists = [train |-> T, test |-> U, validation |-> (all \ T) \ U]
    BY <2>1
  <2>3. T \subseteq all
    BY <2>1 DEF ForTraining, TrainTestSplit
  <2>4. U \subseteq all \ T
    <3>1. \A S, x, y, z : TrainTestSplit(S, x, y, z) \subseteq SUBSET S
      BY DEF TrainTestSplit
    <3> QED  BY <2>2, <3>1 DEF ForTesting
  <2>5. all \subseteq 0..n
    OBVIOUS
  <2>6. /\ lists \in [PartNames -> SUBSET (0..n)]
        /\ lists["train"] = T /\ lists["test"] = U /\ lists["validation"] = (all \ T) \ U
    <3> DEFINE V == (all \ T) \ U
    <3>1. T \subseteq 0..n /\ U \subseteq 0..n /\ V \subseteq 0..n
      BY <2>3, <2>4, <2>5
    <3>2. lists = [train |-> T, test |-> U, validation |-> V]
      BY <2>2
    <3> HIDE DEF V
    <3>3. /\ lists = [p \in PartNames |-> lists[p]]
          /\ \A p \in PartNames : lists[p] \in {T, U, V}
      BY <3>2 DEF PartNames
    <3> HIDE DEF PartNames
    <3>4. lists \in [PartNames -> SUBSET (0..n)]
      BY <3>1, <3>3
    <3> QED  BY <3>2, <3>4 DEF V
  <2>7. ASSUME NEW row \in all
        PROVE  \E p \in PartNames : \A q \in PartNames : (row \in lists[q]) = (q = p)
    <3>1. CASE row \in T
      <4>1. \A q \in PartNames : (row \in lists[q]) = (q = "train")
        BY <2>4, <2>6, <3>1 DEF PartNames
      <4> QED  BY <4>1 DEF PartNames
    <3>2. CASE row \in U
      <4>1. \A q \in PartNames : (row \in lists[q]) = (q = "test")
        BY <2>4, <2>6, <3>2 DEF PartNames
      <4> QED  BY <4>1 DEF PartNames
    <3>3. CASE row \notin T /\ row \notin U
      <4>1. \A q \in PartNames : (row \in lists[q]) = (q = "validation")
        BY <2>6, <3>3 DEF PartNames
      <4> QED  BY <4>1 DEF PartNames
    <3> QED  BY <3>1, <3>2, <3>3
  <2> QED  BY <2>6, <2>7
<1> QED
  BY <1>1, <1>2

\* The beginning of a part that is explained is as long as it is.
LEMMA BeginningIs ==
  ASSUME NEW T, NEW d \in Seq(T), NEW rows \in Beginnings(d)
  PROVE  rows = SubSeq(d, 1, Len(rows))
<1>1. PICK k \in 0..Len(d) : rows = SubSeq(d, 1, k)
  BY DEF Beginnings
<1>2. \A i \in 1..k : d[i] \in T
  OBVIOUS
<1>3. k \in Nat /\ Len(rows) = k
  <2>1. 1 \in Int /\ k \in Int
    OBVIOUS
  <2>2. Len(SubSeq(d, 1, k)) = IF 1 <= k THEN k - 1 + 1 ELSE 0
    BY <1>2, <2>1, SubSeqProperties
  <2> QED  BY <1>1, <2>2
<1> QED
  BY <1>1, <1>3

-----------------------------------------------------------------------------
\* Nothing is trained before the session is there; with this SplitIsKept is inductive.
SplitsInv ==
  /\ SplitsTypeOK /\ SplitIsKept
  /\ sessionSplit = NoSplit => modelData = {} /\ explainerData = {} /\ splitIndexes = NoLists

LEMMA SplitsInitHolds == SplitsInit => SplitsInv
<1> SUFFICES ASSUME SplitsInit  PROVE SplitsInv
  OBVIOUS
<1>1. Cardinality({}) = 0
  BY FS_EmptySet
<1> QED
  BY <1>1, SplitsAssumption
     DEF SplitsInit, SplitsInv, SplitsTypeOK, SplitIsKept, TrainedAsRecorded, EachRowOnce,
         InstanceOfPart, NoSplit, NoLists

\* A random split that was recorded gives each row to one part of the model's.
LEMMA TrainingKeeps == SplitsInv /\ TrainModel => SplitsInv'
<1> SUFFICES ASSUME SplitsInv, TrainModel  PROVE SplitsInv'
  OBVIOUS
<1> DEFINE n == tableRows
           lists == splitIndexes'
           data == SplitDataset(Table(n), lists)
<1>1. n \in Nat /\ n \in 0..MaxTableRows
  BY SplitsAssumption DEF SplitsInv, SplitsTypeOK
<1>2. /\ lists \in [PartNames -> SUBSET (0..n)]
      /\ sessionSplit.splitType = "random" =>
           \A row \in 0..(n - 1) :
             \E p \in PartNames : \A q \in PartNames : (row \in lists[q]) = (q = p)
  <2>1. sessionSplit.lists \in [PartNames -> SUBSET (0..n)]
    BY DEF SplitsInv, SplitsTypeOK
  <2>2. lists \in PrepareForModelSession(n, sessionSplit)
    BY DEF TrainModel
  <2> HIDE DEF lists, n
  <2> QED  BY <1>1, <2>1, <2>2, ListsPrepared
<1>3. data \in [PartNames -> Seq(0..n)] /\ modelData' = {data}
  <2>1. modelData' = {ModelJobData(Table(n), lists)}
    BY DEF TrainModel
  <2> HIDE DEF n, lists
  <2> QED  BY <1>1, <2>1, ModelJobDataIs
<1>4. /\ tableRows' = n /\ sessionSplit' = sessionSplit
      /\ explainerData' = {} /\ instanceData' = {}
  BY DEF TrainModel
<1>5. SplitsTypeOK'
  <2>1. Cardinality({}) = 0 /\ Cardinality({data}) = 1
    BY FS_EmptySet, FS_Singleton
  <2> HIDE DEF data
  <2> QED  BY <1>2, <1>3, <1>4, <2>1 DEF SplitsInv, SplitsTypeOK
<1>6. TrainedAsRecorded'
  BY <1>3, <1>4 DEF TrainedAsRecorded
<1>7. EachRowOnce'
  <2>1. ASSUME sessionSplit.splitType = "random", NEW row \in 0..(n - 1)
        PROVE  \E p \in PartNames : \A q \in PartNames : Has(data[q], row) = (q = p)
    <3>1. PICK p \in PartNames : \A q \in PartNames : (row \in lists[q]) = (q = p)
      BY <1>2, <2>1
    <3>2. \A q \in PartNames : Has(data[q], row) <=> row \in lists[q]
      <4> HIDE DEF n, lists
      <4>1. \A q \in PartNames : data[q] = RowsAt(Table(n), lists[q])
        BY DEF SplitDataset
      <4> HIDE DEF data
      <4> QED  BY <1>1, <4>1, RowsOfDataset
    <3>3. \A q \in PartNames : Has(data[q], row) = (q = p)
      <4> SUFFICES ASSUME NEW q \in PartNames  PROVE Has(data[q], row) = (q = p)
        OBVIOUS
      <4>1. (row \in lists[q]) \in BOOLEAN /\ Has(data[q], row) \in BOOLEAN
        BY DEF Has
      <4> HIDE DEF data, lists
      <4> QED  BY <3>1, <3>2, <4>1
    <3> QED  BY <3>3
  <2> HIDE DEF data, lists
  <2> QED  BY <1>3, <1>4, <2>1 DEF EachRowOnce
<1>8. InstanceOfPart'
  BY <1>4 DEF InstanceOfPart
<1>9. sessionSplit' # NoSplit
  BY <1>4 DEF TrainModel
<1> QED
  BY <1>5, <1>6, <1>7, <1>8, <1>9 DEF SplitsInv, SplitIsKept

\* With no data there is nothing to say of it.
LEMMA NothingSaid ==
  ASSUME SplitsTypeOK', modelData' = {}, sessionSplit' # NoSplit
  PROVE  SplitsInv'
  BY DEF SplitsInv, SplitIsKept, TrainedAsRecorded, EachRowOnce, InstanceOfPart

\* The splits the form gives are what a session may have.
LEMMA SplitsAreTyped ==
  ASSUME NEW n \in Nat, NEW s \in RandomSplits \cup ListSplits(n)
  PROVE  s \in [splitType : {"none", "random", "lists"}, sizes : [PartNames -> 0..Shares],
                shuffle : BOOLEAN, lists : [PartNames -> SUBSET (0..n)]]
<1>1. CASE s \in RandomSplits
  <2>1. NoLists \in [PartNames -> SUBSET (0..n)]
    BY DEF NoLists
  <2> QED  BY <1>1, <2>1 DEF RandomSplits
<1>2. CASE s \in ListSplits(n)
  <2>1. PICK l \in [PartNames -> SUBSET (0..n)] :
               s = [NoSplit EXCEPT !.splitType = "lists", !.lists = l]
    BY <1>2 DEF ListSplits
  <2>2. [p \in PartNames |-> 0] \in [PartNames -> 0..Shares]
    BY SplitsAssumption
  <2> QED  BY <2>1, <2>2 DEF NoSplit
<1> QED  BY <1>1, <1>2

LEMMA CreationKeeps == SplitsInv /\ ConfigureSession => SplitsInv'
<1> SUFFICES ASSUME SplitsInv, ConfigureSession  PROVE SplitsInv'
  OBVIOUS
<1> DEFINE n == tableRows'
<1>1. /\ modelData' = {} /\ n \in 0..MaxTableRows /\ n \in Nat
      /\ sessionSplit' \in RandomSplits \cup ListSplits(n)
      /\ splitIndexes' = splitIndexes /\ explainerData' = {}
  BY SplitsAssumption DEF ConfigureSession, SplitsInv
<1>2. splitIndexes = NoLists
  BY DEF ConfigureSession, SplitsInv
<1> HIDE DEF n
<1>3. sessionSplit' \in [splitType : {"none", "random", "lists"}, sizes : [PartNames -> 0..Shares],
                          shuffle : BOOLEAN, lists : [PartNames -> SUBSET (0..n)]]
  BY <1>1, SplitsAreTyped
<1>4. NoLists \in [PartNames -> SUBSET (0..n)]
  BY DEF NoLists
<1>5. Cardinality({}) = 0
  BY FS_EmptySet
<1>6. SplitsTypeOK'
  BY <1>1, <1>2, <1>3, <1>4, <1>5 DEF SplitsTypeOK, n
<1>7. sessionSplit' # NoSplit
  <2>1. ASSUME NEW s \in RandomSplits \cup ListSplits(n)  PROVE s.splitType # "none"
    <3>1. CASE s \in RandomSplits
      BY <3>1 DEF RandomSplits
    <3>2. CASE s \in ListSplits(n)
      <4>1. PICK l \in [PartNames -> SUBSET (0..n)] :
                   s = [NoSplit EXCEPT !.splitType = "lists", !.lists = l]
        BY <3>2 DEF ListSplits
      <4> QED  BY <4>1 DEF NoSplit
    <3> QED  BY <2>1, <3>1, <3>2
  <2>2. NoSplit.splitType = "none"
    BY DEF NoSplit
  <2> QED  BY <1>1, <2>1, <2>2
<1> QED
  BY <1>1, <1>6, <1>7, NothingSaid

LEMMA FailureKeeps == SplitsInv /\ TrainingRaises => SplitsInv'
<1> SUFFICES ASSUME SplitsInv, TrainingRaises  PROVE SplitsInv'
  OBVIOUS
<1>1. /\ tableRows \in Nat /\ tableRows' = tableRows /\ sessionSplit' = sessionSplit
      /\ sessionSplit.lists \in [PartNames -> SUBSET (0..tableRows)]
      /\ modelData' = {} /\ explainerData' = {}
      /\ splitIndexes' \in {splitIndexes} \cup PrepareForModelSession(tableRows, sessionSplit)
  BY SplitsAssumption DEF TrainingRaises, SplitsInv, SplitsTypeOK
<1>2. splitIndexes' \in [PartNames -> SUBSET (0..tableRows)]
  BY <1>1, ListsPrepared DEF SplitsInv, SplitsTypeOK
<1>3. Cardinality({}) = 0
  BY FS_EmptySet
<1>4. SplitsTypeOK'
  BY <1>1, <1>2, <1>3 DEF SplitsInv, SplitsTypeOK
<1>5. sessionSplit' # NoSplit
  BY <1>1 DEF TrainingRaises
<1> QED
  BY <1>1, <1>4, <1>5, NothingSaid

\* An explanation changes nothing that the run has, and what is explained is of the
\* part that the run has.
LEMMA ExplanationKeeps ==
  ASSUME SplitsInv, ExplainRun,
         \/ instanceData' = instanceData
         \/ \E scope \in PartNames \cup {"all"} : ExplainLocally(scope)
  PROVE  SplitsInv'
<1> DEFINE n == tableRows
           e == ExplainerJobData(Table(n), splitIndexes)
<1>1. /\ UNCHANGED <<tableRows, sessionSplit, splitIndexes, modelData>>
      /\ explainerData' = {e} /\ n \in Nat
  BY SplitsAssumption DEF ExplainRun, SplitsInv, SplitsTypeOK
<1>2. e \in [PartNames -> Seq(0..n)]
  BY <1>1, ModelJobDataIs
<1>3. SplitsTypeOK'
  <2>1. Cardinality({e}) = 1
    BY FS_Singleton
  <2> HIDE DEF e
  <2> QED  BY <1>1, <1>2, <2>1 DEF SplitsInv, SplitsTypeOK
<1>4. TrainedAsRecorded' /\ EachRowOnce' /\ sessionSplit' # NoSplit
  BY <1>1 DEF ExplainRun, SplitsInv, SplitIsKept, TrainedAsRecorded, EachRowOnce
<1>5. InstanceOfPart'
  <2>1. CASE instanceData' = instanceData
    BY <1>1, <2>1 DEF SplitsInv, SplitIsKept, InstanceOfPart
  <2>2. ASSUME NEW scope \in PartNames \cup {"all"}, ExplainLocally(scope)
        PROVE  InstanceOfPart'
    <3> DEFINE parts == SplitDataset(Table(n), splitIndexes)
    <3>1. PICK rows \in Beginnings(IF scope = "all" THEN Table(n) ELSE parts[scope]) :
                 instanceData' = {[scope |-> scope, rows |-> rows]}
      BY <2>2 DEF ExplainLocally
    <3>2. \A data \in modelData : data = parts
      BY DEF SplitsInv, SplitIsKept, TrainedAsRecorded
    <3>3. parts \in [PartNames -> Seq(0..n)]
      BY <1>1, ModelJobDataIs
    <3> HIDE DEF parts
    <3>4. CASE scope = "all"
      BY <3>1, <3>4 DEF InstanceOfPart
    <3>5. CASE scope # "all"
      <4>1. rows \in Beginnings(parts[scope]) /\ parts[scope] \in Seq(0..n)
        BY <3>1, <3>3, <3>5
      <4> DEFINE d == parts[scope]
                 T == 0..n
      <4>2. d \in Seq(T) /\ rows \in Beginnings(d)
        BY <4>1
      <4> HIDE DEF d, T
      <4>3. rows = SubSeq(d, 1, Len(rows))
        BY <4>2, BeginningIs
      <4> QED  BY <1>1, <3>1, <3>2, <4>3 DEF InstanceOfPart, d
    <3> QED  BY <3>4, <3>5
  <2> QED  BY <2>1, <2>2
<1> QED
  BY <1>3, <1>4, <1>5 DEF SplitsInv, SplitIsKept

LEMMA SplitsStepHolds == SplitsInv /\ [SplitsNext]_splitsVars => SplitsInv'
<1> SUFFICES ASSUME SplitsInv, [SplitsNext]_splitsVars  PROVE SplitsInv'
  OBVIOUS
<1>1. CASE ExplainGlobally
  BY <1>1, ExplanationKeeps DEF ExplainGlobally
<1>2. ASSUME NEW scope \in PartNames \cup {"all"}, ExplainLocally(scope)  PROVE SplitsInv'
  <2>1. ExplainRun
    BY <1>2 DEF ExplainLocally
  <2> QED  BY <1>2, <2>1, ExplanationKeeps
<1>3. CASE UNCHANGED splitsVars
  BY <1>3 DEF splitsVars, SplitsInv, SplitsTypeOK, SplitIsKept, TrainedAsRecorded, EachRowOnce,
              InstanceOfPart
<1> QED
  BY <1>1, <1>2, <1>3, CreationKeeps, TrainingKeeps, FailureKeeps DEF SplitsNext

LEMMA SplitsInvariance == SplitsSpec => []SplitsInv
  BY SplitsInitHolds, SplitsStepHolds, PTL DEF SplitsSpec

\* The types of splits, lists and parts, for any number of rows and proportions.
THEOREM SplitsTypeHolds == SplitsSpec => []SplitsTypeOK
<1>1. SplitsInv => SplitsTypeOK
  BY DEF SplitsInv
<1> QED
  BY <1>1, SplitsInvariance, PTL

\* A run is trained and tested with the rows it recorded, of a random split with each
\* row in one part only, and a local explanation is of the part it names, for any
\* number of rows, any lists and any proportions.
THEOREM SplitIsKeptHolds == SplitsSpec => []SplitIsKept
<1>1. SplitsInv => SplitIsKept
  BY DEF SplitsInv
<1> QED
  BY <1>1, SplitsInvariance, PTL
=============================================================================
