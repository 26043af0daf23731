---------------------------- MODULE GenerativeChat ----------------------------
(***************************************************************************)
(* Generative sessions: the chat of the page, the handlers of              *)
(* generative_session.py and generative_process.py, and GenerativeJob.     *)
(*                                                                         *)
(* A message is a row of generative_process.  The chat appends it when the *)
(* POST is answered, has it enqueued, and asks for it every second and a   *)
(* half until it is FINISHED; one that failed is deleted by the chat that  *)
(* learns of it.  The whole chat is fetched when a session is selected or  *)
(* its parameters change.  All sessions are of one task, one that has a    *)
(* history: the job of a message is given the messages before it.          *)
(***************************************************************************)
EXTENDS Integers, Sequences, FiniteSets, SequencesExt, FiniteSetsExt

CONSTANTS
  MaxChats,        \* bound on the keys of sessions
  MaxMessages,     \* bound on the messages that are ever sent
  MaxEvents,       \* bound on how often a chat is left, changed or deleted, and on lost
                   \* requests and reloads
  MaxFetches,      \* bound on the fetches of a chat that are under way
  MaxPolls         \* bound on the requests for one message that are under way

ASSUME GenerativeChatAssumption ==
  {MaxChats, MaxMessages, MaxEvents, MaxFetches, MaxPolls} \subseteq Nat \ {0}

VARIABLES
  chats,      \* the table generative_session
  message,    \* the table generative_process; made: which message it is, turn: when
              \* it was enqueued
  replies,    \* the rows of process_data that are outputs, by the key of their process
  chatJobs, writer,  \* the queue, and the job in the consumer's hands
  openChat,   \* selectedSessionId, 0 for none; the chat is mounted if there is one
  shownChat,  \* the messages the chat shows
  sending,    \* isLoadingMessage: the input is disabled
  sends,      \* handleSendMessage, from the POST until its job is enqueued
  fetches,    \* lists of messages on their way to the chat
  polls,      \* answers about single messages on their way to the chat
  drops,      \* deletions of messages that failed
  removing,   \* sessions whose deletion is under way
  confused,   \* history: a key was handed out again while something of its last
              \* holder was left
  astray,     \* history: an answer reached a chat that had moved on, or a message
              \* was left half sent
  tally       \* counters

chatTables == <<chats, message, replies>>
chatQueue == <<chatJobs, writer>>
chatView == <<openChat, shownChat, sending>>
chatAnswers == <<sends, fetches, polls, drops, removing>>
generativeChatVars ==
  <<chatTables, chatQueue, chatView, chatAnswers, confused, astray, tally>>

MessageIds == 1..MaxMessages
PendingStatuses == {"waiting", "delivered", "started"}
noMessage == [chat |-> 0, made |-> 0, status |-> "absent", turn |-> 0]
noReply == [id |-> 0, made |-> 0, seen |-> {}, step |-> "idle"]

Sent(p) == message[p] # noMessage
MessagesOf(s) == {p \in MessageIds : message[p].chat = s}
NextMessage == 1 + Max({0} \cup {p \in MessageIds : Sent(p)})

\* What the API tells of a message.  It reads the status before the outputs,
\* which are committed in the other order.
AnswerOf(p) == [id |-> p, made |-> message[p].made, status |-> message[p].status,
            answered |-> replies[p] # <<>>]
ShownIds == {m.id : m \in shownChat}

Event == tally.events < MaxEvents /\ tally' = [tally EXCEPT !.events = @ + 1]

GenerativeChatInit ==
  /\ chats = {1} /\ message = [p \in MessageIds |-> noMessage]
  /\ replies = [p \in MessageIds |-> <<>>]
  /\ chatJobs = <<>> /\ writer = noReply
  /\ openChat = 0 /\ shownChat = {} /\ sending = FALSE
  /\ sends = {} /\ fetches = <<>> /\ polls = {} /\ drops = {} /\ removing = {}
  /\ confused = FALSE /\ astray = FALSE
  /\ tally = [events |-> 0, sent |-> 0, turns |-> 0]

-----------------------------------------------------------------------------
(* The page: chats are chosen, left, created, changed and deleted          *)

\* The effect on sessionId and paramsVersion.
Fetch(s) ==
  /\ Len(fetches) < MaxFetches
  /\ fetches' = Append(fetches, [chat |-> s, rows |-> {AnswerOf(p) : p \in MessagesOf(s)},
                                 late |-> FALSE])

\* One chat follows another: what was shown stays until the fetch is answered.
ChooseChat(s) ==
  /\ s \in chats \ (removing \cup {openChat})
  /\ IF openChat = 0 THEN UNCHANGED tally ELSE Event
  /\ openChat' = s /\ Fetch(s)
  /\ UNCHANGED <<chatTables, chatQueue, shownChat, sending, sends, polls, drops, removing,
                 confused, astray>>

NewChat ==
  LET s == 1 + Max({0} \cup chats)
  IN /\ openChat = 0 /\ s <= MaxChats
     /\ chats' = chats \cup {s}
     /\ openChat' = s /\ Fetch(s)
     /\ UNCHANGED <<message, replies, chatQueue, shownChat, sending, sends, polls, drops,
                    removing, confused, astray, tally>>

\* The parameters are the session's, and the chat is fetched again.
UpdateParameters ==
  /\ openChat # 0 /\ Event
  /\ Fetch(openChat)
  /\ UNCHANGED <<chatTables, chatQueue, chatView, sends, polls, drops, removing, confused,
                 astray>>

\* The chat is unmounted: what arrives finds nothing to change, but a message
\* that failed is still deleted.
Unmount ==
  /\ openChat' = 0 /\ shownChat' = {} /\ sending' = FALSE
  /\ fetches' = <<>> /\ polls' = {}
  /\ drops' = {[id |-> d.id, step |-> "asked", live |-> FALSE] :
                 d \in {e \in drops : e.step = "asked"} \cup {a \in polls : a.status = "error"}}

LeaveChat ==
  /\ openChat # 0 /\ Event
  /\ Unmount
  /\ sends' = {[d EXCEPT !.live = FALSE] : d \in sends}
  /\ UNCHANGED <<chatTables, chatQueue, removing, confused, astray>>

\* The browser loads everything again: a message whose POST was not answered
\* is never enqueued.
ReloadChats ==
  /\ Event
  /\ Unmount
  /\ sends' = {}
  /\ astray' = (astray \/ sends # {})
  /\ UNCHANGED <<chatTables, chatQueue, removing, confused>>

\* handleSessionDelete does not wait for the answer.
DeleteChat(s) ==
  /\ s \in chats \ removing /\ Event
  /\ removing' = removing \cup {s}
  /\ IF s = openChat
     THEN Unmount /\ sends' = {[d EXCEPT !.live = FALSE] : d \in sends}
     ELSE UNCHANGED <<chatView, sends, fetches, polls, drops>>
  /\ UNCHANGED <<chatTables, chatQueue, confused, astray>>

WithoutMessages(gone) ==
  /\ message' = [p \in MessageIds |-> IF p \in gone THEN noMessage ELSE message[p]]
  /\ replies' = [p \in MessageIds |-> IF p \in gone THEN <<>> ELSE replies[p]]

ChatDeleted(s) ==
  /\ s \in removing
  /\ removing' = removing \ {s} /\ chats' = chats \ {s}
  /\ WithoutMessages(MessagesOf(s))
  /\ UNCHANGED <<chatQueue, chatView, sends, fetches, polls, drops, confused, astray, tally>>

\* The chat changes by one message: fetches that were read before are late.
GainsMessage(p) == fetches' = [i \in DOMAIN fetches |->
  [fetches[i] EXCEPT !.late = @ \/ \A m \in fetches[i].rows : m.id # p]]
LosesMessage(p) == fetches' = [i \in DOMAIN fetches |->
  [fetches[i] EXCEPT !.late = @ \/ \E m \in fetches[i].rows : m.id = p]]

\* getMessages replaces what is shown, whichever chat it was about.
FetchArrives ==
  /\ \E i \in DOMAIN fetches :
       /\ shownChat' = fetches[i].rows
       /\ fetches' = RemoveAt([j \in DOMAIN fetches |-> [fetches[j] EXCEPT !.late = @ \/ j < i]], i)
       /\ astray' = (astray \/ fetches[i].late \/ fetches[i].chat # openChat)
  /\ sending' = FALSE
  /\ UNCHANGED <<chatTables, chatQueue, openChat, sends, polls, drops, removing, confused, tally>>

-----------------------------------------------------------------------------
(* handleSendMessage: POST, append, enqueue                                *)

\* Something of the last message that had key p is left.
Remains(p) ==
  \/ replies[p] # <<>> \/ writer.id = p \/ p \in ToSet(chatJobs)
  \/ p \in ShownIds \/ \E d \in sends \cup polls \cup drops : d.id = p
  \/ \E i \in DOMAIN fetches : \E m \in fetches[i].rows : m.id = p

SendMessage ==
  /\ openChat # 0 /\ ~sending /\ tally.sent < MaxMessages
  /\ tally' = [tally EXCEPT !.sent = @ + 1]
  /\ LET p == NextMessage
     IN /\ message' = [message EXCEPT ![p] = [chat |-> openChat, made |-> tally'.sent,
                                              status |-> "waiting", turn |-> 0]]
        /\ sends' = sends \cup {[id |-> p, made |-> tally'.sent, chat |-> openChat,
                                 step |-> "posted", live |-> TRUE]}
        /\ confused' = (confused \/ Remains(p))
  /\ sending' = TRUE
  /\ UNCHANGED <<chats, replies, chatQueue, openChat, shownChat, fetches, polls, drops, removing,
                 astray>>

\* Appended to whatever is shown by then.
MessageArrives(d) ==
  /\ d.step = "posted"
  /\ sends' = (sends \ {d}) \cup {[d EXCEPT !.step = "enqueue"]}
  /\ IF d.live
     THEN /\ shownChat' = shownChat \cup {[id |-> d.id, made |-> d.made, status |-> "waiting",
                                           answered |-> FALSE]}
          /\ GainsMessage(d.id)
          /\ astray' = (astray \/ d.chat # openChat \/ d.id \in ShownIds)
     ELSE UNCHANGED <<shownChat, fetches, astray>>
  /\ UNCHANGED <<chatTables, chatQueue, openChat, sending, polls, drops, removing, confused, tally>>

\* The job of a message that is gone is refused, which nothing catches.
EnqueueMessage(d) ==
  /\ d.step = "enqueue"
  /\ IF Sent(d.id)
     THEN /\ tally' = [tally EXCEPT !.turns = @ + 1]
          /\ message' = [message EXCEPT ![d.id].status = "delivered", ![d.id].turn = tally'.turns]
          /\ chatJobs' = Append(chatJobs, d.id)
          /\ sending' = IF d.live THEN FALSE ELSE sending
     ELSE UNCHANGED <<tally, message, chatJobs, sending>>
  /\ sends' = sends \ {d}
  /\ UNCHANGED <<chats, replies, writer, openChat, shownChat, fetches, polls, drops, removing, confused,
                 astray>>

\* Nor is a request caught that fails: the input stays disabled.
SendFails(d) ==
  /\ d.step = "enqueue" /\ Event
  /\ sends' = sends \ {d} /\ astray' = TRUE
  /\ UNCHANGED <<chatTables, chatQueue, chatView, fetches, polls, drops, removing, confused>>

-----------------------------------------------------------------------------
(* The interval that asks for each message that has not ended              *)

ChatAsks(m) ==
  /\ m \in shownChat /\ m.status \in PendingStatuses /\ Sent(m.id)
  /\ Cardinality(polls) < MaxPolls
  /\ polls' = polls \cup {AnswerOf(m.id)}
  /\ UNCHANGED <<chatTables, chatQueue, chatView, sends, fetches, drops, removing, confused,
                 astray, tally>>

PollArrives(a) ==
  /\ a \in polls
  /\ polls' = polls \ {a}
  /\ IF a.status = "error"
     THEN /\ drops' = drops \cup {[id |-> a.id, step |-> "asked", live |-> TRUE]}
          /\ UNCHANGED shownChat
     ELSE /\ shownChat' = {IF m.id = a.id THEN a ELSE m : m \in shownChat}
          /\ UNCHANGED drops
  /\ UNCHANGED <<chatTables, chatQueue, openChat, sending, sends, fetches, removing, confused,
                 astray, tally>>

\* A second deletion is answered 404, which nothing catches.
DropHandled(d) ==
  /\ d.step = "asked"
  /\ WithoutMessages({d.id})
  /\ drops' = (drops \ {d}) \cup (IF d.live /\ Sent(d.id) THEN {[d EXCEPT !.step = "done"]} ELSE {})
  /\ astray' = (astray \/ (~d.live /\ Sent(d.id)
                           /\ \/ d.id \in ShownIds
                              \/ \E i \in DOMAIN fetches : \E m \in fetches[i].rows : m.id = d.id))
  /\ UNCHANGED <<chats, chatQueue, chatView, sends, fetches, polls, removing, confused, tally>>

\* Mutant: only the snackbar tells of the deletion.
DropArrivesQuietly(d) ==
  /\ d.step = "done"
  /\ drops' = drops \ {d}
  /\ UNCHANGED <<chatTables, chatQueue, chatView, sends, fetches, polls, removing, confused,
                 astray, tally>>

DropArrives(d) ==
  /\ d.step = "done"
  /\ drops' = drops \ {d}
  /\ shownChat' = {m \in shownChat : m.id # d.id} /\ LosesMessage(d.id)
  /\ UNCHANGED <<chatTables, chatQueue, openChat, sending, sends, polls, removing, confused,
                 astray, tally>>

-----------------------------------------------------------------------------
(* GenerativeJob.run                                                       *)

\* Mutant: every message of the chat is taken for history.
TakeMessageWithAll ==
  /\ chatJobs # <<>> /\ writer = noReply
  /\ chatJobs' = Tail(chatJobs)
  /\ LET p == Head(chatJobs)
     IN IF Sent(p)
        THEN /\ writer' = [id |-> p, made |-> message[p].made, step |-> "started",
                           seen |-> {message[q].made : q \in MessagesOf(message[p].chat)}]
             /\ message' = [message EXCEPT ![p].status = "started"]
        ELSE UNCHANGED <<writer, message>>
  /\ UNCHANGED <<chats, replies, chatView, chatAnswers, confused, astray, tally>>

\* The history is that of the messages which are FINISHED by now.
TakeMessage ==
  /\ chatJobs # <<>> /\ writer = noReply
  /\ chatJobs' = Tail(chatJobs)
  /\ LET p == Head(chatJobs)
     IN IF Sent(p)
        THEN /\ writer' = [id |-> p, made |-> message[p].made, step |-> "started",
                           seen |-> {message[q].made : q \in
                             {r \in MessagesOf(message[p].chat) : message[r].status = "finished"}}]
             /\ message' = [message EXCEPT ![p].status = "started"]
        ELSE UNCHANGED <<writer, message>>
  /\ UNCHANGED <<chats, replies, chatView, chatAnswers, confused, astray, tally>>

\* The model cannot be made, fails, or its output cannot be used.
MessageFails ==
  /\ writer.step = "started"
  /\ message' = IF Sent(writer.id) THEN [message EXCEPT ![writer.id].status = "error"] ELSE message
  /\ writer' = noReply
  /\ UNCHANGED <<chats, replies, chatJobs, chatView, chatAnswers, confused, astray, tally>>

\* The outputs refer to the row, which is read for its key.
Generate ==
  /\ writer.step = "started"
  /\ writer' = IF Sent(writer.id) THEN [writer EXCEPT !.step = "replying"] ELSE noReply
  /\ UNCHANGED <<chatTables, chatJobs, chatView, chatAnswers, confused, astray, tally>>

SaveReply ==
  /\ writer.step = "replying"
  /\ replies' = [replies EXCEPT ![writer.id] =
                   Append(@, [made |-> writer.made, seen |-> writer.seen])]
  /\ writer' = [writer EXCEPT !.step = "replied"]
  /\ UNCHANGED <<chats, message, chatJobs, chatView, chatAnswers, confused, astray, tally>>

\* db.refresh fails when the row is gone; what was saved stays.
FinishMessage ==
  /\ writer.step = "replied"
  /\ message' = IF Sent(writer.id) THEN [message EXCEPT ![writer.id].status = "finished"]
                ELSE message
  /\ writer' = noReply
  /\ UNCHANGED <<chats, replies, chatJobs, chatView, chatAnswers, confused, astray, tally>>

-----------------------------------------------------------------------------
SendStep == \E d \in sends : MessageArrives(d) \/ EnqueueMessage(d)
DropStep == \E d \in drops : DropHandled(d) \/ DropArrives(d)
Writer == TakeMessage \/ MessageFails \/ Generate \/ SaveReply \/ FinishMessage

GenerativeChatNext ==
  \/ \E s \in 1..MaxChats : ChooseChat(s) \/ DeleteChat(s) \/ ChatDeleted(s)
  \/ NewChat \/ UpdateParameters \/ LeaveChat \/ ReloadChats \/ FetchArrives
  \/ SendMessage \/ SendStep \/ \E d \in sends : SendFails(d)
  \/ \E m \in shownChat : ChatAsks(m)
  \/ \E a \in polls : PollArrives(a)
  \/ DropStep \/ Writer

GenerativeChatSpec == GenerativeChatInit /\ [][GenerativeChatNext]_generativeChatVars

-----------------------------------------------------------------------------
\* Tables, queue and chat have the shape they should have.
GenerativeChatTypeOK ==
  LET statuses == PendingStatuses \cup {"finished", "error"}
  IN /\ chats \cup removing \subseteq 1..MaxChats /\ openChat \in chats \cup {0}
     /\ \A p \in MessageIds : Sent(p) =>
          message[p].chat \in chats /\ message[p].status \in statuses
     /\ \A m \in shownChat \cup polls : m.id \in MessageIds /\ m.status \in statuses
     /\ ToSet(chatJobs) \subseteq MessageIds /\ writer.id \in MessageIds \cup {0}
     /\ tally.turns <= tally.sent /\ tally.sent <= MaxMessages
     /\ sending \in BOOLEAN /\ confused \in BOOLEAN /\ astray \in BOOLEAN

\* A message that is FINISHED has one reply, made from itself and from the
\* messages of its chat that were enqueued before it and answered: none is
\* missing, none is from elsewhere, and no failed one is among them.
RepliesAreOwn ==
  ~confused => \A p \in MessageIds : message[p].status = "finished" =>
    replies[p] = <<[made |-> message[p].made,
                    seen |-> {message[q].made : q \in
                      {r \in MessagesOf(message[p].chat) :
                         message[r].status = "finished" /\ message[r].turn < message[p].turn}}]>>

ChatAtRest ==
  /\ sends = {} /\ fetches = <<>> /\ polls = {} /\ drops = {} /\ removing = {}
  /\ chatJobs = <<>> /\ writer = noReply

\* At rest the chat takes input and shows its session's messages, each of
\* which has ended, so that what it still shows as waiting the next question
\* brings, and what it shows as ended is so and has its reply.  (A failure that
\* a fetch brings stays, shown as waiting: only the chat that learns of it by
\* asking deletes the message.)
ChatIsCurrent ==
  ChatAtRest /\ ~confused /\ ~astray =>
    /\ ~sending
    /\ ShownIds = IF openChat = 0 THEN {} ELSE MessagesOf(openChat)
    /\ \A m \in shownChat :
         /\ message[m.id].status \in {"finished", "error"}
         /\ m.status \in PendingStatuses \cup {message[m.id].status}
         /\ m.status = "finished" => m.answered
=============================================================================
