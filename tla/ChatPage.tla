-------------------------------- MODULE ChatPage -------------------------------
(*****************************************************************************)
(* The page of a conversation (browser/conversation.js): it connects again   *)
(* whenever its websocket closes, and the engine then repeats the history of *)
(* the conversation, of which the page has shown a part.  The messages of a  *)
(* conversation are numbered; what was on its way when a websocket closed is *)
(* lost with it.                                                             *)
(*                                                                           *)
(* The other end of the websocket is routes/my_conversation.ts with the      *)
(* conversation of the engine, which is the library's: it says first which   *)
(* conversation it is, then repeats it, then goes on.  It may be another     *)
(* than the page asked for.                                                  *)
(*****************************************************************************)
EXTENDS Naturals, Sequences

CONSTANTS Conversations,
          NoConversation,
          MaxSaid,          \* bound: messages in each conversation
          MaxPings,         \* bound: messages without a number
          MaxCloses         \* bound: times that the websocket closes

ASSUME ChatAssumption == NoConversation \notin Conversations
                         /\ {MaxSaid, MaxPings, MaxCloses} \subseteq Nat

VARIABLES said,             \* per conversation: the number of messages
          socket,           \* "none", "connecting" or "accepted"
          serves,           \* the conversation at the other end
          wire,             \* what is on its way to the page
          pageOpen,         \* open, of the page
          timer,            \* setTimeout(connect)
          conversationId,
          lastMessageId,    \* counted from one: 0 when there is none
          shown,            \* the messages of this conversation on the page
          repeats,          \* the history came when the number of the last one was lost
          pings, closes

chatVars == <<said, socket, serves, wire, pageOpen, timer, conversationId, lastMessageId,
              shown, repeats, pings, closes>>
pageVars == <<conversationId, lastMessageId, shown, repeats>>

\* undefined: no number is less than it or equal.
Undefined == MaxSaid + 1

Id(c) == [type |-> "id", of |-> c]
AskSpecial == [type |-> "askSpecial"]
Message(n) == [type |-> "text", id |-> n]
Ping == [type |-> "ping", id |-> Undefined]

ChatInit ==
    /\ said = [c \in Conversations |-> 0]
    /\ socket = "none" /\ serves = NoConversation /\ wire = <<>>
    /\ pageOpen = FALSE /\ timer = FALSE
    /\ conversationId = NoConversation /\ lastMessageId = 0
    /\ shown = <<>> /\ repeats = FALSE
    /\ pings = 0 /\ closes = 0

-----------------------------------------------------------------------------
(* The other end.                                                           *)

History(c) == [n \in 1..said[c] |-> Message(n)]

Accept(c) ==
    /\ socket = "connecting"
    /\ socket' = "accepted" /\ serves' = c
    /\ wire' = <<Id(c)>> \o History(c) \o <<AskSpecial>>
    /\ UNCHANGED <<pageVars, said, pageOpen, timer, pings, closes>>

\* In answer to a command of this page or of another, or by itself: the page
\* shows its own commands, too, only when the engine repeats them.
Say(c) ==
    /\ said[c] < MaxSaid
    /\ said' = [said EXCEPT ![c] = @ + 1]
    /\ wire' = IF serves = c THEN wire \o <<Message(said[c] + 1), AskSpecial>> ELSE wire
    /\ UNCHANGED <<pageVars, socket, serves, pageOpen, timer, pings, closes>>

\* A hypothesis of what is being said, or a ping: no part of the history.
SayUnnumbered ==
    /\ serves # NoConversation /\ pings < MaxPings
    /\ pings' = pings + 1
    /\ wire' = Append(wire, Ping)
    /\ UNCHANGED <<pageVars, said, socket, serves, pageOpen, timer, closes>>

-----------------------------------------------------------------------------
(* The page.                                                                *)

\* connect, when the page is opened and whenever the timer fires.
Opens == socket' = "connecting" /\ UNCHANGED <<pageVars, said, serves, wire, pageOpen, pings, closes>>
OpenPage == socket = "none" /\ ~timer /\ Opens /\ UNCHANGED timer
Reconnect == timer /\ timer' = FALSE /\ Opens

\* onclose, whoever closed it; the timer is set again each time.
SocketCloses ==
    /\ socket # "none" /\ closes < MaxCloses
    /\ closes' = closes + 1
    /\ socket' = "none" /\ serves' = NoConversation /\ wire' = <<>>
    /\ pageOpen' = FALSE /\ timer' = TRUE
    /\ UNCHANGED <<pageVars, said, pings>>

\* A bug to detect: the numbers of the conversation before are kept.
Identified_Kept(c) ==
    /\ conversationId' = c /\ UNCHANGED <<lastMessageId, shown>>
    /\ repeats' = (repeats \/ lastMessageId = Undefined)
Identified(c) ==
    /\ conversationId' = c
    /\ IF conversationId \notin {NoConversation, c}
       THEN lastMessageId' = 0 /\ shown' = <<>> /\ repeats' = FALSE
       ELSE repeats' = (repeats \/ lastMessageId = Undefined) /\ UNCHANGED <<lastMessageId, shown>>

\* textMessage, picture, rdl, choice and the others append to the page.
Show(n) == shown' = Append(shown, n)

\* onWebsocketMessage: messages that were shown before are skipped.  One that has no
\* number leaves the page without the number of the last, but for askSpecial.
OnMessage ==
    /\ wire # <<>>
    /\ LET parsed == Head(wire)
       IN  CASE parsed.type = "id" -> Identified(parsed.of)
             [] parsed.type = "askSpecial" -> UNCHANGED pageVars
             [] parsed.type = "ping" ->
                    lastMessageId' = Undefined /\ UNCHANGED <<conversationId, shown, repeats>>
             [] parsed.type = "text" ->
                    /\ IF lastMessageId = Undefined \/ parsed.id > lastMessageId
                       THEN lastMessageId' = parsed.id /\ Show(parsed.id)
                       ELSE UNCHANGED <<lastMessageId, shown>>
                    /\ UNCHANGED <<conversationId, repeats>>
    /\ wire' = Tail(wire)
    /\ pageOpen' = TRUE
    /\ UNCHANGED <<said, socket, serves, timer, pings, closes>>

-----------------------------------------------------------------------------
ChatNext == \/ \E c \in Conversations : Accept(c) \/ Say(c)
            \/ SayUnnumbered \/ OpenPage \/ Reconnect \/ SocketCloses \/ OnMessage

\* The timer fires, the other end answers, and what is sent arrives unless the
\* websocket closes first.
ChatFairness == /\ WF_chatVars(Reconnect) /\ WF_chatVars(OnMessage)
                /\ WF_chatVars(\E c \in Conversations : Accept(c))

ChatSpec == ChatInit /\ [][ChatNext]_chatVars /\ ChatFairness

-----------------------------------------------------------------------------
ChatTypeOK ==
    /\ said \in [Conversations -> 0..MaxSaid]
    /\ socket \in {"none", "connecting", "accepted"}
    /\ {serves, conversationId} \subseteq Conversations \cup {NoConversation}
    /\ {pageOpen, timer} \subseteq BOOLEAN
    /\ lastMessageId \in 0..MaxSaid \cup {Undefined} /\ repeats \in BOOLEAN

\* The messages of a conversation, and what a page of it shows in the end.
Said(c) == [n \in 1..said[c] |-> n]
ShowsAll(c) ==
    IF repeats THEN \E k \in 0..Len(shown) : SubSeq(shown, k + 1, Len(shown)) = Said(c)
    ELSE shown = Said(c)

\* lastMessageId: however often the websocket closes, with whatever on its way,
\* and whichever conversation the page gets next, in the end it shows each
\* message of its conversation, once and in order.  Where the last message before a
\* websocket closed had no number the history is shown again, whole, after what the
\* page had.
PageCatchesUp ==
    <>[](\/ socket = "none" /\ ~timer          \* no page was opened
         \/ conversationId \in Conversations /\ ShowsAll(conversationId))
================================================================================
