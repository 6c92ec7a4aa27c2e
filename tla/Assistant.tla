-------------------------------- MODULE Assistant -------------------------------
(***************************************************************************)
(* The assistant of an engine and the requests that talk to it: websockets *)
(* for the results of commands and for a conversation, turns of Google     *)
(* Assistant, and the requests of the recording page.  Each of them gets   *)
(* an object of the engine by a remote call, and gives it back by another  *)
(* one; what the engine sends to a front end arrives in order.  What is    *)
(* said in a conversation over a websocket is in Websockets, and the       *)
(* conversations themselves are of a library: one is a number here.        *)
(***************************************************************************)
EXTENDS Naturals, Sequences

CONSTANTS Visitors,          \* the requests; each comes once, as one of
          Replayed           \* turns that are told the history of their conversation

VisitorKinds == {"results", "conversation", "welcome", "turn", "recording"}
Sessions == {"results", "conversation"}   \* websockets
Turns == {"welcome", "turn"}              \* the first turn of a dialogue, and any other

Places == {"none", "asked", "adding", "open", "leaving", "left", "leaked",
           "commands", "handled", "replied", "flushed", "controls", "used"}

VARIABLES
    visitor,         \* per request: its kind, where it is, and its conversation
    current,        \* the conversation that is open under an id, 0 if none is
    opened,         \* how many were opened
    outputs,        \* the requests whose output their conversation has
    notified,       \* the notification outputs
    wire,           \* what is on its way to the front end for turns
    answer,         \* per turn: the commands whose messages its delegate got
    earlier,        \* per turn: the turns that were answered before it came
    early,          \* websockets that closed before the wrapper was there
    cutOff          \* conversations that a recording request has closed

assistantVars == <<visitor, current, opened, outputs, notified, wire, answer, earlier, early, cutOff>>

\* Websockets share the conversation "main", turns that of their dialogue.
Id(kind) == IF kind \in Turns THEN "google_assistant" ELSE "main"
ConversationIds == {"main", "google_assistant"}

NoVisitor == [kind |-> "results", pc |-> "none", conv |-> 0]
Are(pcs) == {c \in Visitors : visitor[c].pc \in pcs}
OfKind(kinds) == {c \in Visitors : visitor[c].kind \in kinds}
Becomes(c, pc) == visitor' = [visitor EXCEPT ![c].pc = pc]

AssistantInit ==
    /\ visitor = [c \in Visitors |-> NoVisitor]
    /\ current = [i \in ConversationIds |-> 0] /\ opened = 0
    /\ outputs = {} /\ notified = {} /\ wire = <<>>
    /\ answer = [c \in Visitors |-> {}] /\ earlier = [c \in Visitors |-> {}]
    /\ early = {} /\ cutOff = {}

-----------------------------------------------------------------------------
(* Requests come, and the engine makes their objects.                       *)

Arrive(c, kind) ==
    /\ visitor[c].pc = "none"
    /\ visitor' = [visitor EXCEPT ![c] = [@ EXCEPT !.kind = kind, !.pc = "asked"]]
    /\ earlier' = [earlier EXCEPT ![c] = OfKind({"turn"}) \cap Are({"flushed"})]
    /\ UNCHANGED <<current, opened, outputs, notified, wire, answer, early, cutOff>>

\* getOrOpenConversation of the dispatcher: the one that is open, or a new one.
Conversation(i) == IF current[i] # 0 THEN current[i] ELSE opened + 1

OpenFor(c, pc) ==
    LET i == Id(visitor[c].kind)
        n == Conversation(i)
    IN  /\ visitor' = [visitor EXCEPT ![c].pc = pc, ![c].conv = n]
        /\ current' = [current EXCEPT ![i] = n]
        /\ opened' = IF n > opened THEN n ELSE opened

\* addNotificationOutput
AddNotificationOutput(c) ==
    /\ visitor[c].pc = "asked" /\ visitor[c].kind = "results"
    /\ notified' = notified \cup {c}
    /\ Becomes(c, "adding")
    /\ UNCHANGED <<current, opened, outputs, wire, answer, earlier, early, cutOff>>

\* getOrOpenConversationWebSocket: the connection is an output from start() on.
GetOrOpenConversationWebSocket(c) ==
    /\ visitor[c].pc = "asked" /\ visitor[c].kind = "conversation"
    /\ OpenFor(c, "adding")
    /\ outputs' = outputs \cup {c}
    /\ UNCHANGED <<notified, wire, answer, earlier, early, cutOff>>

\* getOrOpenConversation: the wrapper adds the delegate of the turn, with the replayHistory
\* of its options, which turns leave out: what that means is the library's affair.
GetOrOpenConversation(c) ==
    /\ visitor[c].pc = "asked" /\ visitor[c].kind \in Turns
    /\ OpenFor(c, "adding")
    /\ outputs' = outputs \cup {c}
    /\ wire' = Append(wire, [what |-> "wrapper", of |-> c, to |-> {c}])
    /\ UNCHANGED <<notified, answer, earlier, early, cutOff>>

\* getRecordingController: it holds the conversation that is open by now.
GetRecordingController(c) ==
    /\ visitor[c].pc = "asked" /\ visitor[c].kind = "recording"
    /\ OpenFor(c, "controls")
    /\ UNCHANGED <<outputs, notified, wire, answer, earlier, early, cutOff>>

\* A conversation of a dialogue, which has no inactivityTimeout of its own, is recycled
\* when nothing has come for long; that of the websockets never is.
Recycle ==
    /\ current["google_assistant"] # 0
    /\ current' = [current EXCEPT !["google_assistant"] = 0]
    /\ UNCHANGED <<visitor, opened, outputs, notified, wire, answer, earlier, early, cutOff>>

-----------------------------------------------------------------------------
(* Websockets.                                                              *)

\* The wrapper arrives; nobody destroys it if the websocket is closed already.
HasWrapper(c) ==
    /\ visitor[c].pc = "adding" /\ visitor[c].kind \in Sessions
    /\ Becomes(c, IF c \in early THEN "leaked" ELSE "open")
    /\ UNCHANGED <<current, opened, outputs, notified, wire, answer, earlier, early, cutOff>>

\* The browser closes it.  Before there is a wrapper the handler does nothing.
CloseWebsocket(c) ==
    /\ visitor[c].kind \in Sessions
    /\ \/ visitor[c].pc = "open" /\ Becomes(c, "leaving") /\ UNCHANGED early
       \/ /\ visitor[c].pc \in {"asked", "adding"} /\ c \notin early
          /\ early' = early \cup {c} /\ UNCHANGED visitor
    /\ UNCHANGED <<current, opened, outputs, notified, wire, answer, earlier, cutOff>>

\* WebSocketConnnectionWrapper.destroy, NotificationWrapper.destroy
DestroyWrapper(c) ==
    /\ visitor[c].pc = "leaving"
    /\ Becomes(c, "left")
    /\ outputs' = outputs \ {c}
    /\ notified' = notified \ {c}
    /\ UNCHANGED <<current, opened, wire, answer, earlier, early, cutOff>>

-----------------------------------------------------------------------------
(* Turns of Google Assistant.                                               *)

\* The first turn of a dialogue gives no command.
TakeWrapper(c) ==
    /\ Becomes(c, IF visitor[c].kind = "welcome" THEN "replied" ELSE "commands")
    /\ UNCHANGED answer

\* The messages of a command come one right after the other.
TakeMessages(m) ==
    /\ answer' = [c \in Visitors |->
            IF c \in m.to /\ visitor[c].pc # "flushed" THEN answer[c] \cup {m.of} ELSE answer[c]]
    /\ UNCHANGED visitor

TakeFromWire ==
    /\ wire # <<>> /\ wire' = Tail(wire)
    /\ CASE Head(wire).what = "wrapper" -> TakeWrapper(Head(wire).of)
         [] Head(wire).what = "messages" -> TakeMessages(Head(wire))
         [] OTHER -> Becomes(Head(wire).of, "replied") /\ UNCHANGED answer
    /\ UNCHANGED <<current, opened, outputs, notified, earlier, early, cutOff>>

\* Those who get what is said in a conversation, also those of turns that are over.
Hear(n) == {d \in outputs : visitor[d].conv = n}

\* handleCommand, handleThingTalk: each output of the conversation gets the
\* messages, and the call returns when the command is handled.
HandleCommand(c) ==
    /\ visitor[c].pc = "commands"
    /\ Becomes(c, "handled")
    /\ wire' = wire \o <<[what |-> "messages", of |-> c, to |-> Hear(visitor[c].conv)],
                         [what |-> "reply", of |-> c, to |-> {c}]>>
    /\ UNCHANGED <<current, opened, outputs, notified, answer, earlier, early, cutOff>>

\* addOutput of the library: a turn that is told the history gets what was said in its
\* conversation, one message after another and at any time, as nobody waits for that.
ReplayHistory(c) ==
    /\ c \in Replayed \cap OfKind(Turns) /\ visitor[c].pc \notin {"none", "asked", "flushed"}
    /\ \E d \in OfKind({"turn"}) \cap Are({"handled", "replied", "flushed"}) :
          /\ d # c /\ visitor[d].conv = visitor[c].conv
          /\ answer' = [answer EXCEPT ![c] = @ \cup {d}]
    /\ UNCHANGED <<visitor, current, opened, outputs, notified, wire, earlier, early, cutOff>>

\* The call has returned.  A bug to detect: the command is not awaited.
HasAnswer_NoAwait(c) == visitor[c].pc \in {"handled", "replied"}
HasAnswer(c) == visitor[c].pc = "replied"

\* flush: the answer is what the delegate has got.  It stays an output.
Flush(c) ==
    /\ HasAnswer(c)
    /\ Becomes(c, "flushed")
    /\ UNCHANGED <<current, opened, outputs, notified, wire, answer, earlier, early, cutOff>>

-----------------------------------------------------------------------------
(* The recording page.                                                      *)

\* Vote, comment, start, stop, status, log: on the controller's conversation.
UseController(c) ==
    /\ visitor[c].pc = "controls"
    /\ Becomes(c, "used")
    /\ UNCHANGED <<current, opened, outputs, notified, wire, answer, earlier, early, cutOff>>

\* RecordingController.destroy closes the id: the conversation that is open
\* there by now, with websockets in it.
DestroyController(c) ==
    /\ visitor[c].pc = "used"
    /\ Becomes(c, "left")
    /\ cutOff' = cutOff \cup ({current["main"]} \ {0})
    /\ current' = [current EXCEPT !["main"] = 0]
    /\ UNCHANGED <<opened, outputs, notified, wire, answer, earlier, early>>

-----------------------------------------------------------------------------
AssistantNext ==
    \/ \E c \in Visitors :
        \/ \E kind \in VisitorKinds : Arrive(c, kind)
        \/ AddNotificationOutput(c) \/ GetOrOpenConversationWebSocket(c)
        \/ GetOrOpenConversation(c) \/ GetRecordingController(c)
        \/ HasWrapper(c) \/ CloseWebsocket(c) \/ DestroyWrapper(c)
        \/ HandleCommand(c) \/ ReplayHistory(c) \/ Flush(c)
        \/ UseController(c) \/ DestroyController(c)
    \/ TakeFromWire \/ Recycle

AssistantSpec == AssistantInit /\ [][AssistantNext]_assistantVars

-----------------------------------------------------------------------------
AssistantTypeOK ==
    /\ visitor \in [Visitors -> [kind : VisitorKinds, pc : Places, conv : Nat]]
    /\ current \in [ConversationIds -> 0..opened]
    /\ opened \in Nat
    /\ outputs \cup notified \cup early \subseteq Visitors
    /\ answer \in [Visitors -> SUBSET Visitors] /\ earlier \in [Visitors -> SUBSET Visitors]

Attached(c) == IF visitor[c].kind = "results" THEN c \in notified
               ELSE c \in outputs

\* my_conversation.ts results, doConversation; engine.ts destroy: a websocket has an
\* output from when the engine made its object until that is destroyed, in any order of
\* the calls of several - and for ever if it was closed before its wrapper was there.
\* Those of a conversation that are there at one time share it, unless a request of the
\* recording page closed what was open meanwhile.
SessionsAreAttached ==
    /\ \A c \in OfKind(Sessions) :
          Attached(c) <=> visitor[c].pc \in {"adding", "open", "leaving", "leaked"}
    /\ \A c, d \in OfKind({"conversation"}) \cap Are({"adding", "open"}) :
          visitor[c].conv # visitor[d].conv => {visitor[c].conv, visitor[d].conv} \cap cutOff # {}

\* bridges/gassistant: the answer of a turn has the messages of its command, and none of
\* a command that was answered before the turn came, though the outputs of earlier turns
\* stay, turns of a dialogue overlap and its conversation is recycled - unless the
\* library tells the turn the history, which nothing in the answer keeps apart.
AnswerIsOfTurn ==
    \A c \in OfKind({"turn"}) \cap Are({"flushed"}) :
        /\ c \in answer[c]
        /\ c \notin Replayed => answer[c] \cap earlier[c] = {}

\* engine.ts: the wrappers give each visitor what he asked for, whoever comes and
\* leaves meanwhile.
VisitorsAreServed == SessionsAreAttached /\ AnswerIsOfTurn
================================================================================
