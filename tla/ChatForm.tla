-------------------------------- MODULE ChatForm -------------------------------
(****************************************************************************)
(* What the page of a conversation lets its user do (browser/               *)
(* conversation.js): the form, which the connection, the questions of the   *)
(* engine and the microphone all change, and the box that has the           *)
(* conversation recorded, which asks him to confirm it the first time.  The *)
(* answers to requests come in any order.  A request that repeats one which *)
(* is still on its way counts as one with it.  What is said is in ChatPage; *)
(* the page is that of a user who is logged in and has never recorded yet.  *)
(****************************************************************************)
EXTENDS Naturals

CONSTANTS MaxStreams    \* bound: times that access to the microphone is asked for

ASSUME ChatFormAssumption == MaxStreams \in Nat

VARIABLES
    online,         \* open, of the page
    identified,     \* conversationId is known, and the toolbar is there
    items,          \* the input can be used; the other items are visible
    asks,           \* requests for the microphone that wait for the user
    streams,        \* open streams of the microphone
    stream,         \* _stream, 0 if there was none
    isRecording,    \* _isRecording, of the voice
    audio,          \* uploads of audio that wait for the voice server
    hasty,          \* the button was clicked again before access was granted
    checked,        \* the box
    warning,        \* the dialog that asks to confirm
    requests, replies,  \* under way, about recording the conversation
    warned, mode,   \* of the engine: recordingWarned, inRecordingMode
    confirmed,      \* the user has confirmed, once
    unasked         \* recording was begun by a connection, before he had

voiceVars == <<asks, streams, stream, isRecording, audio, hasty>>
formVars == <<items, voiceVars>>
modeVars == <<checked, warning, requests, replies, warned, mode, confirmed, unasked>>
chatFormVars == <<online, identified, formVars, modeVars>>

Items == {"text", "mic", "cancel", "icon"}

ChatFormInit ==
    /\ online = FALSE /\ identified = FALSE
    /\ items = [i \in Items |-> i \in {"text", "mic"}]
    /\ asks = 0 /\ streams = {} /\ stream = 0 /\ isRecording = FALSE
    /\ audio = 0 /\ hasty = FALSE
    /\ checked = FALSE /\ warning = FALSE /\ requests = {} /\ replies = {}
    /\ warned = FALSE /\ mode = "off"
    /\ confirmed = FALSE /\ unasked = FALSE

-----------------------------------------------------------------------------
(* The form.                                                                *)

\* manInputTextCommand, by its codes
ItemChanges(sts) ==
    CASE sts = 1 -> [i \in {"text", "mic"} |-> FALSE]
      [] sts = 2 -> [i \in {"text"} |-> FALSE]
      [] sts = 3 -> [i \in {"text", "mic"} |-> TRUE]
      [] sts = 5 -> [i \in Items |-> i \in {"text", "cancel"}]
      [] sts = 6 -> [i \in {"text", "cancel"} |-> i = "text"]
      [] sts = 7 -> [i \in Items |-> i = "icon"]
      [] sts = 8 -> [i \in {"text", "icon"} |-> i = "text"]
ManInputTextCommand(f, sts) ==
    [i \in Items |-> IF i \in DOMAIN ItemChanges(sts) THEN ItemChanges(sts)[i] ELSE f[i]]

\* Whatever hides the microphone and shows the button to cancel.
ShowCancel(f) == ManInputTextCommand(ManInputTextCommand(f, 1), 5)

UpdateConnectionFeedback ==
    IF online THEN items ELSE ManInputTextCommand(ManInputTextCommand(items, 3), 8)

\* The messages that change the form say whether the engine has asked something.
SyncCancelButton(f, asked) ==
    IF asked THEN ShowCancel(f) ELSE ManInputTextCommand(ManInputTextCommand(f, 3), 6)

\* startStopRecord: a click begins by asking for the microphone.
AskMicrophone ==
    /\ items["mic"] /\ ~isRecording
    /\ asks + stream < MaxStreams
    /\ asks' = asks + 1
    /\ hasty' = (hasty \/ asks > 0)
    /\ UNCHANGED <<online, identified, items, streams, stream, isRecording, audio, modeVars>>

StartVoice ==
    /\ asks > 0 /\ asks' = asks - 1
    /\ items' = ManInputTextCommand(items, 2)
    /\ isRecording' = TRUE /\ stream' = stream + 1 /\ streams' = streams \cup {stream + 1}
    /\ UNCHANGED <<online, identified, audio, hasty, modeVars>>

Denied ==
    /\ asks > 0 /\ asks' = asks - 1
    /\ items' = ShowCancel(items)
    /\ UNCHANGED <<online, identified, streams, stream, isRecording, audio, hasty, modeVars>>

StopVoice ==
    /\ items["mic"] /\ isRecording
    /\ items' = ShowCancel(items)
    /\ isRecording' = FALSE /\ streams' = streams \ {stream} /\ audio' = audio + 1
    /\ UNCHANGED <<online, identified, asks, stream, hasty, modeVars>>

\* postAudio: the text is sent as a command.  The websocket may be closed by now.
PostAudioReturns(understood) ==
    /\ audio > 0 /\ audio' = audio - 1
    /\ items' = IF understood THEN ManInputTextCommand(items, 3) ELSE ShowCancel(items)
    /\ UNCHANGED <<online, identified, asks, streams, stream, isRecording, hasty, modeVars>>

-----------------------------------------------------------------------------
(* The connection.                                                          *)

\* refreshToolbar asks for the status.
RefreshToolbar == IF identified THEN {"status"} ELSE {}

OnMessage(f) ==
    /\ online' = TRUE /\ items' = f
    /\ UNCHANGED <<voiceVars, checked, warning, replies, warned, mode, confirmed>>

OnAskSpecial(asked) ==
    /\ OnMessage(SyncCancelButton(UpdateConnectionFeedback, asked))
    /\ requests' = requests \cup RefreshToolbar
    /\ UNCHANGED <<identified, unasked>>

OnOther ==
    /\ OnMessage(UpdateConnectionFeedback)
    /\ requests' = requests \cup RefreshToolbar
    /\ UNCHANGED <<identified, unasked>>

\* The first message of a connection: with the box checked it starts recording.
OnId ==
    /\ OnMessage(UpdateConnectionFeedback)
    /\ identified' = TRUE
    /\ requests' = requests \cup {"status"} \cup (IF checked THEN {"start"} ELSE {})
    /\ unasked' = (unasked \/ (checked /\ ~confirmed))

OnClose ==
    /\ online' = FALSE
    /\ items' = ManInputTextCommand(ManInputTextCommand(items, 1), 7)
    /\ UNCHANGED <<identified, voiceVars, modeVars>>

-----------------------------------------------------------------------------
(* Recording the conversation.                                              *)

\* What checking the box sends first, and a bug to detect: it starts at once.
FirstRequest_Start == "start"
FirstRequest == "warned"

Toggle ==
    /\ identified /\ ~warning
    /\ checked' = ~checked
    /\ requests' = requests \cup {IF checked THEN "stop" ELSE FirstRequest}
    /\ UNCHANGED <<online, identified, formVars, warning, replies, warned, mode, confirmed, unasked>>

\* /warned, /start, /stop and /status; nobody waits for the answer of /stop.
Handle(what) ==
    /\ what \in requests /\ requests' = requests \ {what}
    /\ warned' = (warned \/ what = "start")
    /\ mode' = CASE what = "start" -> "on" [] what = "stop" -> "off" [] OTHER -> mode
    /\ replies' = replies \cup
            CASE what = "warned" -> {IF warned THEN "yes" ELSE "no"}
              [] what = "status" -> {mode}
              [] what = "start" -> {"started"}
              [] what = "stop" -> {}
    /\ UNCHANGED <<online, identified, formVars, checked, warning, confirmed, unasked>>

\* The dialog is toggled; as it closes the box is cleared.
TakeAnswerOf(answer) ==
    /\ answer \in replies /\ replies' = replies \ {answer}
    /\ warning' = IF answer = "no" THEN ~warning ELSE warning
    /\ checked' = CASE answer = "on" -> TRUE
                    [] answer = "off" -> FALSE
                    [] answer = "no" /\ warning -> FALSE
                    [] OTHER -> checked
    /\ requests' = requests \cup CASE answer = "yes" -> {"start"}
                                   [] answer = "started" -> RefreshToolbar
                                   [] OTHER -> {}
    /\ UNCHANGED <<online, identified, formVars, warned, mode, confirmed, unasked>>

\* The dialog has no fade (views/conversation_mixin.pug): as it is toggled it closes at
\* once, which clears the box, and then the handler checks it.
ConfirmRecording ==
    /\ warning /\ warning' = FALSE
    /\ checked' = TRUE /\ confirmed' = TRUE
    /\ requests' = requests \cup {"start"}
    /\ UNCHANGED <<online, identified, formVars, replies, warned, mode, unasked>>

CancelRecording ==
    /\ warning /\ warning' = FALSE
    /\ checked' = FALSE
    /\ UNCHANGED <<online, identified, formVars, requests, replies, warned, mode, confirmed, unasked>>

-----------------------------------------------------------------------------
ChatFormNext ==
    \/ AskMicrophone \/ StartVoice \/ Denied \/ StopVoice
    \/ \E understood \in BOOLEAN : PostAudioReturns(understood)
    \/ \E asked \in BOOLEAN : OnAskSpecial(asked)
    \/ OnOther \/ OnId \/ OnClose
    \/ Toggle \/ ConfirmRecording \/ CancelRecording
    \/ \E what \in requests : Handle(what)
    \/ \E answer \in replies : TakeAnswerOf(answer)

ChatFormSpec == ChatFormInit /\ [][ChatFormNext]_chatFormVars

-----------------------------------------------------------------------------
ChatFormTypeOK ==
    /\ online \in BOOLEAN /\ identified \in BOOLEAN /\ isRecording \in BOOLEAN /\ hasty \in BOOLEAN
    /\ checked \in BOOLEAN /\ warning \in BOOLEAN /\ warned \in BOOLEAN
    /\ confirmed \in BOOLEAN /\ unasked \in BOOLEAN
    /\ items \in [Items -> BOOLEAN]
    /\ asks \in Nat /\ stream \in Nat /\ audio \in Nat /\ streams \subseteq 1..stream
    /\ asks + stream <= MaxStreams /\ audio <= stream
    /\ requests \subseteq {"warned", "start", "stop", "status"}
    /\ replies \subseteq {"yes", "no", "started", "on", "off"}
    /\ mode \in {"on", "off"}

\* manInputTextCommand: whoever connects, asks, records or fails, in any order,
\* the user of a page that is connected can type unless he is speaking.
CanType == online /\ ~isRecording => items["text"]

\* startStopRecord: the microphone is on only while the page records, unless the
\* button was clicked twice before access was granted: then a stream is lost.
MicrophoneIsOff == streams \subseteq {n \in {stream} : isRecording} \/ hasty

\* recording-warning ("all your commands and all the replies from Genie will be
\* stored"): nothing is recorded that the user has not confirmed, whatever order
\* the answers come in - but a connection that is made while the dialog asks
\* starts recording, as the box is checked by then, and to cancel does not stop it.
RecordingIsConfirmed == mode = "on" => confirmed \/ unasked

\* The page of a conversation does what its user asks for.
PageIsUsable == CanType /\ MicrophoneIsOff /\ RecordingIsConfirmed
================================================================================
