--------------------------------- MODULE Voice ---------------------------------
(******************************************************************************)
(* Speech that a browser streams over a websocket of the NLP server           *)
(* (streamSTT, and recognizeStream of the Microsoft back end).  Nobody is in  *)
(* charge of the end: the browser says so with an empty packet, stops sending *)
(* or just leaves, the service hears silence or finds nothing to recognize,   *)
(* the first packet never comes, or comes when the websocket is being closed. *)
(* Every one of them has its own timer or callback.                           *)
(*                                                                            *)
(* A websocket that one side has closed still delivers what was sent before:  *)
(* "closing".  It has no event 'end', so that the handler of it never runs.   *)
(******************************************************************************)
EXTENDS Naturals

CONSTANT MaxPackets     \* bound: packets of the browser

ASSUME VoiceAssumption == MaxPackets \in Nat

VARIABLES ws,             \* "none", "open", "closing" or "closed"
          listening,      \* the handler of messages: "initial", "audio" or "nothing"
          sessionTimeout, \* the timer for the first packet runs
          recognizer,     \* the service's, until it is closed; "leaked" if never
          timerLastFrame, \* the interval runs
          lastFC,         \* intervals since the last packet
          audio,          \* the stream that the service reads; _ended when closed
          fullText,       \* something was recognized
          packets         \* bound: packets still to come

voiceVars == <<ws, listening, sessionTimeout, recognizer, timerLastFrame, lastFC, audio,
               fullText, packets>>
recognizerVars == <<recognizer, timerLastFrame, lastFC, audio, fullText>>

VoiceInit ==
    /\ ws = "none" /\ listening = "nothing" /\ sessionTimeout = FALSE
    /\ recognizer = "none" /\ timerLastFrame = FALSE /\ lastFC = 0
    /\ audio = "none" /\ fullText = FALSE
    /\ packets = MaxPackets

\* streamSTT: languages that are not supported are refused at once.
OpenVoice(supported) ==
    /\ ws = "none"
    /\ IF supported
       THEN ws' = "open" /\ listening' = "initial" /\ sessionTimeout' = TRUE
       ELSE ws' = "closing" /\ UNCHANGED <<listening, sessionTimeout>>
    /\ UNCHANGED <<recognizerVars, packets>>

-----------------------------------------------------------------------------
\* errorClose, and ws.send() with ws.close(): no effect unless it is open.
Closes == ws' = IF ws = "open" THEN "closing" ELSE ws

\* The browser leaves, or answers that the websocket is being closed.
Closed ==
    /\ ws \in {"open", "closing"}
    /\ ws' = "closed" /\ sessionTimeout' = FALSE
    /\ UNCHANGED <<recognizerVars, listening, packets>>

SessionTimeout ==
    /\ sessionTimeout /\ sessionTimeout' = FALSE
    /\ Closes
    /\ UNCHANGED <<recognizerVars, listening, packets>>

Arrives(handler) == /\ listening = handler /\ ws # "closed" /\ packets > 0
                    /\ packets' = packets - 1

\* A first packet that is malformed, or of another version.
BadInitialPacket ==
    /\ Arrives("initial")
    /\ listening' = "nothing" /\ sessionTimeout' = FALSE
    /\ Closes
    /\ UNCHANGED recognizerVars

InitialPacket ==
    /\ Arrives("initial")
    /\ listening' = "audio" /\ sessionTimeout' = FALSE
    /\ recognizer' = "starting" /\ audio' = "open"
    /\ UNCHANGED <<ws, timerLastFrame, lastFC, fullText>>

\* A bug to detect: the service is not told that there is no more audio.
StopRecognizer_Open == timerLastFrame' = FALSE /\ UNCHANGED audio
StopRecognizer == timerLastFrame' = FALSE /\ audio' = "closed"

AudioPacket ==
    /\ Arrives("audio")
    /\ lastFC' = 0
    /\ UNCHANGED <<ws, listening, sessionTimeout, recognizer, timerLastFrame, audio, fullText>>

EmptyPacket ==
    /\ Arrives("audio")
    /\ StopRecognizer
    /\ UNCHANGED <<ws, listening, sessionTimeout, recognizer, lastFC, fullText>>

\* Every 500 ms.
LastFrameTick ==
    /\ timerLastFrame
    /\ IF lastFC >= 2 THEN StopRecognizer ELSE UNCHANGED <<timerLastFrame, audio>>
    /\ lastFC' = IF lastFC > 2 THEN lastFC ELSE lastFC + 1
    /\ UNCHANGED <<ws, listening, sessionTimeout, recognizer, fullText, packets>>

-----------------------------------------------------------------------------
(* The callbacks of the service.                                            *)

\* The interval is set even if the browser has already ended.
Started ==
    /\ recognizer = "starting"
    /\ recognizer' = "running" /\ timerLastFrame' = TRUE
    /\ UNCHANGED <<ws, listening, sessionTimeout, lastFC, audio, fullText, packets>>

StartFails ==
    /\ recognizer = "starting"
    /\ recognizer' = "closed" /\ Closes
    /\ UNCHANGED <<listening, sessionTimeout, timerLastFrame, lastFC, audio, fullText, packets>>

RecognizedSpeech ==
    /\ recognizer = "running"
    /\ fullText' = TRUE
    /\ UNCHANGED <<ws, listening, sessionTimeout, recognizer, timerLastFrame, lastFC, audio, packets>>

\* Also when it finds nothing to recognize.
SessionStopped ==
    /\ recognizer = "running"
    /\ recognizer' = "stopping" /\ timerLastFrame' = FALSE
    /\ UNCHANGED <<ws, listening, sessionTimeout, lastFC, audio, fullText, packets>>

\* The answer is the text, or an error if there is none.
Stopped ==
    /\ recognizer = "stopping"
    /\ recognizer' = "closed" /\ Closes
    /\ UNCHANGED <<listening, sessionTimeout, timerLastFrame, lastFC, audio, fullText, packets>>

StopFails ==
    /\ recognizer = "stopping"
    /\ recognizer' = "leaked" /\ Closes
    /\ UNCHANGED <<listening, sessionTimeout, timerLastFrame, lastFC, audio, fullText, packets>>

-----------------------------------------------------------------------------
VoiceNext ==
    \/ \E supported \in BOOLEAN : OpenVoice(supported)
    \/ Closed \/ SessionTimeout \/ BadInitialPacket \/ InitialPacket \/ AudioPacket
    \/ EmptyPacket \/ LastFrameTick \/ Started \/ StartFails \/ RecognizedSpeech
    \/ SessionStopped \/ Stopped \/ StopFails

\* Timers fire.  The service answers what it is asked, and ends the session
\* when the audio has ended; nothing says that the browser ever does anything.
\* A websocket that we close is closed after 30 s, whatever the browser does.
VoiceFairness ==
    /\ WF_voiceVars(SessionTimeout) /\ WF_voiceVars(LastFrameTick)
    /\ WF_voiceVars(Started \/ StartFails) /\ WF_voiceVars(Stopped \/ StopFails)
    /\ WF_voiceVars(audio = "closed" /\ SessionStopped)
    /\ WF_voiceVars(ws = "closing" /\ Closed)

VoiceSpec == VoiceInit /\ [][VoiceNext]_voiceVars /\ VoiceFairness

-----------------------------------------------------------------------------
VoiceTypeOK ==
    /\ ws \in {"none", "open", "closing", "closed"}
    /\ listening \in {"initial", "audio", "nothing"}
    /\ recognizer \in {"none", "starting", "running", "stopping", "closed", "leaked"}
    /\ audio \in {"none", "open", "closed"}
    /\ lastFC \in 0..3
    /\ {sessionTimeout, timerLastFrame, fullText} \subseteq BOOLEAN
    /\ packets \in 0..MaxPackets

\* streamSTT and recognizeStream: whoever stops first, and in whatever order the
\* timers and callbacks run, in the end the websocket is closed, no timer runs,
\* and no recognizer of the service is left running - except for one that could
\* not be stopped, which nobody closes.
VoiceEnds ==
    <>[](/\ ws \in {"none", "closed"} /\ ~sessionTimeout /\ ~timerLastFrame
         /\ recognizer \in {"none", "closed", "leaked"})
================================================================================
