---------------------------- MODULE VoiceSession ----------------------------
(***************************************************************************)
(* The voice layer: VoiceService (app/voice/service.py) with its capture,  *)
(* wake listener and synthesizer.                                          *)
(*                                                                         *)
(* Every change of the service's state holds its lock and is one action.   *)
(* A turn leaves the lock while it recognises, routes or waits to speak;   *)
(* the thread that awaits the end of a speech, the wake worker that heard  *)
(* the word and the conversation timer that ran out wait for the lock.     *)
(* Audio and texts are abstracted to the recording they come from.         *)
(***************************************************************************)
EXTENDS Naturals, Sequences, SequencesExt

CONSTANTS
    SettingsSet,  \* settings a person may save
    MaxRecs,      \* bound: recordings
    MaxTurns,     \* bound: turns, of recordings or typed
    MaxWaiting,   \* bound: workers, and timers, that wait for the lock
    MaxCalls      \* bound: other calls that open a stream, speak or change the settings

VARIABLES
    settings,   \* VoiceSettings: voice, mic, wake enabled; single mode
    v,          \* state, mic_state, session_active, the two input streams
    waiting,    \* wake workers and cancelled timers that wait for the lock
    timer,      \* _conversation_timer
    turns,      \* turns under way and done
    sounding,   \* the synthesizer is heard
    finishers,  \* _finish_speaking threads
    routed,     \* history: how often each recording reached the supervisor
    calls       \* calls so far

voiceHistory == <<routed, calls>>
voiceVars == <<settings, v, waiting, timer, turns, sounding, finishers, voiceHistory>>

States == {"idle", "wake_listening", "listening", "transcribing", "thinking",
           "speaking", "interrupted", "paused", "error"}
Mics == {"off", "listening", "active", "muted", "error"}
\* What becomes of the wake word runtime when a session starts it.
Devices == {"ready", "no_model", "no_device"}

ASSUME VoiceAssumption ==
    /\ SettingsSet \subseteq [voice : BOOLEAN, mic : BOOLEAN, wake : BOOLEAN, single : BOOLEAN]
    /\ MaxRecs \in Nat /\ MaxTurns \in Nat /\ MaxWaiting \in Nat /\ MaxCalls \in Nat

VoiceInit ==
    /\ settings \in {s \in SettingsSet : s.wake => s.mic}
    /\ v = [st |-> "idle", mic |-> "off", active |-> FALSE, listener |-> FALSE, rec |-> 0]
    /\ waiting = [workers |-> 0, timers |-> 0]
    /\ timer = FALSE
    /\ turns = <<>>
    /\ sounding = FALSE /\ finishers = 0
    /\ routed = <<>> /\ calls = 0

(***************************************************************************)
(* Effects on the state of the service                                     *)
(***************************************************************************)
\* _transition, with the microphone indicator the caller sets.
At(w, st, mic) == [w EXCEPT !.st = st, !.mic = mic]
Failed(w) == At(w, "error", "off")
DeviceFailed(w) == At(w, "paused", "error")

\* The device may be gone each time it is looked up.
WakeStarted(w, device) ==
    IF device THEN [At(w, "wake_listening", "active") EXCEPT !.listener = TRUE]
    ELSE DeviceFailed(w)

SessionStarted(w, d) ==
    CASE ~settings.voice -> Failed(w)
      [] settings.voice /\ ~settings.wake -> [At(w, "idle", "off") EXCEPT !.active = TRUE]
      [] settings.voice /\ settings.wake /\ d = "no_model" -> [Failed(w) EXCEPT !.active = FALSE]
      [] OTHER -> WakeStarted([w EXCEPT !.active = TRUE], d = "ready")

\* AudioCaptureService.start keeps a stream that is open.
Capturing(w) == [At(w, "listening", "listening") EXCEPT
                    !.rec = IF @ = 0 THEN Len(routed) + 1 ELSE @]
Recorded == routed' = IF v.rec = 0 /\ v'.rec # 0 THEN Append(routed, 0) ELSE routed

\* A cancelled timer may have run out and wait for the lock.
TimerCancelled ==
    \/ UNCHANGED waiting
    \/ timer /\ waiting.timers < MaxWaiting /\ waiting' = [waiting EXCEPT !.timers = @ + 1]

CancelTimeout == TimerCancelled /\ timer' = FALSE
ArmTimeout == TimerCancelled /\ timer' = (v'.active /\ ~settings.single)

Stopped(w) == [At(w, "idle", "off") EXCEPT !.active = FALSE, !.listener = FALSE, !.rec = 0]

Call == calls < MaxCalls /\ calls' = calls + 1

(***************************************************************************)
(* The person's calls                                                      *)
(***************************************************************************)
\* Mutant: the state is kept.
BugUpdateSettings(s) ==
    /\ Call
    /\ IF s.voice THEN UNCHANGED <<v, timer, waiting, sounding>>
       ELSE v' = Stopped(v) /\ CancelTimeout /\ sounding' = FALSE
    /\ settings' = IF s.wake /\ ~s.mic THEN settings ELSE s
    /\ UNCHANGED <<turns, finishers, routed>>

\* A wake word without the microphone is refused, after the stop.
UpdateSettings(s) ==
    /\ Call
    /\ LET w == IF s.voice THEN v ELSE Stopped(v)
           refused == s.wake /\ ~s.mic
       IN /\ v' = IF refused THEN w ELSE [w EXCEPT !.st = "idle"]
          /\ settings' = IF refused THEN settings ELSE s
    /\ IF s.voice THEN UNCHANGED <<timer, waiting, sounding>>
       ELSE CancelTimeout /\ sounding' = FALSE
    /\ UNCHANGED <<turns, finishers, routed>>

StartSession(d) ==
    /\ Call
    /\ v' = SessionStarted(v, d)
    /\ UNCHANGED <<settings, waiting, timer, turns, sounding, finishers, routed>>

\* now: the device is there when ptt_start looks.  A session it has to start sets the
\* state first, so only a session that was active is seen speaking.
PttStart(d, now) ==
    /\ Len(routed) < MaxRecs
    /\ CancelTimeout
    /\ LET w == IF v.active THEN v ELSE SessionStarted(v, d)
           capture == (v.active \/ w.st # "error") /\ settings.mic /\ now
       IN /\ v' = CASE ~v.active /\ w.st = "error" -> w
                    [] ~settings.mic /\ ~(~v.active /\ w.st = "error") -> At(w, "error", "error")
                    [] capture -> Capturing([w EXCEPT !.listener = FALSE])
                    [] OTHER -> DeviceFailed(w)
          /\ sounding' = (sounding /\ ~(capture /\ w.st = "speaking"))
    /\ Recorded
    /\ UNCHANGED <<settings, turns, finishers, calls>>

NewTurn(rec) == [phase |-> "asr", rec |-> rec]

\* Mutant: the stream stays open.
BugPttStop ==
    /\ v.rec # 0 => Len(turns) < MaxTurns
    /\ IF v.rec = 0 THEN v' = Failed(v) /\ UNCHANGED turns
       ELSE /\ v' = At(v, "transcribing", "off")
            /\ turns' = Append(turns, NewTurn(v.rec))
    /\ UNCHANGED <<settings, waiting, timer, sounding, finishers, voiceHistory>>

PttStop ==
    /\ v.rec # 0 => Len(turns) < MaxTurns
    /\ IF v.rec = 0 THEN v' = Failed(v) /\ UNCHANGED turns
       ELSE /\ v' = [At(v, "transcribing", "off") EXCEPT !.rec = 0]
            /\ turns' = Append(turns, NewTurn(v.rec))
    /\ UNCHANGED <<settings, waiting, timer, sounding, finishers, voiceHistory>>

\* The thread that watches a wake recording ends it after a silence or eight seconds.
MonitorStops == v.rec # 0 /\ v.st = "listening" /\ PttStop

\* submit_final of a typed transcript.
Typed ==
    /\ Len(turns) < MaxTurns
    /\ turns' = Append(turns, NewTurn(0))
    /\ UNCHANGED <<settings, v, waiting, timer, sounding, finishers, voiceHistory>>

\* speak: a RuntimeError fails; another error of the synthesizer leaves the state.
Speak(outcome) ==
    IF ~settings.voice THEN v' = Failed(v) /\ UNCHANGED <<sounding, finishers>>
    ELSE LET w == [At(v, "speaking", "muted") EXCEPT !.listener = FALSE]
         IN /\ v' = IF outcome = "unavailable" THEN Failed(w) ELSE w
            /\ sounding' = (outcome = "heard" \/ sounding)
            /\ finishers' = finishers + (IF outcome = "heard" THEN 1 ELSE 0)
SpeakOutcomes == {"heard", "unavailable", "raises"}

SpeakCall(outcome) ==
    /\ Call /\ Speak(outcome)
    /\ UNCHANGED <<settings, waiting, timer, turns, routed>>

Pause ==
    /\ CancelTimeout
    /\ v' = [At(v, "paused", "muted") EXCEPT !.listener = FALSE, !.rec = 0]
    /\ sounding' = FALSE
    /\ UNCHANGED <<settings, turns, finishers, voiceHistory>>

Resume(device) ==
    /\ Call
    /\ v' = IF settings.wake /\ v.active THEN WakeStarted(v, device) ELSE At(v, "idle", "off")
    /\ UNCHANGED <<settings, waiting, timer, turns, sounding, finishers, routed>>

Stop ==
    /\ CancelTimeout
    /\ v' = Stopped(v)
    /\ sounding' = FALSE
    /\ UNCHANGED <<settings, turns, finishers, voiceHistory>>

(***************************************************************************)
(* A turn                                                                  *)
(***************************************************************************)
Done == [phase |-> "done", rec |-> 0]
To(t, phase) == turns' = [turns EXCEPT ![t] = [phase |-> phase, rec |-> 0]]
End(t) == turns' = [turns EXCEPT ![t] = Done]
Turn(t, phase) == t \in DOMAIN turns /\ turns[t].phase = phase

\* No speech, or a recogniser that fails.
NotRecognised(t) ==
    /\ Turn(t, "asr") /\ turns[t].rec # 0 /\ End(t)
    /\ v' = Failed(v)
    /\ UNCHANGED <<settings, waiting, timer, sounding, finishers, voiceHistory>>

\* A recogniser that exceeds its time raises no RuntimeError: the state stays.
RecogniserTimesOut(t) ==
    /\ Turn(t, "asr") /\ turns[t].rec # 0 /\ End(t)
    /\ UNCHANGED <<settings, v, waiting, timer, sounding, finishers, voiceHistory>>

\* submit_final, of what was recognised or typed.
EmptyTranscript(t) ==
    /\ Turn(t, "asr") /\ End(t)
    /\ v' = Failed(v)
    /\ UNCHANGED <<settings, waiting, timer, sounding, finishers, voiceHistory>>

\* A local command is done outside the lock and reaches no model: stop, cancel, pause
\* and reject silence the synthesizer first, resume, approve and a test do not.
LocalCommand(t, silences) ==
    /\ Turn(t, "asr") /\ To(t, "reply")
    /\ sounding' = (sounding /\ ~silences)
    /\ UNCHANGED <<settings, v, waiting, timer, finishers, voiceHistory>>

Forward(t, execute) ==
    /\ Turn(t, "asr")
    /\ IF execute THEN turns' = [turns EXCEPT ![t].phase = "route"] ELSE To(t, "reply")
    /\ v' = [v EXCEPT !.st = "thinking"]
    /\ UNCHANGED <<settings, waiting, timer, sounding, finishers, voiceHistory>>

Route(t) ==
    /\ Turn(t, "route")
    /\ routed' = IF turns[t].rec = 0 THEN routed ELSE [routed EXCEPT ![turns[t].rec] = @ + 1]
    /\ UNCHANGED <<settings, waiting, timer, sounding, finishers, calls>>

SupervisorAnswers(t) == Route(t) /\ To(t, "answer") /\ UNCHANGED v

\* Mutant: only the error code is set.
BugSupervisorFails(t) == Route(t) /\ End(t) /\ UNCHANGED v

SupervisorFails(t) == Route(t) /\ End(t) /\ v' = Failed(v)

\* The turn is over, whatever has begun in the meantime.
Complete(t, device) ==
    /\ Turn(t, "reply") \/ Turn(t, "answer")
    /\ LET say == turns[t].phase = "answer"
           w == [v EXCEPT !.st = "idle", !.active = @ /\ ~settings.single]
           wakes == ~settings.single /\ ~say /\ settings.wake /\ v.active
       IN /\ v' = IF wakes THEN WakeStarted(w, device) ELSE w
          /\ IF wakes /\ ~device THEN End(t) ELSE To(t, IF say THEN "say" ELSE "arm")
    /\ UNCHANGED <<settings, waiting, timer, sounding, finishers, voiceHistory>>

\* Only a speech that failed is followed by _unsaid; the lock is free in between.
Say(t, outcome) ==
    /\ Turn(t, "say") /\ Speak(outcome)
    /\ IF v'.st = "error" THEN To(t, "unsaid") ELSE End(t)
    /\ UNCHANGED <<settings, waiting, timer, voiceHistory>>

Unsaid(t) ==
    /\ Turn(t, "unsaid") /\ End(t)
    /\ v' = At(v, "idle", "off")
    /\ UNCHANGED <<settings, waiting, timer, sounding, finishers, voiceHistory>>

Arm(t) ==
    /\ Turn(t, "arm") /\ End(t)
    /\ UNCHANGED v /\ ArmTimeout
    /\ UNCHANGED <<settings, sounding, finishers, voiceHistory>>

(***************************************************************************)
(* Threads                                                                 *)
(***************************************************************************)
\* The wait ends with the speech, with an earlier one that was cut off, or by its
\* time limit; what is heard then is not asked.
FinishSpeaking(device) ==
    /\ finishers > 0 /\ finishers' = finishers - 1
    /\ IF v.st = "speaking"
       THEN LET w == At(v, "idle", "off")
                wakes == settings.wake /\ v.active
            IN /\ v' = IF wakes THEN WakeStarted(w, device) ELSE w
               /\ IF wakes /\ ~device THEN UNCHANGED <<timer, waiting>> ELSE ArmTimeout
       ELSE UNCHANGED <<v, timer, waiting>>
    /\ UNCHANGED <<settings, turns, sounding, voiceHistory>>

SoundEnds ==
    /\ sounding /\ sounding' = FALSE
    /\ UNCHANGED <<settings, v, waiting, timer, turns, finishers, voiceHistory>>

\* The wake worker that heard the word, or failed, closes its stream before it asks for
\* the lock; stop() waits for it one second, which a worker that waits outlives.
Hears ==
    /\ v.listener /\ v.st # "speaking" /\ waiting.workers < MaxWaiting
    /\ v' = [v EXCEPT !.listener = FALSE]
    /\ waiting' = [waiting EXCEPT !.workers = @ + 1]
    /\ UNCHANGED <<settings, timer, turns, sounding, finishers, voiceHistory>>

WakeDetected(device) ==
    /\ waiting.workers > 0 /\ waiting' = [waiting EXCEPT !.workers = @ - 1]
    /\ IF ~v.active \/ v.st # "wake_listening" THEN UNCHANGED v
       ELSE /\ device => Len(routed) < MaxRecs
            /\ v' = IF device THEN Capturing(v) ELSE DeviceFailed(v)
    /\ Recorded
    /\ UNCHANGED <<settings, timer, turns, sounding, finishers, calls>>

WakeFailed ==
    /\ waiting.workers > 0 /\ waiting' = [waiting EXCEPT !.workers = @ - 1]
    /\ v' = Failed(v)
    /\ UNCHANGED <<settings, timer, turns, sounding, finishers, voiceHistory>>

\* Mutant: the recording in progress is not spared.
BugConversationTimedOut(cancelled) ==
    /\ IF cancelled THEN waiting.timers > 0 ELSE timer
    /\ timer' = FALSE
    /\ waiting' = IF cancelled /\ ~timer THEN [waiting EXCEPT !.timers = @ - 1] ELSE waiting
    /\ v' = [v EXCEPT !.active = FALSE, !.listener = FALSE, !.mic = "off"]
    /\ UNCHANGED <<settings, turns, sounding, finishers, voiceHistory>>

\* A cancelled timer forgets the armed one, which can no longer be cancelled.
ConversationTimedOut(cancelled) ==
    /\ IF cancelled THEN waiting.timers > 0 ELSE timer
    /\ timer' = FALSE
    /\ waiting' = IF cancelled /\ ~timer THEN [waiting EXCEPT !.timers = @ - 1] ELSE waiting
    /\ v' = IF v.st \notin {"idle", "wake_listening"} THEN v
            ELSE [At(v, "idle", "off") EXCEPT !.active = FALSE, !.listener = FALSE]
    /\ UNCHANGED <<settings, turns, sounding, finishers, voiceHistory>>

Person ==
    \/ \E s \in SettingsSet : UpdateSettings(s)
    \/ \E d \in Devices : StartSession(d)
    \/ \E d \in Devices, now \in BOOLEAN : PttStart(d, now)
    \/ PttStop \/ Typed
    \/ \E outcome \in SpeakOutcomes : SpeakCall(outcome)
    \/ Pause \/ Stop
    \/ \E device \in BOOLEAN : Resume(device)

Answered(t) ==
    \/ SupervisorAnswers(t) \/ SupervisorFails(t)
    \/ \E device \in BOOLEAN : Complete(t, device)

TurnStep(t) ==
    \/ NotRecognised(t) \/ RecogniserTimesOut(t) \/ EmptyTranscript(t)
    \/ \E silences \in BOOLEAN : LocalCommand(t, silences)
    \/ \E execute \in BOOLEAN : Forward(t, execute)
    \/ Answered(t)
    \/ \E outcome \in SpeakOutcomes : Say(t, outcome)
    \/ Unsaid(t) \/ Arm(t)

Finisher == \E device \in BOOLEAN : FinishSpeaking(device)

Threads ==
    \/ Finisher \/ SoundEnds
    \/ MonitorStops \/ Hears
    \/ \E device \in BOOLEAN : WakeDetected(device)
    \/ WakeFailed
    \/ \E cancelled \in BOOLEAN : ConversationTimedOut(cancelled)

VoiceNext == Person \/ (\E t \in 1..MaxTurns : TurnStep(t)) \/ Threads

\* The supervisor's calls and the wait for the end of a speech have time limits.
VoiceSpec ==
    /\ VoiceInit /\ [][VoiceNext]_voiceVars
    /\ WF_voiceVars(Finisher) /\ \A t \in 1..MaxTurns : WF_voiceVars(Answered(t))

(***************************************************************************)
(* Properties                                                              *)
(***************************************************************************)
Phases == {"asr", "route", "reply", "answer", "say", "unsaid", "arm", "done"}
VoiceTypeOK ==
    /\ settings \in SettingsSet /\ (settings.wake => settings.mic)
    /\ v \in [st : States, mic : Mics, active : BOOLEAN, listener : BOOLEAN,
              rec : 0..Len(routed)]
    /\ waiting \in [workers : 0..MaxWaiting, timers : 0..MaxWaiting]
    /\ timer \in BOOLEAN
    /\ turns \in Seq([phase : Phases, rec : 0..Len(routed)])
    /\ sounding \in BOOLEAN /\ finishers \in Nat
    /\ routed \in Seq(Nat) /\ Len(routed) <= MaxRecs /\ Len(turns) <= MaxTurns
    /\ calls \in 0..MaxCalls

\* While the service says it listens it does record, in a session, and shows it: no
\* timer, late turn or settings change takes the session away under it (126-150, 471-483).
ListeningRecords ==
    v.st = "listening" => v.rec # 0 /\ v.active /\ v.mic = "listening"

\* A microphone stream is opened only in a session and while voice and microphone are
\* enabled, also by the threads that waited for the lock meanwhile (87-148, 372-405).
OpensWithConsent ==
    [][(v.rec = 0 /\ v'.rec # 0) \/ (~v.listener /\ v'.listener)
           => v'.active /\ settings.voice /\ settings.mic]_voiceVars

\* The person and the monitor may both end a recording: it is routed once (159-171).
RoutedOnce == \A r \in DOMAIN routed : routed[r] <= 1

\* A speech whose end is awaited does not hold the state (312-328).
SpeakingEnds == (v.st = "speaking" /\ finishers > 0) ~> v.st # "speaking"

\* Routing ends in an answer or an error, whatever the supervisor does (217-245).
ThinkingEnds == v.st = "thinking" ~> v.st # "thinking"

\* So no turn holds the service.
TurnsEnd == SpeakingEnds /\ ThinkingEnds
=============================================================================
