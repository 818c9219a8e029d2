------------------------------ MODULE AudioBus ------------------------------
(***************************************************************************)
(* What the modes of the device may rely on about the one DAC that they    *)
(* share: only the mode that is on is heard, and one mode follows another  *)
(* in silence.                                                             *)
(***************************************************************************)
CONSTANTS
  Modes,       \* the modes there are, and what else may be on the screen
  Off,         \* the one of them that a restart leaves
  Silence,     \* nothing is heard
  VoiceOf(_)   \* what is heard of a mode

VARIABLES mode, voice

TypeOK ==
  /\ mode \in Modes
  /\ voice \in {Silence} \cup {VoiceOf(m) : m \in Modes}

Init == mode = Off /\ voice = Silence

Speak ==
  /\ voice = Silence
  /\ voice' = VoiceOf(mode)
  /\ UNCHANGED mode

Hush ==
  /\ voice' = Silence
  /\ UNCHANGED mode

Switch ==
  /\ voice = Silence
  /\ mode' \in Modes
  /\ UNCHANGED voice

\* Power is lost, or the processor restarts, whatever is going on.
Restart ==
  /\ voice' = Silence
  /\ mode' = Off

Next == Speak \/ Hush \/ Switch \/ Restart

Spec == Init /\ [][Next]_<<mode, voice>>

=============================================================================
