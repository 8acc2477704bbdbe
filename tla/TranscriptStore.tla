--------------------------- MODULE TranscriptStore ---------------------------
(***************************************************************************)
(* What the service promises of one meeting's utterances, whatever runs,   *)
(* fails or is restarted below: an utterance is stored with its audio; its *)
(* transcript is made, once and for all, from audio that is still there;   *)
(* only then may the audio go.                                             *)
(***************************************************************************)
CONSTANT Chunks

VARIABLES stored, audio, transcribed

storeVars == <<stored, audio, transcribed>>

StoreInit == stored = {} /\ audio = {} /\ transcribed = {}

Store(c) ==
  /\ c \notin stored
  /\ stored' = stored \cup {c}
  /\ audio' = audio \cup {c}
  /\ UNCHANGED transcribed

Transcribe(c) ==
  /\ c \in stored \cap audio
  /\ transcribed' = transcribed \cup {c}
  /\ UNCHANGED <<stored, audio>>

Discard(S) ==
  /\ S \subseteq transcribed
  /\ audio' = audio \ S
  /\ UNCHANGED <<stored, transcribed>>

StoreNext ==
  \/ \E c \in Chunks : Store(c) \/ Transcribe(c)
  \/ \E S \in SUBSET Chunks : Discard(S)

StoreSpec == StoreInit /\ [][StoreNext]_storeVars
=============================================================================
