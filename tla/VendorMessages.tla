-------------------------- MODULE VendorMessages --------------------------
(***************************************************************************)
(* What each speech-to-text adapter makes of the messages of its vendor:   *)
(* the parse functions of src/gateway/.../providers/<vendor>/adapter.py.   *)
(*                                                                         *)
(* Audio comes in chunks 1, 2, ...; chunk i lies between seconds i-1 and i *)
(* of the stream.  A text is the set of chunks it transcribes, so that a   *)
(* lost, repeated or misplaced word can be told; the empty set is blank    *)
(* text.  A parse takes a message m and the state st the adapter keeps     *)
(* between messages, and says what events() yields (out), the next state,  *)
(* and whether the loop reads on, returns, or raises.  An error frame is   *)
(* about the server or about the request (m.server): what matters is which *)
(* of them a fresh connection is tried for.  speech_started, words,        *)
(* speakers, languages and raw payloads are left out.                      *)
(* A definition named as a mutant in PROJECT.json stands just before the   *)
(* one it would replace.                                                   *)
(***************************************************************************)
EXTENDS Integers, Sequences

NoTime == -1

Span(a, b) == [text |-> a .. b, start |-> a - 1, end |-> b]
Transcript(final, text, start, end) ==
  [type |-> "transcript", final |-> final, text |-> text, start |-> start, end |-> end]
UtteranceEnd(at) == [type |-> "utterance_end", at |-> at]

Says(out, st) == [out |-> out, st |-> st, then |-> "read"]
Returns(out, st) == [out |-> out, st |-> st, then |-> "return"]
Raises(recoverable, st) ==
  [out |-> <<>>, st |-> st, then |-> IF recoverable THEN "recoverable" ELSE "fatal"]

(* `if text.strip()`: a blank text yields no transcript *)
Said(final, m) ==
  IF m.text = {} THEN <<>> ELSE <<Transcript(final, m.text, m.start, m.end)>>
Untimed(final, text) ==
  IF text = {} THEN <<>> ELSE <<Transcript(final, text, NoTime, NoTime)>>

----------------------------------------------------------------------------
(* Deepgram nova: st is the end of the last utterance announced.  A gap    *)
(* signal for an utterance speech_final already closed is suppressed.      *)
DeepgramParse(m, st) ==
  CASE m.kind = "Results" /\ m.ends -> Says(Said(m.final, m) \o <<UtteranceEnd(m.end)>>, m.end)
    [] m.kind = "Results" /\ ~m.ends -> Says(Said(m.final, m), st)
    [] m.kind = "UtteranceEnd" /\ m.at > st -> Says(<<UtteranceEnd(m.at)>>, m.at)
    [] OTHER -> Says(<<>>, st)

(* Deepgram Flux: st is the newest Update that no EndOfTurn has closed     *)
FluxParse(m, st) ==
  LET turn == Said(m.final, m) IN
  IF m.kind = "error" THEN Raises(TRUE, st)
  ELSE IF m.kind = "TurnInfo" /\ turn # <<>>
  THEN Says(turn \o IF m.final THEN <<UtteranceEnd(m.end)>> ELSE <<>>,
            IF m.final THEN <<>> ELSE turn)
  ELSE Says(<<>>, st)

FluxForgetsUpdate(st) == <<>>

(* on a close that is not an error the newest Update becomes final         *)
FluxAtClose(st) ==
  IF st = <<>> THEN <<>>
  ELSE <<[st[1] EXCEPT !.final = TRUE], UtteranceEnd(st[1].end)>>

(* Soniox: finals append unless they overlap audio already final; the      *)
(* provisional tokens are replaced by every message that has tokens.       *)
SonioxParse(m, st) ==
  LET fresh == {c \in m.fin : st.max = 0 \/ c - 1 >= st.max}
      max == IF fresh = {} THEN st.max
             ELSE CHOOSE c \in fresh : \A d \in fresh : d <= c
      pending == st.pending \cup fresh
      flush == m.ends \/ m.finished \/ m.non = {}
      left == IF flush THEN {} ELSE pending
      Of(tokens, final) ==
        IF tokens = {} THEN <<>>
        ELSE <<Transcript(final, tokens, (CHOOSE c \in tokens : \A d \in tokens : c <= d) - 1,
                                          CHOOSE c \in tokens : \A d \in tokens : c >= d)>>
      out == (IF flush THEN Of(pending, TRUE) ELSE <<>>)
               \o (IF m.ends THEN <<UtteranceEnd(max)>> ELSE <<>>)
               \o Of(left \cup m.non, FALSE)
      next == [pending |-> left, max |-> max]
  IN IF m.kind = "error" THEN Raises(m.server, st)
     ELSE IF m.finished THEN Returns(out, next)
     ELSE IF m.fin \cup m.non = {} /\ ~m.ends THEN Says(<<>>, st)
     ELSE Says(out, next)

(* AssemblyAI: events() looks for "Termination" anywhere in the raw frame,  *)
(* so a turn one of whose words is that word reads as the end (m.word).     *)
(* The unformatted copy of a finished turn is dropped.                      *)
AssemblyParse(m, st) ==
  CASE m.kind = "Termination" \/ m.word -> Returns(<<>>, st)
    [] m.kind = "error" -> Raises(m.server, st)
    [] m.kind = "Turn" /\ ~m.word /\ m.ends /\ ~m.formatted -> Says(<<>>, st)
    [] OTHER ->
         LET final == m.ends /\ m.formatted
         IN Says(Said(final, m)
                   \o IF final /\ m.text # {} THEN <<UtteranceEnd(m.end)>> ELSE <<>>, st)

ElevenKeepsBoth(m, st) ==
  CASE m.kind = "partial" -> Says(Untimed(FALSE, m.text), st)
    [] m.kind \in {"committed", "committed_with_timestamps"} -> Says(Said(TRUE, m), st)
    [] OTHER -> Says(<<>>, st)

(* ElevenLabs: every commit comes twice, and the plain one is dropped       *)
ElevenParse(m, st) ==
  CASE m.kind = "partial" -> Says(Untimed(FALSE, m.text), st)
    [] m.kind = "committed_with_timestamps" -> Says(Said(TRUE, m), st)
    [] m.kind = "error" -> Raises(m.server, st)
    [] OTHER -> Says(<<>>, st)

(* OpenAI realtime: st[item] is the text the deltas of an item add up to    *)
OpenAIParse(m, st) ==
  CASE m.kind = "delta" ->
         LET text == st[m.item] \cup m.text
         IN Says(Untimed(FALSE, text), [st EXCEPT ![m.item] = text])
    [] m.kind = "completed" -> Says(Untimed(TRUE, m.text), [st EXCEPT ![m.item] = {}])
    [] m.kind = "speech_stopped" -> Says(<<UtteranceEnd(m.at)>>, st)
    [] m.kind = "error" -> Raises(m.server, st)
    [] OTHER -> Says(<<>>, st)

MistralKeepsHypothesis(m, st) ==
  CASE m.kind = "delta" ->
         LET text == st.hypothesis \cup m.text
         IN Says(Untimed(FALSE, text), [st EXCEPT !.hypothesis = text])
    [] m.kind = "segment" -> Says(Said(TRUE, m), [st EXCEPT !.segments = @ + 1])
    [] m.kind = "done" ->
         Returns(IF st.segments = 0 THEN Untimed(TRUE, m.text) ELSE <<>>, st)
    [] OTHER -> Says(<<>>, st)

(* Mistral: the full text of `done` is a final only if no segment was       *)
MistralParse(m, st) ==
  CASE m.kind = "delta" ->
         LET text == st.hypothesis \cup m.text
         IN Says(Untimed(FALSE, text), [st EXCEPT !.hypothesis = text])
    [] m.kind = "segment" ->
         Says(Said(TRUE, m),
              [hypothesis |-> {}, segments |-> st.segments + IF m.text = {} THEN 0 ELSE 1])
    [] m.kind = "done" ->
         Returns(IF st.segments = 0 THEN Untimed(TRUE, m.text) ELSE <<>>, st)
    [] m.kind = "error" -> Raises(m.server, st)
    [] OTHER -> Says(<<>>, st)

(* Cartesia: a final is the delta since the last one; `done` acks `close`   *)
CartesiaParse(m, st) ==
  CASE m.kind = "transcript" -> Says(Said(m.final, m), st)
    [] m.kind = "done" -> Returns(<<>>, st)
    [] m.kind = "error" -> Raises(m.server, st)
    [] OTHER -> Says(<<>>, st)

(* Cartesia turns: no times on the wire; endpoints carry the adapter's      *)
(* clock, the seconds of audio sent so far                                  *)
TurnsParse(m, st, clock) ==
  CASE m.kind = "turn.update" -> Says(Untimed(FALSE, m.text), st)
    [] m.kind = "turn.end" -> Says(Untimed(TRUE, m.text) \o <<UtteranceEnd(clock)>>, st)
    [] m.kind = "error" -> Raises(m.server, st)
    [] OTHER -> Says(<<>>, st)

AWSEndpointFirst(m, st) ==
  Says((IF m.final /\ m.text # {} THEN <<UtteranceEnd(m.end)>> ELSE <<>>) \o Said(m.final, m), st)

(* Amazon Transcribe: the end of a final segment is the utterance boundary  *)
AWSParse(m, st) ==
  IF m.kind = "error" THEN Raises(m.server, st)
  ELSE Says(Said(m.final, m)
              \o IF m.final /\ m.text # {} THEN <<UtteranceEnd(m.end)>> ELSE <<>>, st)

(* Telnyx: finals only, without times; an error frame is never retried      *)
TelnyxParse(m, st) ==
  IF m.kind = "error" THEN Raises(FALSE, st) ELSE Says(Untimed(m.final, m.text), st)

(* Speechmatics: acknowledgements move st, the highest chunk acknowledged   *)
SpeechmaticsParse(m, st) ==
  CASE m.kind = "AudioAdded" -> Says(<<>>, IF m.seq_no > st THEN m.seq_no ELSE st)
    [] m.kind \in {"AddTranscript", "AddPartialTranscript"} ->
         Says(Said(m.kind = "AddTranscript", m), st)
    [] m.kind = "EndOfUtterance" -> Says(<<UtteranceEnd(m.at)>>, st)
    [] m.kind = "EndOfTranscript" -> Returns(<<>>, st)
    [] m.kind = "error" -> Raises(m.server, st)

(* xAI: an event is about the whole utterance if it starts where that does, *)
(* and the tail of the locked text otherwise; of the closing transcript     *)
(* only the words (m.fin) after what is final and locked are kept.          *)
XaiUnlocked(st) == [st EXCEPT !.start = NoTime, !.locked = {}, !.locked_end = 0]

XaiParse(m, st) ==
  LET start == IF st.start = NoTime THEN m.start ELSE st.start
      cumulative == st.locked = {} \/ m.start <= start
      merged == IF cumulative THEN m.text ELSE st.locked \cup m.text
      text == IF merged = {} THEN st.locked ELSE merged
      end == IF m.end > st.locked_end THEN m.end ELSE st.locked_end
      whole == [text |-> text, start |-> start, end |-> end]
      tail == {c \in m.fin : c - 1 >= st.final /\ c - 1 >= st.locked_end}
      rest == IF tail = {} /\ st.locked = {} /\ st.final = 0 THEN m.text
              ELSE st.locked \cup tail
      until == CHOOSE c \in rest : \A d \in rest : d <= c
      since == IF st.start # NoTime THEN st.start
               ELSE (CHOOSE c \in rest : \A d \in rest : c <= d) - 1
  IN CASE m.kind = "transcript.partial" /\ m.final ->
            Says(Said(TRUE, whole) \o <<UtteranceEnd(end)>>,
                 [XaiUnlocked(st) EXCEPT !.final = IF text = {} THEN @ ELSE end])
       [] m.kind = "transcript.partial" /\ ~m.final ->
            Says(Said(FALSE, whole),
                 IF m.locks THEN [st EXCEPT !.start = start, !.locked = text, !.locked_end = end]
                 ELSE [st EXCEPT !.start = start])
       [] m.kind = "transcript.done" ->
            Says(IF rest = {} THEN <<>> ELSE <<Transcript(TRUE, rest, since, until)>>,
                 [XaiUnlocked(st) EXCEPT !.done = TRUE, !.final = IF rest = {} THEN @ ELSE until])
       [] m.kind = "error" -> Says(<<>>, [st EXCEPT !.error = TRUE])

(* Palabra: segments; an error frame is never retried                       *)
PalabraParse(m, st) ==
  IF m.kind = "error" THEN Raises(FALSE, st) ELSE Says(Said(m.final, m), st)

(* Meta: a turn's text is final in speechComplete, after its speechEnd.  In *)
(* push-to-talk the transcript marked final carries it instead, and the     *)
(* speechComplete that may follow repeats it.  An error frame only leaves   *)
(* its text behind: the close after it decides.                             *)
MetaParse(m, st, pushToTalk) ==
  LET final == pushToTalk /\ m.final
      current == IF st.turn = NoTime THEN NoTime ELSE st.starts[st.turn]
      ended == IF st.ends[m.item] = NoTime THEN m.end ELSE st.ends[m.item]
      closed == [st EXCEPT !.starts[m.item] = NoTime, !.ends[m.item] = NoTime]
  IN CASE m.kind = "speechStart" ->
            Says(<<>>, [st EXCEPT !.turn = m.item, !.starts[m.item] = m.at])
       [] m.kind = "transcript" ->
            Says(Said(final, [m EXCEPT !.start = current]),
                 [st EXCEPT !.seen = @ \/ (final /\ m.text # {})])
       [] m.kind = "speechEnd" -> Says(<<UtteranceEnd(m.at)>>, [st EXCEPT !.ends[m.item] = m.at])
       [] m.kind = "speechComplete" ->
            Says(IF pushToTalk /\ st.seen THEN <<>>
                 ELSE Said(TRUE, [m EXCEPT !.start = st.starts[m.item], !.end = ended]), closed)
       [] m.kind = "error" -> Says(<<>>, [st EXCEPT !.error = TRUE])

(* Azure: what the SDK's callbacks put on the queue of the event loop       *)
AzureParse(m, st) ==
  CASE m.kind = "interim" -> Says(Said(FALSE, [m EXCEPT !.end = NoTime]), st)
    [] m.kind = "final" -> Says(Said(TRUE, m), st)
    [] m.kind = "END" -> Returns(<<>>, st)
    [] m.kind = "error" -> Raises(TRUE, st)
============================================================================
