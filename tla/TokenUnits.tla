------------------------------- MODULE TokenUnits -------------------------------
(***************************************************************************)
(* One report of usage of a live session, made into priced units           *)
(* (live/meter.py): openai_units for the response.done of OpenAI, and      *)
(* gemini_units for the usageMetadata of Gemini.                           *)
(*                                                                         *)
(* A report is of tokens by modality.  OpenAI's cached tokens are part of  *)
(* its input; Gemini sends the split of its prompt or not, and the split   *)
(* may fall short of the count it goes with.                               *)
(***************************************************************************)
EXTENDS Integers, FiniteSets, FiniteSetsExt

CONSTANTS MaxTokens  \* bound: tokens of one modality

VARIABLES dialect, report, counted,
          units      \* those of the report, once it is counted

vars == <<dialect, report, counted, units>>

Modalities == {"text", "audio", "image"}
Tokens == [Modalities -> 0..MaxTokens]
Total(t) == MapThenSumSet(LAMBDA k : t[k], DOMAIN t)

\* What the vendors send: the cached tokens are among the others.
OpenaiReports ==
    {r \in [input : Tokens, cached : Tokens, output : [{"text", "audio"} -> 0..MaxTokens]] :
        \A k \in Modalities : r.cached[k] <= r.input[k]}
GeminiReports ==
    {r \in [input : Tokens, cached : Tokens, split : BOOLEAN, beyond : 0..1,
            output : [{"text", "audio"} -> 0..MaxTokens], answered : BOOLEAN,
            tool : 0..1, thoughts : 0..1] :
        \A k \in Modalities : r.cached[k] <= r.input[k]}

Reports(d) == IF d = "openai" THEN OpenaiReports ELSE GeminiReports

\* _add: nothing that is not positive.
Pos(n) == IF n > 0 THEN n ELSE 0

\* A unit is a modality of the input, cached or not, or of the output.
InputOfAll(r) == [input |-> r.input, cached |-> r.cached, output |-> r.output]
OpenaiUnits(r) ==
    [input |-> [k \in Modalities |-> Pos(r.input[k] - r.cached[k])],
     cached |-> r.cached,
     output |-> r.output]

\* The count of the prompt, with what the split leaves out.
PromptCount(r) == Total(r.input) + r.beyond

\* Cached tokens have keys for text and audio; what the split misses is text,
\* and a count without a split is audio.
GeminiUnits(r) ==
    LET cached == [k \in Modalities |-> IF k = "image" THEN 0 ELSE r.cached[k]]
        rest == IF r.split THEN [k \in Modalities |-> Pos(r.input[k] - r.cached[k])
                                     + IF k = "text" THEN r.beyond ELSE 0]
                ELSE [k \in Modalities |-> IF k = "audio"
                                           THEN Pos(PromptCount(r) - Total(r.cached)) ELSE 0]
        answer == IF r.answered THEN r.output
                  ELSE [text |-> 0, audio |-> Total(r.output)]
    IN  [input |-> [rest EXCEPT !["text"] = @ + r.tool],
         cached |-> cached,
         output |-> [answer EXCEPT !["text"] = @ + r.thoughts]]

Nothing == [input |-> [k \in Modalities |-> 0], cached |-> [k \in Modalities |-> 0],
            output |-> [text |-> 0, audio |-> 0]]

Init == /\ dialect \in {"openai", "gemini"} /\ report \in Reports(dialect)
        /\ counted = FALSE /\ units = Nothing

Count == /\ ~counted /\ counted' = TRUE
         /\ units' = IF dialect = "openai" THEN OpenaiUnits(report) ELSE GeminiUnits(report)
         /\ UNCHANGED <<dialect, report>>

Next == Count
Spec == Init /\ [][Next]_vars

Billed == Total(units.input) + Total(units.cached) + Total(units.output)
Reported ==
    Total(report.input) + Total(report.output)
    + IF dialect = "gemini" THEN report.beyond + report.tool + report.thoughts ELSE 0

\* Every token reported is billed once, cached or not, split or not
\* (meter.py:176-179, 291-301), images that Gemini cached excepted.
EveryTokenIsBilledOnce ==
    counted => Billed = Reported - (IF dialect = "gemini" THEN report.cached["image"] ELSE 0)
=============================================================================
