------------------------- MODULE ObjectionPipeline -------------------------
(* From a final utterance of the customer to an answer on two windows:     *)
(* ObjectionPipelineService (src/main/services/objection-pipeline.ts), the *)
(* overlay's reducer and the control window's copy of the same state.  A   *)
(* run has the utterance's name, and so has the objection it detects and   *)
(* the answer it generates.                                                *)
EXTENDS Undefined, Integers, Sequences, SequencesExt, FiniteSets

CONSTANTS
    Utterances,     \* final utterances of customers
    ContextSize     \* contextWindowSize

VARIABLES
    current,    \* the run activeRunId names; None once it was cancelled
    stage,      \* stage[u]: where the run of u waits
    recent,     \* recentCounterpartFinals
    overlay,    \* the overlay's state: objection and response (its layer is left out)
    control,    \* the control window's currentObjection and currentResponse
    inbox,      \* messages on their way to the control window, the reply of a dismissal included
    asked       \* the objection the control window has asked to dismiss

pipelineVars == <<current, stage, recent, overlay, control, inbox, asked>>

PipelineInit ==
    /\ current = None
    /\ stage = [u \in Utterances |-> "none"]
    /\ recent = <<>>
    /\ overlay = [objection |-> None, response |-> None]
    /\ control = [objection |-> None, response |-> None]
    /\ inbox = <<>>
    /\ asked = None

-----------------------------------------------------------------------------
(* The windows *)

Message == [type : {"DETECTED", "RESPONSE", "CANCELLED", "reply"}, of : Utterances]

\* The overlay ignores which objection a cancellation is of.
OverlayReducer(s, m) ==
    CASE m.type = "DETECTED" /\ s.objection = m.of -> s
      [] m.type = "DETECTED" /\ s.objection # m.of ->
            [objection |-> m.of, response |-> None]
      [] m.type = "RESPONSE" /\ s.objection # m.of -> s
      [] m.type = "RESPONSE" /\ s.objection = m.of ->
            [s EXCEPT !.response = m.of]
      [] m.type = "CANCELLED" -> [s EXCEPT !.objection = None, !.response = None]

\* The control window shows any answer it gets, and clears only the objection named.
ControlHandler(s, m) ==
    CASE m.type = "DETECTED" -> [objection |-> m.of, response |-> None]
      [] m.type = "RESPONSE" -> [s EXCEPT !.response = m.of]
      [] m.type = "CANCELLED" ->
            [objection |-> IF s.objection = m.of THEN None ELSE s.objection,
             response |-> IF s.response = m.of THEN None ELSE s.response]
      [] m.type = "reply" -> [objection |-> None, response |-> None]

\* The callbacks of the runtime send to both windows.
Send(type, u) ==
    /\ overlay' = OverlayReducer(overlay, [type |-> type, of |-> u])
    /\ inbox' = Append(inbox, [type |-> type, of |-> u])

Deliver ==
    /\ inbox # <<>>
    /\ control' = ControlHandler(control, Head(inbox))
    /\ inbox' = Tail(inbox)
    /\ asked' = IF Head(inbox).type = "reply" THEN None ELSE asked
    /\ UNCHANGED <<current, stage, recent, overlay>>

\* The user dismisses what the control window shows.
AskDismiss ==
    /\ asked = None /\ control.objection # None
    /\ asked' = control.objection
    /\ UNCHANGED <<current, stage, recent, overlay, control, inbox>>

-----------------------------------------------------------------------------
(* The pipeline *)

IsCurrentRun(u) == current = u

\* handleTranscript() up to the call of the detection: the utterance is remembered, and it
\* starts a run in a call.
HandleTranscript(u, inCall) ==
    /\ recent' = LET all == Append(recent, u)
                 IN  IF Len(all) > ContextSize THEN Tail(all) ELSE all
    /\ IF inCall
       THEN current' = u /\ stage' = [stage EXCEPT ![u] = "detecting"]
       ELSE UNCHANGED <<current, stage>>
    /\ UNCHANGED <<overlay, control, inbox, asked>>

\* The detection answers: nothing is said of a run that was overtaken or finds no objection.
Detect(u) ==
    /\ stage[u] = "detecting"
    /\ \/ /\ IsCurrentRun(u)
          /\ Send("DETECTED", u)
          /\ stage' = [stage EXCEPT ![u] = "searching"]
       \/ /\ stage' = [stage EXCEPT ![u] = "done"]
          /\ UNCHANGED <<overlay, inbox>>
    /\ UNCHANGED <<current, recent, control, asked>>

\* The knowledge search answers.
Search(u) ==
    /\ stage[u] = "searching"
    /\ \/ /\ IsCurrentRun(u)
          /\ stage' = [stage EXCEPT ![u] = "generating"]
          /\ UNCHANGED <<overlay, inbox>>
       \/ /\ ~IsCurrentRun(u)
          /\ Send("CANCELLED", u)
          /\ stage' = [stage EXCEPT ![u] = "done"]
    /\ UNCHANGED <<current, recent, control, asked>>

\* Mutant: the run is not checked again after the generation.
GenerateUnchecked(u) ==
    /\ stage[u] = "generating"
    /\ Send("RESPONSE", u)
    /\ stage' = [stage EXCEPT ![u] = "done"]
    /\ UNCHANGED <<current, recent, control, asked>>

\* The answer is generated.
Generate(u) ==
    /\ stage[u] = "generating"
    /\ Send(IF IsCurrentRun(u) THEN "RESPONSE" ELSE "CANCELLED", u)
    /\ stage' = [stage EXCEPT ![u] = "done"]
    /\ UNCHANGED <<current, recent, control, asked>>

\* A model or the search throws: the error is logged and neither window is told.
RunFails(u) ==
    /\ stage[u] \in {"detecting", "searching", "generating"}
    /\ stage' = [stage EXCEPT ![u] = "done"]
    /\ UNCHANGED <<current, recent, overlay, control, inbox, asked>>

\* The dismissal reaches the main process: the active run is cancelled whichever objection
\* is named, both windows are told, and the request is answered.
Dismiss ==
    /\ asked # None
    /\ \A i \in 1..Len(inbox) : inbox[i].type # "reply"
    /\ current' = None
    /\ overlay' = OverlayReducer(overlay, [type |-> "CANCELLED", of |-> asked])
    /\ inbox' = inbox \o <<[type |-> "CANCELLED", of |-> asked], [type |-> "reply", of |-> asked]>>
    /\ UNCHANGED <<stage, recent, control, asked>>

PipelineStep ==
    \/ Deliver
    \/ AskDismiss
    \/ Dismiss
    \/ \E u \in Utterances : Detect(u) \/ Search(u) \/ Generate(u) \/ RunFails(u)

-----------------------------------------------------------------------------
(* Properties *)

\* An answer is never under another objection than its own, in either window, though the
\* control window does not compare them: the checks of the run and the order of the
\* messages see to it.
AnswerFitsObjection ==
    /\ overlay.response # None => overlay.response = overlay.objection
    /\ control.response # None => control.response = control.objection
=============================================================================
