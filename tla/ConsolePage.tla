---------------------------- MODULE ConsolePage -----------------------------
(***************************************************************************)
(* The intent console (frontend/src/pages/IBNConsole.tsx) and the handlers *)
(* of server/main.py that it calls.  What an intent does is the subject of *)
(* modules IntentCompliance and TrafficShaper; here it is running, paused  *)
(* or deleted.                                                             *)
(***************************************************************************)
EXTENDS PageCalls

CONSTANTS
    Text,           \* texts that are not blank
    Short,          \* those of fewer than five characters ("drop")
    Parsable,       \* those that parse_intent understands
    MaxIntents      \* bound: intents a user creates

ASSUME TextAssumption == Parsable \cup Short \subseteq Text /\ "" \notin Text

VARIABLES
    text,           \* inputText, "" when it is blank
    preview,        \* the text of which the preview shows the result, "" for none
    debouncing,     \* debounceRef's timer is running
    submitting,
    shownIntents,   \* intents: their ids and statuses
    intents         \* the server's _intents

inputVars == <<text, preview, debouncing>>
consoleVars == <<inputVars, submitting, shownIntents, intents>>

ConsoleInit ==
    /\ text = "" /\ preview = "" /\ debouncing = FALSE
    /\ submitting = FALSE
    /\ shownIntents = {}
    /\ intents = <<>>

\* get_all_intents.
ListedIntents ==
    {[id |-> i, status |-> intents[i]] : i \in {j \in DOMAIN intents : intents[j] # "deleted"}}

-----------------------------------------------------------------------------
\* The input, and the preview 400 ms after its last change, for texts that are
\* long enough.

Previewed(t) == t \in Text \ Short

Type(t) ==
    /\ t # text
    /\ text' = t
    /\ debouncing' = Previewed(t)
    /\ preview' = IF Previewed(t) THEN preview ELSE ""
    /\ NoSends
    /\ UNCHANGED <<submitting, shownIntents, intents>>

AskForPreview(s) ==
    /\ debouncing
    /\ debouncing' = FALSE
    /\ Sends(s, "parse", [text |-> text])
    /\ UNCHANGED <<text, preview, submitting, shownIntents, intents>>

ParseIntent(s) ==
    /\ Serving(s, "parse")
    /\ Replies(s, calls[s].arg.text \in Parsable, calls[s].arg.text)
    /\ UNCHANGED consoleVars

\* Whichever text is there by then.
PreviewEnds(s) ==
    /\ \/ Resolving(s, "parse") /\ GoesOn(s, NoCall) /\ preview' = calls[s].answer
       \/ Rejects(s, "parse") /\ preview' = ""
    /\ UNCHANGED <<text, debouncing, submitting, shownIntents, intents>>

-----------------------------------------------------------------------------
\* handleSubmit: the intent, the empty input, the list.  Texts that are too short
\* for a preview are sent all the same.

Submit(s) ==
    /\ text # "" /\ ~submitting
    /\ Len(intents) < MaxIntents
    /\ Sends(s, "create", [text |-> text])
    /\ submitting' = TRUE
    /\ UNCHANGED <<inputVars, shownIntents, intents>>

CreateIntent(s) ==
    LET parsed == calls[s].arg.text \in Parsable
    IN  /\ Serving(s, "create")
        /\ intents' = IF parsed THEN Append(intents, "running") ELSE intents
        /\ Replies(s, parsed, "")
        /\ UNCHANGED <<inputVars, submitting, shownIntents>>

CreateAnswered(s) ==
    /\ Resolving(s, "create")
    /\ text' = "" /\ preview' = "" /\ debouncing' = FALSE
    /\ GoesOn(s, Request("list", By("submit")))
    /\ UNCHANGED <<submitting, shownIntents, intents>>

\* The text stays, for another attempt.
CreateFails(s) ==
    /\ Rejects(s, "create")
    /\ submitting' = FALSE
    /\ UNCHANGED <<inputVars, shownIntents, intents>>

-----------------------------------------------------------------------------
\* fetchIntents, every two seconds and after what the user does.

PollIntents(s) == Sends(s, "list", By("timer")) /\ UNCHANGED consoleVars

ListIntents(s) ==
    /\ Serving(s, "list")
    /\ Replies(s, TRUE, ListedIntents)
    /\ UNCHANGED consoleVars

\* Faulty variant: the button is released only by a list that arrives.
FetchEndsUnlessLost(s) ==
    /\ \/ /\ Resolving(s, "list")
          /\ GoesOn(s, NoCall)
          /\ shownIntents' = calls[s].answer
          /\ submitting' = (submitting /\ calls[s].arg.by # "submit")
       \/ Rejects(s, "list") /\ UNCHANGED <<shownIntents, submitting>>
    /\ UNCHANGED <<inputVars, intents>>

\* A list that does not arrive is not missed, and ends a submission as well.
FetchEnds(s) ==
    /\ \/ Resolving(s, "list") /\ GoesOn(s, NoCall) /\ shownIntents' = calls[s].answer
       \/ Rejects(s, "list") /\ UNCHANGED shownIntents
    /\ submitting' = (submitting /\ calls[s].arg.by # "submit")
    /\ UNCHANGED <<inputVars, intents>>

-----------------------------------------------------------------------------
\* handleAction, by the status that is shown.

Act(s, shown, action) ==
    /\ action = "delete" \/ action = IF shown.status = "paused" THEN "resume" ELSE "pause"
    /\ Sends(s, action, [intent |-> shown.id])
    /\ UNCHANGED consoleVars

StatusAfter(action, status) ==
    CASE action = "delete" -> "deleted"
      [] action = "pause"  -> IF status = "deleted" THEN status ELSE "paused"
      [] action = "resume" -> IF status = "paused" THEN "running" ELSE status

\* An intent that is not as the page has it is an answer like the others.
ActOnIntent(s, action) ==
    /\ Serving(s, action)
    /\ intents' = [intents EXCEPT ![calls[s].arg.intent] = StatusAfter(action, @)]
    /\ Replies(s, TRUE, "")
    /\ UNCHANGED <<inputVars, submitting, shownIntents>>

ActEnds(s, action) ==
    /\ \/ Resolving(s, action) /\ GoesOn(s, Request("list", By("action")))
       \/ Rejects(s, action)
    /\ UNCHANGED consoleVars

-----------------------------------------------------------------------------

IntentAction == {"delete", "pause", "resume"}

ConsoleServes(s) ==
    \/ ParseIntent(s) \/ CreateIntent(s) \/ ListIntents(s)
    \/ \E action \in IntentAction : ActOnIntent(s, action)

ConsoleReacts(s) ==
    \/ PreviewEnds(s) \/ CreateAnswered(s) \/ CreateFails(s) \/ FetchEnds(s)
    \/ \E action \in IntentAction : ActEnds(s, action)

ConsoleUser ==
    \/ \E t \in Text \cup {""} : Type(t)
    \/ \E s \in UserSlot : AskForPreview(s) \/ Submit(s)
    \/ \E s \in UserSlot, shown \in shownIntents, action \in IntentAction : Act(s, shown, action)

ConsoleTimer(s) == PollIntents(s)

=============================================================================
