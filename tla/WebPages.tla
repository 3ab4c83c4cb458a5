------------------------------ MODULE WebPages ------------------------------
(***************************************************************************)
(* The web pages with calls of their own, and the store that others read.  *)
(* The pages share no state but the server's, of which each sees another   *)
(* part: in a behaviour, one of them is used.                              *)
(***************************************************************************)
EXTENDS SandboxPage, ConsolePage, PriorityPage, ScoreboardFeed, LoginPage

CONSTANT OneAtATime \* bound: pages whose user has one call under way at a time

VARIABLE page       \* the page that is used

Page == {"sandbox", "console", "panel", "priorities", "feed", "login"}

pageVars == <<page, callVars, sandboxVars, consoleVars, panelVars, priorityPageVars, feedVars,
              loginVars>>

Init ==
    /\ page \in Page
    /\ CallsInit /\ SandboxInit /\ ConsoleInit /\ PanelInit /\ PriorityPageInit /\ FeedInit
    /\ LoginInit

\* A step of the page that is used; the state of the others stays as it is.
On(p, Step) ==
    /\ page = p
    /\ Step
    /\ UNCHANGED page
    /\ p # "sandbox" => UNCHANGED sandboxVars
    /\ p # "console" => UNCHANGED consoleVars
    /\ p # "panel" => UNCHANGED panelVars
    /\ p # "priorities" => UNCHANGED priorityPageVars
    /\ p # "feed" => UNCHANGED feedVars
    /\ p # "login" => UNCHANGED loginVars
    /\ p = "feed" => UNCHANGED callVars
    /\ p \in OneAtATime => Cardinality({s \in UserSlot : calls'[s] # NoCall}) <= 1

Serve(s) ==
    \/ On("sandbox", SandboxServes(s))
    \/ On("console", ConsoleServes(s))
    \/ On("panel", PanelServes(s))
    \/ On("priorities", PriorityServes(s))
    \/ On("login", LoginServes(s))

React(s) ==
    \/ On("sandbox", SandboxReacts(s))
    \/ On("console", ConsoleReacts(s))
    \/ On("panel", PanelReacts(s))
    \/ On("priorities", PriorityReacts(s))
    \/ On("login", LoginReacts(s))

User ==
    \/ On("sandbox", SandboxUser)
    \/ On("console", ConsoleUser)
    \/ On("panel", PanelUser)
    \/ On("priorities", PriorityUser)
    \/ On("feed", FeedUser)
    \/ On("login", LoginUser)

\* The effects of the first rendering, and what timers do.
Timer(s) ==
    \/ On("sandbox", SandboxTimer(s))
    \/ On("console", ConsoleTimer(s))
    \/ On("panel", PanelTimer(s))
    \/ On("priorities", PriorityTimer(s))

Socket(h) == On("feed", SocketStep(h))

Next ==
    \/ \E s \in Slot : Serve(s) \/ React(s)
    \/ \E s \in PollSlot : Timer(s)
    \/ User
    \/ \E h \in Hook : Socket(h)

\* The server answers, answers are taken, timers fire, sockets connect again
\* and, while the broadcast loop lives, carry messages: in each slot and on each
\* socket one of these is next.  Nobody has to use a page, nothing has to be
\* lost, and the broadcast loop may end.
Fairness ==
    /\ \A s \in Slot : WF_pageVars(
          \/ Serve(s)
          \/ React(s) /\ failures' = failures
          \/ s \in PollSlot /\ Timer(s))
    /\ \A h \in Hook : WF_pageVars(Socket(h) /\ drops' = drops)

Spec == Init /\ [][Next]_pageVars /\ Fairness

-----------------------------------------------------------------------------
\* Properties.

\* Whatever the user chooses or looks at between the validation and the
\* answers, a rule made by "Apply to Production" is the change of the report
\* that it names, and that report has passed.
DeployedIsPassed ==
    \A i \in DOMAIN madeRules :
        LET report == reports[madeRules[i].report]
        IN  report.passed /\ report.change = madeRules[i].change

\* Sign-ins may be answered late and in any order, pages be left meanwhile, and
\* the token be read from the store long after the page was drawn: a call of a
\* portal's own page carries the token of the account the page was drawn for
\* when it was made, unless another tab has stored something since the page was
\* loaded.
TokenIsThePages ==
    page = "login" /\ ~otherTab =>
        \A s \in Slot : calls[s] # NoCall /\ calls[s].op = "portal" =>
            NoAccount # calls[s].arg.drawnFor /\ calls[s].arg.drawnFor = calls[s].arg.token

\* Lists may arrive out of order and calls may be lost, but when the server's
\* list stays as it is the page comes to show it for good: the console's
\* intents, the panel's rules, and the store while a tool page is open and the
\* broadcast loop of the server lives.
PagesCatchUp ==
    /\ []<><<intents' # intents>>_pageVars \/ <>[](shownIntents = ListedIntents)
    /\ []<><<started' # started>>_pageVars \/ <>[](shownRules = ActiveStarted)
    /\ []broadcasting /\ <>[](onPage # NoHook) => <>[](store = version)

\* A button that a call switches off comes back, however the call ends.
BusyEnds ==
    /\ []<>(phase = "idle") /\ []<>~deploying /\ []<>(rollingBack = 0)
    /\ []<>~submitting /\ []<>~busy /\ []<>~applying /\ []<>~signingIn

=============================================================================
