# PathWise AI in TLA+

PathWise AI steers traffic away from WAN links whose health is forecast to
drop. This directory holds a model of its server, its services and its web pages
in TLA+: modules that follow the Python and TypeScript code, TLC configurations that check them on
small instances, and theorems that TLAPS proves for every value of the
constants. `PROJECT.json` lists the parts of the system, the runs, the mutants
that show each property can fail, the source lines behind each definition, the
hazards and the theorems.

## The system

The server (`src/server`) is one Python process. Its `async` handlers and
background loops share one event loop, so each runs undisturbed from one
`await` to the next and anything may happen at an `await`. The handlers of
`routers/app_priority.py` are plain functions, which FastAPI runs in worker
threads, so they interleave at every host command. Calls to SDN controllers
and to the elevated script block: they hold the event loop. Almost all state is
in memory and is lost in a restart, while controllers, the database and the
host's operating system keep what they have. The services (`src/services`) are
processes of their own around Redis and interleave freely. The web pages
(`src/frontend`) call the server without waiting for one another's answers, poll
it by timers and are fed by a socket; calls and answers may overtake each other,
and a call that a page gives up may still be carried out.

| Part | State | Operations | Talks to | What is hard | Correct when |
|---|---|---|---|---|---|
| Session manager, `session_manager.py` | a list of sessions per link, each session's state, a history | register, migrate, restart | handoff | repeated migrations, appends that fail | each session is on one list, the right one, and counted |
| SDN adapter, `sdn_adapter.py` | which rule each flow has (`_installed_flows`) | update flow table, roll back | OpenDaylight, ONOS | lost answers, two controllers, retries, restarts | a record reaches the rule it stands for, a rollback that says True removed it |
| Hitless handoff, `routing.py`; intent deployment, `ibn_engine.deploy_intent` | none of their own | execute, deploy, roll back | sandbox, sessions, NETCONF, adapter | a step of several fails, two channels disagree | nothing moves without the sandbox's pass; what is reported is what happened |
| Sandbox, synchronous, `run_sandbox_validation` | none | validate | Mininet, Batfish | services that are down, a graph search | the verdict is about the proposal |
| Sandbox, asynchronous, `validate_steering` | a bounded history of reports | validate | forecasts | an await before each check | a pass is about what holds when it is made |
| Routing rules, `main.py`, `state.py` | a list of rules | apply, roll back | sandbox reports | rules made one at a time | one diversion per link |
| Collectors, `collectors/*`, `collector.py`, `simulator.py` | last sample per link, buffers, effective samples | poll, store, detect brown-outs, steer | sources, CSV file | sources that are silent, raise or wrap | silence that lasts shows; counters tell what was added |
| Prediction loop, `lstm_engine.py` | forecasts | predict all links | sandbox, intents, alerts | too few points, changes between two reads | a dead link is left and alerted |
| Intents, `ibn_engine.py` | intents and their status | create, pause, resume, delete, check compliance | rules, forecasts, shaper | handlers between the rounds of the monitor; clean-up of what an intent started | closed intents stay closed, compliance is noticed |
| Traffic shaper, `traffic_shaper.py` | policies in a bounded list | throttle, prioritise, remove | host, enforcer | removal by name prefix, failing scripts, eviction | everything on the host is accounted for |
| Selective degrader, `app_qos/selective_degrader.py` | rules by id | start, stop, stop all | host | threads, failing commands | every artifact on the host is accounted for |
| App priorities, `app_qos/priority_manager.py`, `bandwidth_enforcer.py` | a map per user, shares in force | set, remove, reset | host | threads, one enforcer for all | the host has what is on record |
| Audit log, `audit.py` | a hash chain of bounded length | append, verify | logins | eviction | an alarm means what it says |
| Logins, `auth.py`, `main.py` | failures and lock times, in memory and in a table | log in, register, unlock, suspend | audit log | counter and lock time apart, restarts | a lock and its count go together; no registration adds a privileged account |
| Customer portal, `routers/billing.py`, `tickets.py`, `lstm_control.py`, `profile.py`, `admin_portal.py` | rows | upgrade, cancel, open, answer, activate | database | requests in any order | pages agree |
| Scoreboard and alerts, `main.py`, `alerts.py` | connected clients, last alert per link | connect, broadcast, raise | sockets, predictions | the set changes during the awaits of a round | open sockets are served, dead links are alerted |
| Steering service, `services/traffic-steering` | flows on the controller, a round's decisions | evaluate, execute | predictions, twin, OpenDaylight | calls that fail between others | make before break; sick links are left |
| Digital twin, `services/digital-twin` | a cursor, reports | read, validate | requests of others | crashes, malformed requests | every well-formed request is answered |
| Telemetry and predictions, `services/telemetry-ingestion`, `prediction-engine` | streams, counters | poll, parse, predict | devices | wrapping counters, counters as floats, one stream for all links | reports are what was added |
| Web pages, `SandboxViewer.tsx`, `NetworkSimulation.tsx`, `IBNConsole.tsx`, `AppPriorityManager.tsx`, `SelectiveIPDegrade.tsx`, `services/api.ts`, `utils/apiClient.ts` | what is chosen, shown and under way | validate, deploy, roll back, submit, act, apply, reset, poll | the server's API | late answers meet a changed page, lists out of order, calls that are lost or given up | what is sent is what was meant, lists come true, buttons come back |
| Store and socket, `useWebSocket.ts`, `networkStore.ts` | the last message | mount, connect, receive, reconnect | the broadcast | sockets that outlive their page, a broadcast that ends | the store comes to hold the server's state while it is broadcast |
| Session of a tab, `AuthContext.tsx`, `auth/LoginPage.tsx`, `App.tsx` | an account in `localStorage` and one in the page | sign in, navigate, load, log out | logins, other tabs | late sign-ins, a 401 in between | a portal's own page sends the token of the account it was drawn for |

## The modules

| Module | Models | State and actions |
|---|---|---|
| `SessionManager` | `session_manager.py` | `sessions`, `state`, `linkOf`, `history`. `RegisterSession`, `MigrateSessions` (any subset of the appends fails), `SessionRestart` |
| `SdnAdapter` | `sdn_adapter.py` | `installed` is `_installed_flows`; `table` is what the controllers hold. `UpdateFlowTable` and `RollbackFlow` with each answer a controller may give and each effect the request may have had; `Lapse`: a controller drops a rule; `AdapterRestart` |
| `SandboxPipeline` | `run_sandbox_validation` | operators: whether a proposal may pass or fail, in memory mode and in mininet mode; `HasLoop` is the depth-first search of `_stage_loop_detection_memory` as a function of node, parent and what is visited |
| `HitlessHandoff` | `routing.py`, `ibn_engine.deploy_intent` | composes the three above. `RejectHandoff`, `ExecuteHandoff`, `RejectDeploy`, `ExecuteDeploy`, `RollbackHandoff`; `outcome` remembers what was returned |
| `SteeringRules` | `validate_steering`, the rule handlers of `main.py`, `state.py` | `rules`, `health`, `validation`, `history`. One action per stretch between awaits: `StartValidation`, `CheckLoop`, `CheckPolicy`, `CheckReachability`, `CheckPerformance`; `ApplyRule`, `RollbackRule`, `Predict` |
| `Diversion` | the promise of the rules | a map from links to where their traffic goes; refined by `SteeringRules` |
| `IntentCompliance` | the life of an intent and the monitor loop of `ibn_engine.py` | extends `SteeringRules` with `intents` (status, cooldown, `turn` for the parity of its steers) and `level` (telemetry against the threshold). `CreateIntent`, `DeleteIntent`, `PauseIntent`, `ResumeIntent`, `MonitorRound`, `CooldownEnds`, `Telemetry` |
| `TrafficShaper` | `traffic_shaper.py` and the app intents of `ibn_engine.py` | `policies`, `counter`, `artifacts` (the host), `enforced` (the pseudo-user "ibn" of the priorities), `intents`. `ThrottleApp`, `PrioritizeApp`, `PrioritizeOver`, `RemovePolicy`, `RemoveAll`, `CreateIntent`, `DeleteIntent`, `Crash`; the calls are functions from what they find to what they leave, and a call runs its scripts one by one, and `taken` is the set of those that work |
| `HostRules` | the host and the worker threads | `firewall`, `throttles`, `appPolicies`, `task` |
| `SelectiveDegrader` | `selective_degrader.py` | `rule`, `mode`. `StartRule`, `ApplyPart`, `RegisterRule`, `StopRule`, `StopAll`, `StopNext`, `RemoveFirewall`, `RemovePolicies`, `MarkStopped` |
| `AppPriority` | `priority_manager.py`, `bandwidth_enforcer.py` | `priorities`, `active`; a request has a map and a total, its shares are scaled and rounded (`Shares`), and an app gets as many policies as its signature has (`Matches`), each with its whole share. `SetPriorities`, `RemoveAppPriority`, `ResetAll`, then `ClearPolicies`, `CreatePolicy`, `RecordAllocations` |
| `HostQos` | both features on one host | interleaves them; `Restart` |
| `AuditLog` | `audit.py` | `log`, `lastChecksum`. `LogEvent`, `AuditRestart`; `Errors` is `verify_integrity` |
| `Accounts` | `auth.py`, `/auth/login/v2`, registration and account administration of `main.py` | `accounts` (memory), `rows` (`app_users`), `now`. `Login`, `LoginV2`, `Register`, `UnlockUser`, `SetActive`, `AccountsRestart`, `Tick` |
| `Portal` | the routers billing, tickets, lstm_control, profile, admin_portal | `subscriptions`, `tickets`, `models` with a handler each; `MonthlyRevenue`, `Shown` are what pages show |
| `AccountServer` | the three above in one process | their handlers, one request at a time |
| `Collectors` | `collectors/*.py`, the health of `lstm_engine.py` | operators: from what a source answers to the sample it yields, for each kind of collector; the heuristic forecast and its health |
| `Collection` | `collector.py`, `simulator.py`, `prediction_loop` | buffers, last samples, brown-outs, predictions, steering events; `silent`: links whose source has answered nothing since it last answered. `CollectionRound`, `CollectionFails` (the CSV file), `PredictionRound`, `ToggleLstm` |
| `Scoreboard` | the sockets and the broadcast loop of `main.py`, `alerts.py` | `clients`, the round in progress, the time since each alert. `Join`, `Break`, `Leave`; `StartRound`, `StartFails`, `SendTo`, `Sent`, `IterationFails`, `EndRound`; over `Collection` |
| `CounterReaders` | the five readers of interface counters: `snmp_parser.py`, `streaming_telemetry.py`, `fiber.py` twice, `broadband.py` | one reader and its device, what the reader sees of a counter (`Seen`, a float in the stream) and how it tells a difference (`Separately`, `Together`, `FloatDelta`). `Count`, `Reboot`, `Poll` with any of the answers missing |
| `DigitalTwin` | `services/digital-twin`, the gateway's `/validate` | `requests`, `lastId`, `busy`, `reports`. `ValidateInSandbox`, `ForeignRequest`, `ReadRequest`, `Validate`, `PassOver` (a malformed request), `TwinCrash` |
| `TrafficSteering` | `services/traffic-steering`, over predictions, telemetry and the twin | `recent` (the window), `predictions`, `seen`, `todo`, `decision`, `flows`. One action per Redis read and controller call: `Evaluate`, `ReadPrediction`, `Decide`, `Execute`, `PutFlow`, `DeleteFlow`; `StartTelemetry`, `Poll`, `Predict` |
| `PageCalls` | `services/api.ts`, `utils/apiClient.ts` | `calls`: a call in each slot, sent, answered, or given up and perhaps still carried out |
| `SandboxPage` | `SandboxViewer.tsx`, the roll-back of `NetworkSimulation.tsx`, their handlers in `main.py` | what is chosen, `phase` of a validation, `shownReport`, `deployed`; on the server `reports`, `madeRules`. `RunValidation`, `PickReport`, `Deploy`, `Rollback` and the answers to each |
| `ConsolePage` | `IBNConsole.tsx` and the intent handlers | the text and its preview, the intents listed. `Type`, `Submit`, `Act`, `PollIntents` and the answers |
| `PriorityPage` | `AppPriorityManager.tsx`, `SelectiveIPDegrade.tsx` and `routers/app_priority.py` | the queue, what is applied; picks, rules shown. `Apply`, `Reset`, `SelectApp`, `TogglePick`, `SubmitRule`, `Stop`, `PollRules` and the answers |
| `ScoreboardFeed` | `useWebSocket.ts`, `networkStore.ts` | a socket for each mounting of the hook, `store`. `MountHook`, `UnmountHook`, `Reload`, `Opens`, `Closed`, `Reconnects`, `Delivered`; `Broadcast` while `broadcasting`, `BroadcastEnds` |
| `LoginPage` | `auth/LoginPage.tsx`, `AuthContext.tsx`, the guards of `App.tsx`, the 401s of `apiClient.ts` | `stored`, `user`, `place`, `signingIn`. `PortalCall` (the portals' own pages), `SignIn`, `LoginAnswered`, `Navigate`, `LoadPage`, `LogOut`, `Expelled`, `OtherTabStores` |
| `WebPages` | one of the pages in use | interleaves a page's user, timers and sockets with the server and with answers |
| `*Proofs` | a component or a composition each | theorems |
| `Sums` | | lemmas about sums, finite sets and least numbers that the proofs share |
| `MC*` | | values for the constants, symmetry |

Operators marked as faulty variants in a module are the code with a plausible
mistake in it; a mutant puts one in the place of the definition that follows,
and the property it is listed with then fails.

### Abstractions that matter

* Names, texts, numbers of bytes and times are left out, or are members of
  small sets. A conversion is modelled where it loses something: a link id
  becomes a node id (`LinkToNodeId`), with 1 for every id that is not known.
* A controller answers or not, and a request may have taken effect although no
  answer came. That covers errors, time-outs and lost answers. `Lapse` and
  `ControllerDropsRule` stand for flow time-outs and operators: always possible.
* An intent's text is the goal it is parsed to. Its threshold meets telemetry
  that is above, below, or neither; the best of several links below it is any of
  them. A round of the monitor has no await.
* `SteeringRules.Predict` is one whole round of the prediction loop with any
  scores; `Collection` computes the scores from samples. There latency and
  jitter are whole milliseconds and loss is in tenths of a percent; forecasts
  and health are rounded down to such units, and the noise that the heuristic
  adds is left out.
* What a source answers is a measurement, one of which a part is missing (a ping
  without its line on loss, a device without its received or dropped packets,
  which all read as no loss), that every packet was lost, nothing that can be
  read, or an exception. `Collectors` says for each kind of
  collector what sample that becomes.
* A policy's name is its action, app and number, and a prefix is about the
  digits of the number in base `Radix`, within one action and app. What one
  policy leaves on the host is one artifact; what is enforced through the
  bandwidth enforcer is one value.
* Rates are in hundredths of a Mbit/s and shares in thousandths of the total;
  `Rounded` is what a float of 64 bits makes of a large integer, of which only
  the order and the exactness up to `Exact` are assumed.
* A SHA-256 digest is taken to be injective: a checksum is the sequence of what
  was hashed.
* Host commands of the degrader and the enforcer have an effect or have none,
  and the code goes on either way.
  `Get-NetQosPolicy` is taken to list the store the policies are created in, as
  the enforcer relies on (`bandwidth_enforcer.py:179`).
* A call of the steering client is answered, refused, or raises with or without
  effect. A deletion that the controller carries out after the client has given
  it up is not in the model; a `put` of the next round before it could lose a
  flow.
* A web page's call is in one of a few slots. The request, the handler and the
  answer are separate steps; a call is lost on its way or on the way back, and
  one that the page gives up may still be carried out. `LoginPage` has the calls
  of the portals' own pages (`pages/admin`, `pages/user`, `SelectiveIPDegrade.tsx`),
  which go through `utils/apiClient.ts`; the tool pages inside the portals go
  through `services/api.ts`, which sends another token (below). The pages are those of
  one user whom the server accepts: `AUTH_ENABLED` is "false" unless it is set
  (`server/auth.py:184`), and the socket takes anybody.
* Loading a page ends its script at once, with its calls. Between the script's
  order to load another page and the loading a late answer could still be
  taken; that moment is not in the model.
* The pages share only the server, of which each sees another part, so in a
  behaviour one of them is used. A version in `ScoreboardFeed` stands for all
  that a message of the socket carries.
* History variables (`outcome`, `submitted`, `reported`, `asked`, `rolledBack`,
  `partial`, `leaked`, `settled`, `leftBehind`, `logged`, `added`, `actual`,
  `sound`, `trusted`, `silent`, `refused`, `otherTab`, `failures`, `drops`) record what properties speak of. Guards read them only to
  give each change a flow id of its own, as the code does with UUIDs, and to
  bound a run.

## The runs

| Run | Question | Answer |
|---|---|---|
| `handoff` | is the sandbox's search right about loops; do rules and migrations come only from proposals that passed, is told ok exactly what is recorded, does a rollback that returns True remove the rule, is each session on one list and counted? | yes, with one controller |
| `rules` | do rules implement a map from links to diversions; is a passing report right when it is made? | yes |
| `intents` | do closed intents stay closed, is a violation that lasts answered again and again, is compliance noticed in the end? | yes |
| `qos` | is each artifact on the host accounted for, do blocks hold, is what an undisturbed enforcement recorded what the host has, and within the total asked for? | yes; the shares fit, up to their rounding |
| `shaper` | does every artifact have an active policy, or an eviction, failure or crash that left it? | yes |
| `accounts` | do locks count and hold, can registrations climb to a privileged role, does the log's alarm mean an eviction, do the revenue page and the accounts agree? | yes; no role is gained |
| `counters` | does each reader of counters report what was added, through wraps, reboots and missing answers? | `snmp_parser.py` and `broadband.py` do; the stream does while floats are exact; `fiber.py` misses at most one wrap of two that fall between the same polls, which SNMP shows as 0 and gNMI below 0 |
| `monitoring` | does a link that answers nothing show a loss until it answers again, is a dead link left and alerted, is an open socket broadcast to? | yes; yes; yes, while the loops live |
| `services` | are flows made before they are broken, is a critical link left in the end, is each well-formed request of the twin answered? | yes |
| `pages` | is what the sandbox page deploys what was validated, do calls of the portals' own pages carry the token of the account they were drawn for, do lists and the store come true, does every button come back? | yes; the store while the broadcast loop lives |
| `shaper_delete` | "Remove any traffic shaping policies created by this intent" (`ibn_engine.py:584`) | no: the deletion looks for a key that the list does not have, and finds none |
| `scoreboard_stop` | "pushes scoreboard updates at 1 Hz to all connected clients" (`pathwiseaireadme.md:181`) | no: a client that joins during a send ends the loop for all |

### Bounds, and why they are enough

* `handoff`: two flows, two sessions, two links and an alias of the first, two
  handoffs. A session leaves a link and is met by a second handoff from the link it
  went to; a flow is installed, rolled back, and lost in a restart. Memory mode
  and ONOS, where the verdict is about the proposal and record and rule are one
  to one; the theorems lift both sizes and, where true, the modes. `SearchIsExact`,
  an assumption TLC evaluates in this run, compares the search with paths on all
  undirected graphs of four nodes (self-loops included: the smallest size with a
  cycle away from the root and two components) and on the topology of each
  proposal.
* `rules`: three links, one of them unknown to the reference topology, and
  `MaxRules` = 4, so that a link is diverted, restored and diverted again while
  another is diverted; two validations, scores at both sides of both thresholds,
  `HistoryCap` = 1 so that the cap bites. The constraint `RulesOrValidations`
  keeps a behaviour to rules or to validations, which neither read nor write
  what belongs to the other.
* `intents`: one intent of any of seven goals: the monitor's checks of two intents
  read nothing of one another. Two links, two rules, scores at both sides of
  both thresholds.
* `qos`: two threads, two rules of two commands each, two apps, one user,
  `MaxFaults` = 1 failing command or restart. One app's signature makes two
  policies, the other's none, as Chrome's. The first setting asks for more than
  all of half the link, so that its shares are scaled down; the second names no
  total and blocks an app.
* `shaper`: base 2, where the names 2 and 3 begin with 1 as 10 to 19 do in base
  10; three policies (`MaxCounter`) in a list of two (`MaxPolicies`), so that the
  list overflows; one app that the enforcer knows and one that it does not.
* `accounts`: seven requests (`MaxRequests`), enough for two failures, a lock,
  its expiry and a login that follows; locks of two failures and two ticks, a
  clock of four, a log of two entries with four logged (`MaxLogged`), one seeded
  account and one to register, a customer and two plans.
* `counters`: counters of two bits (`Width` = 4), so that both wrap between two
  polls, alone and together, from every value; floats that are 0, 1, 2, 4 and 8, so
  that they are exact up to 2 and sums of counters are not. The space is finite
  without a bound.
* `monitoring`: a pinged and a replayed link, one sample to a buffer, two
  clients; the ping is slow and without its line on loss, loses everything,
  prints nothing or raises; the replayed link is the healthy one. The other kinds
  of collectors are compared with the ping by `SilentKindsShow`, an assumption TLC
  evaluates in this run. Two clients are what it takes for one to come or go while
  the other is sent to.
* `services`: two links, which have their turn alone, so that both can be
  predicted; three predictions (`MaxPredictions`) at both sides of both
  thresholds, two requests (`MaxRequests`), and one trouble (`MaxTroubles`): a call
  that goes wrong, a crash, or a malformed request before or behind the other.
* `pages`: two calls that users and their answers make and one of a timer at a
  time, so that answers overtake each other; on the pages of `OneAtATime` one of
  the user's, which is a validation, a deployment or an action beside a poll or the first
  list. One call is lost, at any point of its way, and two
  connections break; refusals are not counted. Two reports and two rules of
  one class of traffic, one of them diverted; a text that is understood, one that is
  not, and one too short for a preview that is understood all the same ("drop"); two apps in the select box and two addresses, one of them refused; two
  mountings of the hook, so that a socket outlives its page beside the next; an
  owner and an administrator.

`CHECK_DEADLOCK FALSE` is in the configurations whose counters (`MaxHandoffs`,
`MaxRules`, `MaxRequests`, `MaxCounter`) end the behaviour.

### Fairness

* `IntentCompliance` assumes it of `MonitorRound`, which is a `while True`
  around a `try` and a sleep of two seconds (`ibn_engine.py:788-797`), and of
  `CooldownEnds`, which is the clock.
* `Scoreboard` assumes it of the rounds of collection and prediction and of the
  broadcast loop, which run each second as long as their tasks live, and of
  `Second`. It does not assume that a task lives: `collecting` and `phase` say
  when one has ended, and the properties hold while it has not.
* `TrafficSteering` assumes it of the steering loop and of the twin's loop,
  both `while True`. Crashes and failing calls are bounded, so "in the end" is
  after the last of them.
* `WebPages` assumes it of each slot: a call that is sent is answered by the
  server, an answer is taken, and in a free slot a timer fires; and of each
  socket's own steps. A call may be lost, but none has to be, and losses are bounded.
  A broadcast is such a step while the broadcast loop lives: `scoreboard_stop`
  shows how the loop ends, so `BroadcastEnds` may happen at any time, and the
  store is only said to catch up if it does not.

Nothing is assumed of clients, users, other tabs, gateways, telemetry, forecasts or
controllers.

## The proofs

Each proof module establishes an inductive invariant for every value of the
constants, under the named assumptions of the modules it extends. The bounds of
the runs (`Max...`) are constants too, so the theorems hold for any.

* `HitlessHandoffProofs`, sessions: `SessionInv` adds to the type that a session
  that was put on a link has that link (`OnALink`) and that no list holds a
  session which is not live (`ListedIsLive`): without them a migration might
  append a session the target already has. From it `EverySessionHasOneHome`,
  `ActiveSessionsStayListed` and `PreservedHandoffsMoveAll`. `AccountInv` says
  that a function which sums up the history exists and ends in the number of
  sessions moved. A sum is what its recursion says (`SumsAreUnique`, by the least
  place where two would differ) and grows by what is appended (`SumsGrow`);
  hence `HistoryAccountsForSessions`.
* `HitlessHandoffProofs`, adapter: `RecordInv` says that rules were submitted
  (`OnlySubmitted`), that a controller's ids have one owner (`NamesAreOwned`)
  and that a record locates only rules of its own flow (`RecordsLocateOwn`);
  hence `RulesFallSafely` in every mode. `SingleInv` adds, for one controller,
  that each rule is located by the record; hence `RollbackIsComplete` and
  `RecordsReachTheRules`, which are false with two controllers.
* `HitlessHandoffProofs`, composition: every step of a handoff, deployment or
  rollback is a step of the adapter (`FlowsAreTheAdapters`) and, in memory mode,
  of the session manager (`HandoffsAreMigrations`), so the invariants of both hold.
  `TellInv` ties the record to what callers were told, in both directions:
  `RecordedIsReported`.
  `PlacedInv` and `MovedInv` say, in memory mode, where a rule was placed and
  that there are no more migrations than executed handoffs: `RulesArePassed`,
  `MigrationsArePassed`. In mininet mode both are false for a handoff between
  two names of one node.
* `SteeringRulesProofs`, rules: `RulesInv` (types, one diversion per source, only
  links in service) gives `OneDiversion` and the `Refinement` of `Diversion`, by
  the lemmas `ApplyDiverts` and `RollbackRestores`. `ValidationInv` says what a
  validation that has come to a stage has already established, and which
  finished reports the history holds; hence `PassedLinksComply`,
  `HistoryKeepsRecent` and `TypeCorrect`.
* `SteeringRulesProofs`, intents: rules and validations behave under the intents
  as they do alone (`ControlledRules`: what is proved of them holds here).
  `ClosedIntents` is by cases on the requests.
* `HostQosProofs`: `QosInv` has a part for each feature, and a thread of one leaves
  the tasks of the other alone. `DegraderInv` says that one thread has a rule
  in hand, what a command that removes has left behind (`RemovedSoFar`) and what one
  that applies has put up (`AppliedSoFar`); hence `NoArtifactStrays`,
  `BlocksHold`. `EnforcerInv` says that an enforcement which nothing has
  disturbed is the only one, has done what it has not left to do (`ExactIsAlone`)
  and is for some user's setting; hence `SettledPolicies`, `SettledSetting`.
  `SharesFitTotal` is arithmetic: a share is its weight rounded by half a unit at
  most (`ShareIsRounded`), and the shares of all apps add up to what their weights
  do, but for one rounding each (`SharesAddUp`, `SharesFit`). An enforcement has
  its shares and its total in hand from the request to the record (`SharesInHand`).
* `TrafficProofs`, shaper: the calls are functions, so the lemmas are about them:
  each keeps the host accounted for (`Good`), whichever of its scripts work.
  `ShaperInv` needs that every policy's number is at most the counter, or a new
  policy could take the name of one that has just ended. Hence `HostAccounted`.
* `TrafficProofs`, steering service: `ShiftInv` follows a shift through its calls:
  classes behind `rest` have the new flow while flows are put, and all of them
  have it while flows are deleted. Hence `FlowsAreMadeBeforeBroken`.
* `AccountServerProofs`: one invariant for each part, and that the other parts
  leave it alone. `AuditInv` says how long the log is and that it is the tail of
  the chain; `AccountsInv` that no account is SUPER_ADMIN and that a lock and a
  full counter go together, in both stores; `PortalInv` that ids tell
  configurations apart. As a user has one plan in force at most, the rows in
  force fall into groups by user and by plan with the same sum: `RevenueAgrees`.
* `CollectionProofs`: of the counters, `PollStillTells` says what the last poll
  still means: each counter is what was read then, advanced by what was added
  since. With arithmetic modulo `Width`, and exact floats up to `Exact`, it gives
  `ReportsAreRight`. Of the collectors, `SilenceIsSeen` is about one poll of any
  kind of collector, and `SilenceInv` about buffers whose newest sample repeats
  one of the silence: `SilenceIsShown`, whatever sources measure.
  `TrafficLeavesDeadLinks` needs no invariant. `OpenInv`
  says that what is open is neither broken nor known to be dead:
  `OpenSocketsAreListed`.
* `WebPagesProofs`: `PagesInv`. For the sandbox page it says of every request
  that makes a rule, wherever it is, that it names a report which has passed
  and carries its change, and what of the report in view is known to the
  page; hence `DeployedReports`. For a tab's session it says that the account
  shown is the account stored until another tab stores one, that a portal's page
  is drawn for somebody, and so of every call under way that it carries the token
  of its page's account: `PortalTokens`.
* `Sums`: the lemmas these share. `SubsetsAreGood` is induction over the subsets
  of a finite set, for a property that is a set (it follows from the
  well-foundedness of strict inclusion). `SumsAreUnits` says what the sums of
  `FiniteSetsExt` are: the number of units their summands have together;
  `SumsByGroup` that a sum may be taken group by group.

The assumptions on the constants are what the code gives them: tables of apps,
classes, plans and links are finite and typed (`AppAssumption`,
`MatchesAssumption`, `SettingAssumption`, `PlanAssumption`, `OrderAssumption`,
`SourcesAssumption`), as are
the accounts there can be (`UserAssumption`), and the name for no link is none
of the links.

Every safety and action property that a run checks is stated by a theorem. Only
model-checked are the liveness properties (`ComplianceIsNoticed`, `ViolationIsAnswered`,
`SickLinksAreAlerted`, `SickLinksAreLeft`, `RequestsAreAnswered`,
`PagesCatchUp`, `BusyEnds`), which the prover does not do under fairness, and
`SearchIsExact`, which compares a search with paths of any length.

## Seen in the code, and not a run

Moving traffic:
* A session that was migrated is not ACTIVE any more; the next migration away
  from its link leaves it out and drops it from the list
  (`session_manager.py:193`), where line 85 promises zero session loss.
* With two controllers the ONOS record replaces the ODL one
  (`sdn_adapter.py:225`), so a rollback leaves the ODL rule. Line 239 forgets a
  flow before it deletes the rule: a deletion that fails cannot be retried.
* Sessions are moved before the flow is installed and stay moved if that fails.
* In mininet mode Mininet and Batfish judge the topology they have, so a
  handoff from a node to itself passes (`sandbox.py:610-618`).
* `ibn_engine.py:1108` calls NETCONF authoritative; the result of the REST call
  alone is returned (1113).
* Each proposal is checked alone: rules that passed may together form a circle.
  A routing rule takes any report id and needs no report (`main.py:402-422`).

Intents and the host:
* A redirect is an event in the steering history and no rule; it is repeated
  after each cooldown. Prioritising a link whose forecast is bad steers traffic
  onto it (`ibn_engine.py:751-755`), and a threshold for a preferred link may
  steer another link that is above it (742-746). Bandwidth goals are never
  checked and reported compliant (671-730).
* The names of links are found longest alias first (`ibn_engine.py:130`), so
  "redirect from fiber to satellite" becomes a redirect from the satellite.
* The sweeper that would end selective rules (`selective_degrader.py:202`) is
  started nowhere. The enforcer's clean-up of `PW_*` also reaches
  `PW_SelQ_...`, the selective throttles. Two enforcements that overlap leave the
  policies of one and the record of the other.
* Each app has up to eight address policies and one for a program, each at the
  app's whole share (`bandwidth_enforcer.py:206-233`): the policies together may
  let through more than the total. Removing an app enforces what is left on the
  capacity of the link; the `total_mbps` of the request that set it is not kept
  (`priority_manager.py:86-98`).
* Removing a shaping policy takes every artifact of its action and app whose
  number begins with its own (`traffic_shaper.py:417`), those of active policies
  too.

Monitoring:
* A dead link has health 68.2: it is alerted, as the threshold is 70, but never
  falls under 50, so with the LSTM switched on it is never steered away from.
  Alerts are raised only while a client is connected.
* Some silence passes for no loss. A phone whose ping prints nothing counts as
  loss of zero, and so does each poll of a replay without rows (`replay.py:49`); `SilenceShows`
  leaves the phone out. An answer with a part missing does too: a ping without its
  line on loss (`base.py:111`), a fiber device without the number of received
  packets (`fiber.py:170`), a dish without its drop rates (`satellite.py:131`).
* A collector that raises repeats its last sample, however old (`base.py:57`): a
  link that answered well once and raises ever after goes on looking well.
* `fiber.py:241` and `259` report an amount below 0 when both counters wrap between
  two gNMI polls; only the SNMP path (186) cuts it off. `streaming_telemetry.py:147`
  makes floats of counters of 64 bits, so amounts near 2^53 and above are not exact.
* With the LSTM on, a link in a brown-out with a health of 50 to 59 is shown with its
  base values although nothing is steered. The best alternative may be sicker
  than the link that is left.
* A CSV file that cannot be written ends the collection for good, and then the
  broadcast, which misses an effective sample.

Accounts:
* `login_v2` does not look at `is_active`. With a driver that returns
  timestamps as text (SQLite) a lock in `app_users` cannot be compared with the
  time, so it is never lifted; with one that does not, the counter is kept after
  expiry and one more failure locks again.

Services:
* The window of 60 points is taken from one stream of all links: with two
  devices polled together no link is ever predicted. Predictions do not expire,
  so a link that is no longer polled keeps its last one.
* A manual steering request fails on each entry (`flow_manager.py:77`:
  AttributeError), and the verdict of the twin is read by nobody.
* The limit of three seconds around `pingAll` cannot interrupt it. After a
  crash the twin validates everything again. A request whose `traffic_classes` or
  `topology_override` is not JSON is never answered (`digital-twin/main.py:79-82`).
* Each poll makes a fresh SNMP parser in the ingestion loop, so rates from
  counters stay at their first value.

Web pages:
* There are two credentials. The login that `App.tsx` routes to stores
  `pathwise_user` (`AuthContext.tsx:66`); the axios client and the socket read
  `pathwise_token` (`services/api.ts:24-27`), which only the login page that no
  route leads to sets. With authentication switched on the tool pages are
  refused after a login that succeeded.
* Once the broadcast loop has ended (`scoreboard_stop`), the sockets stay open and
  `wsConnected` stays true: the store keeps what it had last.
* A 401 loads the login page and leaves the account stored, so the portals stay
  open to it until a call is refused again (`apiClient.ts:17-19`). A late 401 of
  a page that was left ends a sign-in that is under way.
* After another tab has signed in or out, a page goes on with the account it was
  drawn for and sends the token of the other.
* The banner of a deployed rule stays when another report is picked
  (`SandboxViewer.tsx:449-489`).
* Picks are reset by the candidates' arrival, not by the choice of an app
  (`SelectiveIPDegrade.tsx:95`): until then, or when the call fails, addresses
  picked for one app are submitted for another.
* The preview of a text may be an older one's: answers are taken in any order,
  also after the text was cleared (`IBNConsole.tsx:74-88`).
* A queue can be applied while a reset is under way; page and server then keep
  what came last to each.
* Leaving a tool page closes its socket, whose `onclose` connects again
  (`useWebSocket.ts:38-55`): each visit leaves one more socket, and the pages
  under the old addresses, which mount no hook, are fed by these only.
* `AppQoSOverview.tsx:25-26` reads `users`; the server answers
  `all_priorities`, so the page stays empty.

## Not modelled

| Part | Why |
|---|---|
| `PATHWISE_AI_CURSOR_BUILD_SPEC.py` | a file of prompts from which the program was generated; no code of the system |
| `build_pptx.py`, `build_orchestrator.py`, `setup_pathwise.py`, `run.py` | slides, packaging, start-up |
| `src/ml` | training and data preparation: numeric, without states or protocols; the trained network is external to `Predict` |
| the other pages of `src/frontend` | load a list once and draw it, or send one form |
| tc mode of the degrader and the enforcer | whether a filter rule is found again depends on how `iptables-save` prints a comment |
| the ONOS client of the steering service, NetFlow | the first repeats what `SdnAdapter` models, the second only logs |
| reading the text of an intent | a parser of keywords; what is wrong with it is stated above |
| `app_qos/flow_detector.py`, `reports.py` | read, format, keep no state |
| `db.py`, `encryption.py`, tokens and password hashing | libraries and their set-up |
| routes of the API gateway but `/validate` | forward to streams or read them back |
| e-mail of alerts, invoices, sites, texts of tickets and profiles | output, or rows that only readers tell apart |
