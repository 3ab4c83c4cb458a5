--------------------------- MODULE WebPagesProofs ---------------------------
(***************************************************************************)
(* What is proved of the web pages, for any number of calls under way and  *)
(* of calls that fail, any links, classes and accounts: a rule made by the *)
(* sandbox page is the change of a report that has passed, and the calls   *)
(* of a portal's own pages carry the token of the account they are drawn   *)
(* for.                                                                    *)
(***************************************************************************)
EXTENDS WebPages, SequenceTheorems, TLAPS

-----------------------------------------------------------------------------
(* A call that is there. *)

\* A call that is under way is one.
LEMMA UnderWay ==
    ASSUME NEW s, NEW op, NEW stages, "none" \notin stages, Under(s, op, stages)
    PROVE  calls[s] # NoCall /\ calls[s].op = op /\ calls[s].stage \in stages
<1>1. NoCall.stage = "none"
  BY DEF NoCall
<1>2. QED BY <1>1 DEF Under

-----------------------------------------------------------------------------
(* The session of a tab. *)

\* No other tab has stored something, or the two may differ; and whatever
\* happens a portal's page is drawn for somebody.
SessionInv ==
    /\ ~otherTab => stored = user
    /\ place \in {"user", "admin"} => user # NoAccount

\* What a call of a portal's page carries is the token of its account.
OwnToken(arg) == NoAccount # arg.drawnFor /\ arg.drawnFor = arg.token

\* A call of the tab: its fields, and the token of a portal's call.
Fields(c) == "op" \in DOMAIN c /\ c = [x \in DOMAIN c |-> c[x]]

TabCall(c) ==
    \/ c = NoCall
    \/ /\ c.op \in {"login", "portal"} /\ Fields(c)
       /\ c.op = "portal" /\ ~otherTab => OwnToken(c.arg)

TabCallsOK ==
    /\ calls = [s \in Slot |-> calls[s]]
    /\ \A s \in Slot : TabCall(calls[s])

TabInv == SessionInv /\ TabCallsOK

LEMMA GuardedUser ==
    ASSUME NEW p, NEW who, Guarded(p, who) \in {"user", "admin"}
    PROVE  who # NoAccount
BY DEF Guarded

\* Other tabs may store something; nothing else changes what is said of a call.
LEMMA SameTabCall ==
    ASSUME otherTab => otherTab', NEW c, TabCall(c)
    PROVE  TabCall(c)'
BY DEF TabCall

\* One slot's call becomes another one of the tab.
LEMMA TabSlotStep ==
    ASSUME TabCallsOK, otherTab => otherTab', NEW s \in Slot, NEW c, TabCall(c),
           calls' = [calls EXCEPT ![s] = c]
    PROVE  TabCallsOK'
<1>1. \A x \in Slot : calls'[x] = IF x = s THEN c ELSE calls[x]
  BY DEF TabCallsOK
<1>2. calls' = [x \in Slot |-> calls'[x]]
  BY DEF TabCallsOK
<1>3. ASSUME NEW x \in Slot
      PROVE  TabCall(calls[x])'
  <2>1. PICK d : d = calls'[x]
    OBVIOUS
  <2>2. TabCall(d)
    BY <1>1, <2>1 DEF TabCallsOK
  <2>3. TabCall(d)'
    BY <2>2, SameTabCall
  <2>4. QED BY <2>1, <2>3 DEF TabCall
<1>4. QED BY <1>2, <1>3 DEF TabCallsOK

\* All calls stay.
LEMMA TabCallsStay ==
    ASSUME TabCallsOK, otherTab => otherTab', UNCHANGED calls
    PROVE  TabCallsOK'
<1>1. ASSUME NEW x \in Slot
      PROVE  TabCall(calls[x])'
  <2>1. PICK d : d = calls[x]
    OBVIOUS
  <2>2. TabCall(d)'
    BY <2>1, SameTabCall DEF TabCallsOK
  <2>3. QED BY <2>1, <2>2 DEF TabCall
<1>2. QED BY <1>1 DEF TabCallsOK

\* The form that is left marks the sign-ins, and no other call.
LEMMA FormLeftStep ==
    ASSUME TabCallsOK
    PROVE  /\ FormLeft = [s \in Slot |-> FormLeft[s]]
           /\ \A s \in Slot : TabCall(FormLeft[s])
<1>1. ASSUME NEW s \in Slot
      PROVE  TabCall(FormLeft[s])
  <2>1. TabCall(calls[s])
    BY DEF TabCallsOK
  <2>2. CASE calls[s] = NoCall \/ calls[s].op # "login"
    BY <2>1, <2>2 DEF FormLeft
  <2>3. CASE calls[s] # NoCall /\ calls[s].op = "login"
    <3>1. PICK left : left = [calls[s].arg EXCEPT !.here = FALSE]
      OBVIOUS
    <3>2. FormLeft[s] = [calls[s] EXCEPT !.arg = left]
      BY <2>3, <3>1 DEF FormLeft
    <3>3. Fields(calls[s])
      BY <2>1, <2>3 DEF TabCall
    <3>4. Fields(FormLeft[s]) /\ FormLeft[s].op = "login"
      BY <2>3, <3>2, <3>3 DEF Fields
    <3>5. QED BY <3>4 DEF TabCall
  <2>4. QED BY <2>2, <2>3
<1>2. QED BY <1>1 DEF FormLeft

\* The server answers a call of the tab, or the answer reaches nobody.
LEMMA TabReplyStep ==
    ASSUME TabCallsOK, UNCHANGED otherTab, NEW s \in Slot, NEW ok, NEW answer,
           calls[s] # NoCall, Replies(s, ok, answer)
    PROVE  TabCallsOK'
<1> DEFINE c == IF calls[s].stage = "abandoned" THEN NoCall
                ELSE [op |-> calls[s].op, arg |-> calls[s].arg, stage |-> "answered",
                      ok |-> ok, answer |-> answer]
<1>1. calls' = [calls EXCEPT ![s] = c]
  BY DEF Replies
<1>2. TabCall(c)
  <2>1. TabCall(calls[s])
    BY DEF TabCallsOK
  <2>2. QED BY <2>1 DEF TabCall, Fields
<1> HIDE DEF c
<1>3. QED BY <1>1, <1>2, TabSlotStep

\* A call of the tab is refused, lost or given up.
LEMMA TabRejectStep ==
    ASSUME TabCallsOK, UNCHANGED otherTab, NEW s \in Slot, NEW op, Rejects(s, op)
    PROVE  TabCallsOK'
<1>1. CASE calls' = [calls EXCEPT ![s] = NoCall]
  BY <1>1, TabSlotStep DEF TabCall
<1>2. CASE calls[s].stage = "sent" /\ calls' = [calls EXCEPT ![s].stage = "abandoned"]
  <2> DEFINE c == [calls[s] EXCEPT !.stage = "abandoned"]
  <2>1. calls[s] # NoCall
    BY <1>2 DEF NoCall
  <2>2. Fields(calls[s]) /\ calls[s].op \in {"login", "portal"}
    BY <2>1 DEF TabCallsOK, TabCall
  <2>3. Fields(c) /\ c.op = calls[s].op /\ c.arg = calls[s].arg
    BY <2>2 DEF Fields
  <2>4. TabCall(c)
    BY <2>1, <2>2, <2>3 DEF TabCallsOK, TabCall
  <2>5. calls' = [calls EXCEPT ![s] = c]
    BY <1>2
  <2> HIDE DEF c
  <2>6. QED BY <2>4, <2>5, TabSlotStep
<1>3. QED BY <1>1, <1>2 DEF Rejects, RejectsInto

LEMMA LoginServesStep ==
    ASSUME TabInv, NEW s \in Slot, LoginServes(s)
    PROVE  TabInv'
<1>1. UNCHANGED loginVars
  BY DEF LoginServes, LoginV2, PortalServes
<1>2. SessionInv'
  BY <1>1 DEF TabInv, SessionInv, loginVars
<1>3. PICK ok, answer : calls[s] # NoCall /\ Replies(s, ok, answer)
  BY UnderWay DEF LoginServes, LoginV2, PortalServes, Serving
<1>4. QED BY <1>1, <1>2, <1>3, TabReplyStep DEF TabInv, loginVars

\* The script ends with all its calls.
LEMMA LoadsStep ==
    ASSUME NEW p, NEW who, Loads(p, who)
    PROVE  TabInv'
<1>1. SessionInv'
  BY GuardedUser DEF Loads, SessionInv
<1>2. TabCallsOK'
  BY DEF Loads, TabCallsOK, TabCall
<1>3. QED BY <1>1, <1>2 DEF TabInv

LEMMA LoginReactsStep ==
    ASSUME TabInv, NEW s \in Slot, LoginReacts(s)
    PROVE  TabInv'
<1>1. CASE LoginAnswered(s)
  <2>1. SessionInv'
    BY <1>1, GuardedUser DEF LoginAnswered, SessionInv
  <2>2. UNCHANGED otherTab
    BY <1>1 DEF LoginAnswered
  <2>3. PICK left : left = FormLeft
    OBVIOUS
  <2>4. /\ left = [x \in Slot |-> left[x]]
        /\ \A x \in Slot : TabCall(left[x])
    BY <2>3, FormLeftStep DEF TabInv
  <2>5. calls' = [left EXCEPT ![s] = NoCall]
    BY <1>1, <2>3 DEF LoginAnswered
  <2>6. calls' = [x \in Slot |-> calls'[x]]
    BY <2>4, <2>5
  <2>7. ASSUME NEW x \in Slot
        PROVE  TabCall(calls[x])'
    <3>1. PICK d : d = calls'[x]
      OBVIOUS
    <3>2. d = left[x] \/ d = NoCall
      BY <2>4, <2>5, <3>1
    <3>3. TabCall(d)
      BY <2>4, <3>2 DEF TabCall
    <3>4. TabCall(d)'
      BY <2>2, <3>3, SameTabCall
    <3>5. QED BY <3>1, <3>4 DEF TabCall
  <2>8. QED BY <2>1, <2>6, <2>7 DEF TabInv, TabCallsOK
<1>2. CASE LoginFails(s)
  <2>1. SessionInv'
    BY <1>2 DEF LoginFails, TabInv, SessionInv
  <2>2. QED BY <1>2, <2>1, TabRejectStep DEF LoginFails, TabInv
<1>3. CASE Expelled(s)
  BY <1>3, LoadsStep DEF Expelled
<1>4. CASE PortalEnds(s)
  <2>1. SessionInv'
    BY <1>4 DEF PortalEnds, loginVars, TabInv, SessionInv
  <2>2. TabCallsOK'
    BY <1>4, TabRejectStep, TabSlotStep DEF PortalEnds, GoesOn, loginVars, TabInv, TabCall
  <2>3. QED BY <2>1, <2>2 DEF TabInv
<1>5. QED BY <1>1, <1>2, <1>3, <1>4 DEF LoginReacts

LEMMA LoginUserStep ==
    ASSUME TabInv, LoginUser
    PROVE  TabInv'
<1>1. ASSUME NEW p \in Place, LoadPage(p)
      PROVE  TabInv'
  BY <1>1, LoadsStep DEF LoadPage
<1>2. ASSUME NEW p \in Place, Navigate(p)
      PROVE  TabInv'
  <2>1. SessionInv'
    BY <1>2, GuardedUser DEF Navigate, TabInv, SessionInv
  <2>2. PICK left : left = FormLeft
    OBVIOUS
  <2>3. calls' = left /\ UNCHANGED otherTab
    BY <1>2, <2>2 DEF Navigate
  <2>4. left = [x \in Slot |-> left[x]] /\ \A x \in Slot : TabCall(left[x])
    BY <2>2, FormLeftStep DEF TabInv
  <2>5. ASSUME NEW x \in Slot
        PROVE  TabCall(calls[x])'
    <3>1. PICK d : d = calls'[x]
      OBVIOUS
    <3>2. TabCall(d)'
      BY <2>3, <2>4, <3>1, SameTabCall
    <3>3. QED BY <3>1, <3>2 DEF TabCall
  <2>6. QED BY <2>1, <2>3, <2>4, <2>5 DEF TabInv, TabCallsOK
<1>3. ASSUME NEW who \in LoginAccount \cup {NoAccount}, OtherTabStores(who)
      PROVE  TabInv'
  <2>1. SessionInv'
    BY <1>3 DEF OtherTabStores, TabInv, SessionInv
  <2>2. QED BY <1>3, <2>1, TabCallsStay DEF OtherTabStores, NoSends, callVars, TabInv
<1>4. ASSUME NEW s \in UserSlot, PortalCall(s)
      PROVE  TabInv'
  <2> DEFINE arg == [drawnFor |-> user, token |-> stored]
  <2>1. SessionInv'
    BY <1>4 DEF PortalCall, loginVars, TabInv, SessionInv
  <2>2. ~otherTab => OwnToken(arg)
    BY <1>4 DEF PortalCall, TabInv, SessionInv, OwnToken
  <2>3. calls' = [calls EXCEPT ![s] = Request("portal", arg)] /\ UNCHANGED otherTab
    BY <1>4 DEF PortalCall, Sends, loginVars
  <2> HIDE DEF arg
  <2>4. TabCall(Request("portal", arg))
    BY <2>2 DEF TabCall, Fields, Request
  <2>5. QED BY <2>1, <2>3, <2>4, TabSlotStep DEF TabInv, Slot
<1>5. ASSUME NEW s \in UserSlot, NEW who \in LoginAccount, SignIn(s, who)
      PROVE  TabInv'
  <2> DEFINE arg == [account |-> who, here |-> TRUE]
  <2>1. SessionInv'
    BY <1>5 DEF SignIn, TabInv, SessionInv
  <2>2. calls' = [calls EXCEPT ![s] = Request("login", arg)] /\ UNCHANGED otherTab
    BY <1>5 DEF SignIn, Sends
  <2> HIDE DEF arg
  <2>3. TabCall(Request("login", arg))
    BY DEF TabCall, Fields, Request
  <2>4. QED BY <2>1, <2>2, <2>3, TabSlotStep DEF TabInv, Slot
<1>6. CASE LogOut
  BY <1>6, LoadsStep DEF LogOut
<1>7. QED BY <1>1, <1>2, <1>3, <1>4, <1>5, <1>6 DEF LoginUser

-----------------------------------------------------------------------------
(* The sandbox page. *)

PageEnd == PageLink \cup {"fiber-primary", "broadband-secondary"}
Change == [source : PageEnd, target : PageEnd, classes : SUBSET PageClass]

\* A request to make a rule, or a rule, names a report that has passed.
NamesPassed(r) ==
    /\ r.report \in DOMAIN reports
    /\ reports[r.report].passed
    /\ reports[r.report].change = r.change

\* What a call of the page carries, and what its answer may say.
SandboxCall(c) ==
    \/ c = NoCall
    \/ /\ c.stage \in {"sent", "abandoned", "answered"}
       /\ c.stage = "sent" => c = Request(c.op, c.arg)
       /\ c.op = "validate" => c.arg \in Change
       /\ c.op = "apply" => NamesPassed(c.arg) /\ c.arg.change \in Change
       /\ c.stage = "answered" /\ c.ok /\ c.op = "validate" => c.answer \in DOMAIN reports
       /\ c.stage = "answered" /\ c.ok /\ c.op = "history" => c.answer \subseteq DOMAIN reports

CallsOK ==
    /\ calls = [s \in Slot |-> calls[s]]
    /\ \A s \in Slot : SandboxCall(calls[s])

ReportsOK == reports \in Seq([change : Change, passed : BOOLEAN])

RulesOK ==
    /\ madeRules \in Seq([report : Nat, change : Change, active : BOOLEAN])
    /\ \A i \in DOMAIN madeRules : NamesPassed(madeRules[i])

ShownOK ==
    /\ Chosen \in Change
    /\ shownReport = 0 \/ shownReport \in DOMAIN reports
    /\ shownHistory \subseteq DOMAIN reports

SandboxInv == CallsOK /\ ReportsOK /\ RulesOK /\ ShownOK

\* A slot gets a call, or loses it, and the reports named in the others are
\* as they were.
LEMMA CallStep ==
    ASSUME CallsOK, NEW s \in Slot, NEW c, calls' = [calls EXCEPT ![s] = c],
           SandboxCall(c)', \A d : SandboxCall(d) => SandboxCall(d)'
    PROVE  CallsOK'
<1>1. \A x \in Slot : calls'[x] = IF x = s THEN c ELSE calls[x]
  BY DEF CallsOK
<1>2. calls' = [x \in Slot |-> calls'[x]]
  BY DEF CallsOK
<1>3. ASSUME NEW x \in Slot
      PROVE  SandboxCall(calls[x])'
  <2>1. PICK d : d = calls'[x]
    OBVIOUS
  <2>2. SandboxCall(d)'
    BY <1>1, <2>1 DEF CallsOK
  <2>3. QED BY <2>1, <2>2 DEF SandboxCall
<1>4. QED BY <1>2, <1>3 DEF CallsOK

LEMMA SameReports ==
    ASSUME UNCHANGED reports, NEW c, SandboxCall(c)
    PROVE  SandboxCall(c)'
BY DEF SandboxCall, NamesPassed

LEMMA SlotStep ==
    ASSUME CallsOK, UNCHANGED reports, NEW s \in Slot, NEW c,
           SandboxCall(c), calls' = [calls EXCEPT ![s] = c]
    PROVE  CallsOK'
<1>1. \A d : SandboxCall(d) => SandboxCall(d)'
  BY SameReports
<1>2. QED BY <1>1, CallStep

\* What a longer sequence holds.
LEMMA Lengthened ==
    ASSUME NEW S, NEW seq \in Seq(S), NEW e \in S
    PROVE  /\ Append(seq, e) \in Seq(S)
           /\ \A i \in DOMAIN Append(seq, e) :
                 \/ Append(seq, e)[i] = e
                 \/ i \in DOMAIN seq /\ Append(seq, e)[i] = seq[i]
<1>1. Append(seq, e) \in Seq(S)
  OBVIOUS
<1>2. ASSUME NEW i \in 1..(Len(seq) + 1)
      PROVE  \/ Append(seq, e)[i] = e
             \/ i \in 1..Len(seq) /\ Append(seq, e)[i] = seq[i]
  <2>1. CASE i \in 1..Len(seq)
    BY <2>1, AppendProperties
  <2>2. CASE i = Len(seq) + 1
    BY <2>2, AppendProperties
  <2>3. QED BY <2>1, <2>2
<1>3. DOMAIN seq = 1..Len(seq) /\ DOMAIN Append(seq, e) = 1..(Len(seq) + 1)
  OBVIOUS
<1>4. QED BY <1>1, <1>2, <1>3

\* The page does not send, or a call of it is given up.
LEMMA RejectStep ==
    ASSUME CallsOK, UNCHANGED reports, NEW s \in Slot, NEW op, Rejects(s, op)
    PROVE  CallsOK'
<1>1. CASE calls' = [calls EXCEPT ![s] = NoCall]
  BY <1>1, SlotStep DEF SandboxCall
<1>2. CASE calls[s].stage = "sent" /\ calls' = [calls EXCEPT ![s].stage = "abandoned"]
  <2> DEFINE c == [calls[s] EXCEPT !.stage = "abandoned"]
  <2>1. SandboxCall(calls[s]) /\ calls[s] # NoCall
    BY <1>2 DEF CallsOK, NoCall
  <2>2. calls[s] = Request(calls[s].op, calls[s].arg)
    BY <1>2, <2>1 DEF SandboxCall
  <2>3. c.stage = "abandoned" /\ c.op = calls[s].op /\ c.arg = calls[s].arg
    BY <2>2 DEF Request
  <2>4. SandboxCall(c)
    BY <2>1, <2>3 DEF SandboxCall
  <2>5. calls' = [calls EXCEPT ![s] = c]
    BY <1>2
  <2> HIDE DEF c
  <2>6. QED BY <2>4, <2>5, SlotStep
<1>3. QED BY <1>1, <1>2 DEF Rejects, RejectsInto

\* A call is answered, or nobody waits for the answer.
LEMMA ReplyStep ==
    ASSUME CallsOK, UNCHANGED reports, NEW s \in Slot, NEW ok, NEW answer,
           calls[s] # NoCall, Replies(s, ok, answer),
           ok /\ calls[s].op = "validate" => answer \in DOMAIN reports,
           ok /\ calls[s].op = "history" => answer \subseteq DOMAIN reports
    PROVE  CallsOK'
<1> DEFINE c == IF calls[s].stage = "abandoned" THEN NoCall
                ELSE [op |-> calls[s].op, arg |-> calls[s].arg, stage |-> "answered",
                      ok |-> ok, answer |-> answer]
<1>1. calls' = [calls EXCEPT ![s] = c]
  BY DEF Replies
<1>2. SandboxCall(c)
  <2>1. SandboxCall(calls[s])
    BY DEF CallsOK
  <2>2. QED BY <2>1 DEF SandboxCall
<1> HIDE DEF c
<1>3. QED BY <1>1, <1>2, SlotStep

\* A new report leaves the others as they are.
LEMMA ReportStep ==
    ASSUME SandboxInv, NEW report \in [change : Change, passed : BOOLEAN],
           reports' = Append(reports, report)
    PROVE  /\ ReportsOK'
           /\ DOMAIN reports' = DOMAIN reports \cup {Len(reports')}
           /\ Len(reports') \in DOMAIN reports'
           /\ \A i \in DOMAIN reports : reports'[i] = reports[i]
<1>1. reports \in Seq([change : Change, passed : BOOLEAN])
  BY DEF SandboxInv, ReportsOK
<1>2. QED BY <1>1 DEF ReportsOK

LEMMA MoreReports ==
    ASSUME DOMAIN reports \subseteq DOMAIN reports',
           \A i \in DOMAIN reports : reports'[i] = reports[i]
    PROVE  /\ \A r : NamesPassed(r) => NamesPassed(r)'
           /\ \A c : SandboxCall(c) => SandboxCall(c)'
<1>1. ASSUME NEW r, NamesPassed(r)
      PROVE  NamesPassed(r)'
  BY <1>1 DEF NamesPassed
<1>2. ASSUME NEW c, SandboxCall(c)
      PROVE  SandboxCall(c)'
  BY <1>1, <1>2 DEF SandboxCall
<1>3. QED BY <1>1, <1>2

\* A step that makes neither reports nor rules keeps both, and what it shows
\* and sends has to be right.
LEMMA PageStep ==
    ASSUME SandboxInv, UNCHANGED sandboxServer, CallsOK', ShownOK'
    PROVE  SandboxInv'
<1>1. UNCHANGED <<reports, madeRules>>
  BY DEF sandboxServer
<1>2. QED BY <1>1 DEF SandboxInv, ReportsOK, RulesOK, NamesPassed

LEMMA SameShown ==
    ASSUME ShownOK, UNCHANGED <<chosenVars, shownReport, shownHistory, sandboxServer>>
    PROVE  ShownOK'
BY DEF ShownOK, Chosen, chosenVars, sandboxServer

LEMMA SendStep ==
    ASSUME CallsOK, UNCHANGED reports, NEW s \in Slot, NEW op, NEW arg,
           Sends(s, op, arg) \/ GoesOn(s, Request(op, arg)),
           op = "validate" => arg \in Change,
           op = "apply" => NamesPassed(arg) /\ arg.change \in Change
    PROVE  CallsOK'
<1>1. Request(op, arg).stage = "sent" /\ Request(op, arg).op = op /\ Request(op, arg).arg = arg
  BY DEF Request
<1>2. SandboxCall(Request(op, arg))
  BY <1>1 DEF SandboxCall
<1>3. calls' = [calls EXCEPT ![s] = Request(op, arg)]
  BY DEF Sends, GoesOn
<1>4. QED BY <1>2, <1>3, SlotStep

LEMMA SameCalls ==
    ASSUME CallsOK, UNCHANGED reports, UNCHANGED calls \/ \E s \in Slot : GoesOn(s, NoCall)
    PROVE  CallsOK'
<1>1. CASE UNCHANGED calls
  BY <1>1 DEF CallsOK, SandboxCall, NamesPassed
<1>2. ASSUME NEW s \in Slot, GoesOn(s, NoCall)
      PROVE  CallsOK'
  BY <1>2, SlotStep DEF GoesOn, SandboxCall
<1>3. QED BY <1>1, <1>2

LEMMA SandboxServesStep ==
    ASSUME SandboxInv, NEW s \in Slot, SandboxServes(s)
    PROVE  SandboxInv'
<1>1. CASE SandboxValidate(s)
  <2>1. PICK passed \in BOOLEAN :
           reports' = Append(reports, [change |-> calls[s].arg, passed |-> passed])
    BY <1>1 DEF SandboxValidate
  <2> DEFINE report == [change |-> calls[s].arg, passed |-> passed]
  <2>2. SandboxCall(calls[s]) /\ calls[s] # NoCall /\ calls[s].op = "validate"
    BY <1>1 DEF SandboxValidate, Serving, Under, NoCall, SandboxInv, CallsOK
  <2>3. report \in [change : Change, passed : BOOLEAN]
    BY <2>2 DEF SandboxCall
  <2> HIDE DEF report
  <2>4. /\ ReportsOK'
        /\ DOMAIN reports' = DOMAIN reports \cup {Len(reports')}
        /\ Len(reports') \in DOMAIN reports'
        /\ \A i \in DOMAIN reports : reports'[i] = reports[i]
    BY <2>1, <2>3, ReportStep DEF report
  <2>5. /\ \A r : NamesPassed(r) => NamesPassed(r)'
        /\ \A c : SandboxCall(c) => SandboxCall(c)'
    BY <2>4, MoreReports
  <2>6. UNCHANGED <<chosenVars, resultVars, madeRules>> /\ Replies(s, TRUE, Len(reports'))
    BY <1>1 DEF SandboxValidate
  <2>7. RulesOK'
    BY <2>5, <2>6 DEF SandboxInv, RulesOK
  <2>8. ShownOK'
    BY <2>4, <2>6 DEF SandboxInv, ShownOK, Chosen, chosenVars, resultVars
  <2>9. CallsOK'
    <3>1. PICK number : number = Len(reports')
      OBVIOUS
    <3>2. PICK c : c = IF calls[s].stage = "abandoned" THEN NoCall
                       ELSE [op |-> calls[s].op, arg |-> calls[s].arg, stage |-> "answered",
                             ok |-> TRUE, answer |-> number]
      OBVIOUS
    <3>3. calls' = [calls EXCEPT ![s] = c]
      BY <2>6, <3>1, <3>2 DEF Replies
    <3>4. number \in DOMAIN reports'
      BY <2>4, <3>1
    <3>5. SandboxCall(c)'
      <4>1. CASE calls[s].stage = "abandoned"
        BY <3>2, <4>1 DEF SandboxCall
      <4>2. CASE calls[s].stage # "abandoned"
        <5>1. /\ c.op = "validate" /\ c.arg = calls[s].arg /\ c.stage = "answered"
              /\ c.answer = number
          BY <2>2, <3>2, <4>2
        <5>2. c.arg \in Change
          BY <2>2, <5>1 DEF SandboxCall
        <5>3. QED BY <3>4, <5>1, <5>2 DEF SandboxCall
      <4>3. QED BY <4>1, <4>2
    <3>6. QED BY <2>5, <3>3, <3>5, CallStep DEF SandboxInv
  <2>10. QED BY <2>4, <2>7, <2>8, <2>9 DEF SandboxInv
<1>2. CASE SandboxHistory(s)
  <2>1. UNCHANGED <<chosenVars, shownReport, shownHistory, sandboxServer, reports>>
    BY <1>2 DEF SandboxHistory, sandboxVars, resultVars, sandboxServer
  <2>2. /\ calls[s] # NoCall /\ calls[s].op = "history"
        /\ Replies(s, TRUE, DOMAIN reports)
    BY <1>2, UnderWay DEF SandboxHistory, Serving
  <2>3. CallsOK'
    BY <2>1, <2>2, ReplyStep DEF SandboxInv
  <2>4. QED BY <2>1, <2>3, PageStep, SameShown DEF SandboxInv
<1>3. CASE ApplyRoutingRule(s)
  <2> DEFINE asked == calls[s].arg
             new == [report |-> asked.report, change |-> asked.change, active |-> TRUE]
  <2>1. /\ calls[s] # NoCall /\ calls[s].op = "apply"
        /\ NamesPassed(asked) /\ asked.change \in Change
    BY <1>3 DEF ApplyRoutingRule, Serving, Under, NoCall, SandboxInv, CallsOK, SandboxCall
  <2>2. UNCHANGED <<chosenVars, resultVars, reports>>
    BY <1>3 DEF ApplyRoutingRule
  <2>3. /\ madeRules' = madeRules \/ madeRules' = Append(madeRules, new)
        /\ Replies(s, TRUE, 0) \/ Replies(s, TRUE, Len(madeRules'))
    BY <1>3 DEF ApplyRoutingRule
  <2>4. CallsOK'
    BY <2>1, <2>2, <2>3, ReplyStep DEF SandboxInv
  <2>5. /\ new \in [report : Nat, change : Change, active : BOOLEAN]
        /\ new.report = asked.report /\ new.change = asked.change
    <3>1. asked.report \in Nat
      BY <2>1 DEF NamesPassed, SandboxInv, ReportsOK
    <3>2. QED BY <2>1, <3>1
  <2>6. NamesPassed(new)
    BY <2>1, <2>5 DEF NamesPassed
  <2> HIDE DEF new
  <2>7. RulesOK'
    <3> DEFINE Made == [report : Nat, change : Change, active : BOOLEAN]
    <3>1. madeRules \in Seq(Made) /\ new \in Made
      BY <2>5 DEF SandboxInv, RulesOK
    <3> HIDE DEF Made
    <3>2. CASE madeRules' = madeRules
      BY <2>2, <3>2 DEF SandboxInv, RulesOK, NamesPassed
    <3>3. CASE madeRules' = Append(madeRules, new)
      <4>1. /\ madeRules' \in Seq(Made)
            /\ \A i \in DOMAIN madeRules' :
                  \/ madeRules'[i] = new
                  \/ i \in DOMAIN madeRules /\ madeRules'[i] = madeRules[i]
        BY <3>1, <3>3, Lengthened
      <4>2. \A i \in DOMAIN madeRules' : NamesPassed(madeRules'[i])
        BY <2>6, <4>1 DEF SandboxInv, RulesOK
      <4>3. QED BY <2>2, <4>1, <4>2 DEF RulesOK, NamesPassed, Made
    <3>4. QED BY <2>3, <3>2, <3>3
  <2>8. ShownOK'
    BY <2>2 DEF SandboxInv, ShownOK, Chosen, chosenVars, resultVars
  <2>9. QED BY <2>2, <2>4, <2>7, <2>8 DEF SandboxInv, ReportsOK
<1>4. CASE RollbackRule(s)
  <2>1. /\ UNCHANGED <<chosenVars, resultVars, reports>> /\ Replies(s, TRUE, 0)
        /\ calls[s] # NoCall /\ calls[s].op = "rollback"
    BY <1>4, UnderWay DEF RollbackRule, Serving
  <2>2. PICK r : madeRules' = [madeRules EXCEPT ![r].active = FALSE]
    BY <1>4 DEF RollbackRule
  <2>3. CallsOK'
    BY <2>1, ReplyStep DEF SandboxInv
  <2>4. RulesOK'
    <3> DEFINE Made == [report : Nat, change : Change, active : BOOLEAN]
    <3>0. madeRules \in Seq(Made)
      BY DEF SandboxInv, RulesOK
    <3> HIDE DEF Made
    <3>1. /\ madeRules \in [1..Len(madeRules) -> Made]
          /\ Len(madeRules) \in Nat /\ DOMAIN madeRules = 1..Len(madeRules)
      BY <3>0
    <3>2. /\ madeRules' \in [1..Len(madeRules) -> Made]
          /\ \A i \in 1..Len(madeRules) : /\ madeRules'[i].report = madeRules[i].report
                                          /\ madeRules'[i].change = madeRules[i].change
      BY <2>2, <3>1 DEF Made
    <3>3. madeRules' \in Seq(Made) /\ DOMAIN madeRules' = DOMAIN madeRules
      BY <3>1, <3>2
    <3>4. QED BY <2>1, <3>1, <3>2, <3>3 DEF SandboxInv, RulesOK, NamesPassed, Made
  <2>5. ShownOK'
    BY <2>1 DEF SandboxInv, ShownOK, Chosen, chosenVars, resultVars
  <2>6. QED BY <2>1, <2>3, <2>4, <2>5 DEF SandboxInv, ReportsOK
<1>5. QED BY <1>1, <1>2, <1>3, <1>4 DEF SandboxServes

\* What an answered call says.
LEMMA AnswerSays ==
    ASSUME SandboxInv, NEW s \in Slot, NEW op, Resolving(s, op)
    PROVE  /\ op = "validate" => calls[s].answer \in DOMAIN reports
           /\ op = "history" => calls[s].answer \subseteq DOMAIN reports
<1>1. /\ SandboxCall(calls[s]) /\ calls[s] # NoCall /\ calls[s].op = op
      /\ calls[s].stage = "answered" /\ calls[s].ok
  BY UnderWay DEF SandboxInv, CallsOK, Resolving
<1>2. QED BY <1>1 DEF SandboxCall

\* A call has ended or gone on, whatever became of it.
LEMMA EndStep ==
    ASSUME SandboxInv, UNCHANGED reports, NEW s \in Slot,
           GoesOn(s, NoCall) \/ \E op \in {"validate", "history", "apply", "rollback"} : Rejects(s, op)
    PROVE  CallsOK'
BY SameCalls, RejectStep DEF SandboxInv

LEMMA SandboxReactsStep ==
    ASSUME SandboxInv, NEW s \in Slot, SandboxReacts(s)
    PROVE  SandboxInv'
<1>0. UNCHANGED <<chosenVars, sandboxServer, reports>>
  BY DEF SandboxReacts, ReportArrives, HistoryArrives, ValidationFails, DeployAnswered,
         DeployFails, RollbackEnds, sandboxServer
<1>1. CallsOK'
  BY <1>0, EndStep DEF SandboxReacts, ReportArrives, HistoryArrives, ValidationFails,
                       DeployAnswered, DeployFails, RollbackEnds
<1>2. ShownOK'
  <2>1. shownReport' = 0 \/ shownReport' \in DOMAIN reports
    BY AnswerSays DEF SandboxInv, ShownOK, SandboxReacts, ReportArrives, HistoryArrives,
                      ValidationFails, DeployAnswered, DeployFails, RollbackEnds
  <2>2. shownHistory' \subseteq DOMAIN reports
    BY AnswerSays DEF SandboxInv, ShownOK, SandboxReacts, ReportArrives, HistoryArrives,
                      ValidationFails, DeployAnswered, DeployFails, RollbackEnds
  <2>3. QED BY <1>0, <2>1, <2>2 DEF SandboxInv, ShownOK, Chosen, chosenVars
<1>3. QED BY <1>0, <1>1, <1>2, PageStep

LEMMA SandboxUserStep ==
    ASSUME SandboxInv, SandboxUser
    PROVE  SandboxInv'
<1>0. UNCHANGED <<sandboxServer, reports>>
  BY DEF SandboxUser, ChooseSource, ChooseTarget, ToggleClass, Chooses, RunValidation, Deploy,
         Deploying, Rollback, PickReport, sandboxServer
<1>1. ASSUME NEW l \in PageLink, ChooseSource(l) \/ ChooseTarget(l)
      PROVE  CallsOK' /\ ShownOK'
  BY <1>0, <1>1, SameCalls
     DEF SandboxInv, ShownOK, ChooseSource, ChooseTarget, Chooses, NoSends, callVars, resultVars,
         Chosen, Change, PageEnd
<1>2. ASSUME NEW c \in PageClass, ToggleClass(c)
      PROVE  CallsOK' /\ ShownOK'
  BY <1>0, <1>2, SameCalls
     DEF SandboxInv, ShownOK, ToggleClass, Chooses, NoSends, callVars, resultVars, Chosen, Change
<1>3. ASSUME NEW s \in UserSlot, RunValidation(s)
      PROVE  CallsOK' /\ ShownOK'
  BY <1>0, <1>3, SendStep
     DEF SandboxInv, ShownOK, RunValidation, Chosen, chosenVars, Slot
<1>4. ASSUME NEW s \in UserSlot, Deploy(s)
      PROVE  CallsOK' /\ ShownOK'
  <2>1. shownReport \in DOMAIN reports /\ reports[shownReport].passed
    BY <1>4 DEF Deploy, CanDeploy, SandboxInv, ShownOK
  <2>2. PICK asked : asked = [report |-> shownReport, change |-> reports[shownReport].change]
    OBVIOUS
  <2>3. reports[shownReport].change \in Change
    <3> DEFINE Made == [change : Change, passed : BOOLEAN]
    <3>1. reports \in Seq(Made)
      BY DEF SandboxInv, ReportsOK
    <3>2. reports[shownReport] \in Made
      <4> HIDE DEF Made
      <4>1. shownReport \in 1..Len(reports)
        BY <2>1, <3>1
      <4>2. QED BY <3>1, <4>1, ElementOfSeq
    <3>3. QED BY <3>2
  <2>4. NamesPassed(asked) /\ asked.change \in Change
    BY <2>1, <2>2, <2>3 DEF NamesPassed
  <2>5. Sends(s, "apply", asked) /\ UNCHANGED <<chosenVars, shownReport, shownHistory>>
    BY <1>4, <2>2 DEF Deploy, Deploying
  <2>6. QED BY <1>0, <2>4, <2>5, SendStep, SameShown DEF SandboxInv, Slot
<1>5. ASSUME NEW s \in UserSlot, NEW r \in DOMAIN madeRules, Rollback(s, r)
      PROVE  CallsOK' /\ ShownOK'
  BY <1>0, <1>5, SendStep, SameShown DEF SandboxInv, Rollback, Slot
<1>6. ASSUME NEW r \in shownHistory, PickReport(r)
      PROVE  CallsOK' /\ ShownOK'
  BY <1>0, <1>6, SameCalls
     DEF SandboxInv, ShownOK, PickReport, NoSends, callVars, Chosen, chosenVars
<1>7. CallsOK' /\ ShownOK'
  BY <1>1, <1>2, <1>3, <1>4, <1>5, <1>6 DEF SandboxUser
<1>8. QED BY <1>0, <1>7, PageStep

LEMMA SandboxTimerStep ==
    ASSUME SandboxInv, NEW s \in PollSlot, SandboxTimer(s)
    PROVE  SandboxInv'
<1>0. UNCHANGED <<chosenVars, shownReport, shownHistory, sandboxServer, reports>>
  BY DEF SandboxTimer, SandboxMounts, RefreshHistory, sandboxVars, resultVars, sandboxServer
<1>1. PICK by : calls' = [calls EXCEPT ![s] = Request("history", By(by))]
  BY DEF SandboxTimer, SandboxMounts, RefreshHistory, Mounts, Sends
<1>2. SandboxCall(Request("history", By(by)))
  BY DEF SandboxCall, Request
<1>3. CallsOK'
  BY <1>0, <1>1, <1>2, SlotStep DEF SandboxInv, Slot
<1>4. QED BY <1>0, <1>3, PageStep, SameShown DEF SandboxInv

LEMMA SandboxStart ==
    ASSUME CallsInit, SandboxInit
    PROVE  SandboxInv
<1>1. CallsOK
  BY DEF CallsInit, CallsOK, SandboxCall
<1>2. ReportsOK /\ DOMAIN reports = {} /\ madeRules = <<>>
  BY DEF SandboxInit, ReportsOK
<1>3. RulesOK
  BY <1>2 DEF RulesOK
<1>4. ShownOK
  BY DEF SandboxInit, ShownOK, Chosen, Change, PageEnd
<1>5. QED BY <1>1, <1>2, <1>3, <1>4 DEF SandboxInv

-----------------------------------------------------------------------------
(* The pages together. *)

PagesInv ==
    /\ page = "login" => TabInv
    /\ page = "sandbox" => SandboxInv
    /\ page # "sandbox" => madeRules = <<>>

\* The page that is used keeps what is said of it, and the others are as they were.
LEMMA PagesStep ==
    ASSUME PagesInv, [Next]_pageVars
    PROVE  PagesInv'
<1>1. CASE UNCHANGED pageVars
  <2>1. UNCHANGED <<page, loginVars, callVars, sandboxVars>>
    BY <1>1 DEF pageVars
  <2>2. SandboxInv => SandboxInv'
    BY <2>1 DEF callVars, sandboxVars, chosenVars, resultVars, sandboxServer, SandboxInv, CallsOK,
                SandboxCall, NamesPassed, ReportsOK, RulesOK, ShownOK, Chosen
  <2>3. TabInv => TabInv'
    BY <2>1, TabCallsStay DEF TabInv, SessionInv, loginVars, callVars
  <2>4. QED BY <2>1, <2>2, <2>3 DEF PagesInv, sandboxVars, sandboxServer
<1>2. CASE Next
  <2>1. UNCHANGED page
    BY <1>2 DEF Next, Serve, React, Timer, User, Socket, On
  <2>2. (page = "login" => TabInv)'
    <3>1. CASE page = "login"
      <4>1. (\E s \in Slot : LoginServes(s) \/ LoginReacts(s)) \/ LoginUser
        BY <1>2, <3>1 DEF Next, Serve, React, Timer, User, Socket, On
      <4>2. QED BY <3>1, <4>1, LoginServesStep, LoginReactsStep, LoginUserStep DEF PagesInv
    <3>2. CASE page # "login"
      BY <2>1, <3>2
    <3>3. QED BY <3>1, <3>2
  <2>3. CASE page = "sandbox"
    <3>1. \/ \E s \in Slot : SandboxServes(s) \/ SandboxReacts(s)
          \/ SandboxUser
          \/ \E s \in PollSlot : SandboxTimer(s)
      BY <1>2, <2>3 DEF Next, Serve, React, Timer, User, Socket, On
    <3>2. SandboxInv'
      BY <2>3, <3>1, SandboxServesStep, SandboxReactsStep, SandboxUserStep, SandboxTimerStep
         DEF PagesInv
    <3>3. QED BY <2>1, <2>2, <2>3, <3>2 DEF PagesInv
  <2>4. CASE page # "sandbox"
    <3>1. UNCHANGED sandboxVars
      BY <1>2, <2>4 DEF Next, Serve, React, Timer, User, Socket, On
    <3>2. QED BY <2>1, <2>2, <2>4, <3>1 DEF PagesInv, sandboxVars, sandboxServer
  <2>5. QED BY <2>3, <2>4
<1>3. QED BY <1>1, <1>2

LEMMA PagesInvariant == Spec => []PagesInv
<1>1. Init => PagesInv
  BY SandboxStart DEF Init, PagesInv, TabInv, SessionInv, TabCallsOK, TabCall, CallsInit,
                      LoginInit, SandboxInit
<1>2. PagesInv /\ [Next]_pageVars => PagesInv'
  BY PagesStep
<1>3. QED BY <1>1, <1>2, PTL DEF Spec

\* In every behaviour of the pages a rule made from the sandbox page is the
\* change of the report that it names, and that report has passed.
THEOREM DeployedReports == Spec => []DeployedIsPassed
<1>1. PagesInv => DeployedIsPassed
  <2>1. CASE page = "sandbox"
    BY <2>1 DEF PagesInv, SandboxInv, RulesOK, NamesPassed, DeployedIsPassed
  <2>2. CASE page # "sandbox"
    BY <2>2 DEF PagesInv, DeployedIsPassed
  <2>3. QED BY <2>1, <2>2
<1>2. QED BY <1>1, PagesInvariant, PTL

\* However sign-ins, log-outs, the loading of pages and calls interleave, a call
\* of a portal's own page carries the token of the account the page was drawn
\* for when it was made.
THEOREM PortalTokens == Spec => []TokenIsThePages
<1>1. ASSUME PagesInv, page = "login", ~otherTab, NEW s \in Slot,
             calls[s] # NoCall, calls[s].op = "portal"
      PROVE  OwnToken(calls[s].arg)
  <2>1. TabCall(calls[s])
    BY <1>1 DEF PagesInv, TabInv, TabCallsOK
  <2>2. QED BY <1>1, <2>1 DEF TabCall
<1>2. PagesInv => TokenIsThePages
  BY <1>1 DEF TokenIsThePages, OwnToken
<1>3. QED BY <1>2, PagesInvariant, PTL

=============================================================================
