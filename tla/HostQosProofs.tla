--------------------------- MODULE HostQosProofs ---------------------------
(***************************************************************************)
(* The two quality-of-service features leave on the host what they should, *)
(* for any threads, rules, apps, users and settings, and any number of     *)
(* commands that fail and of restarts.                                     *)
(*                                                                         *)
(* The invariant has a part for each feature.  A thread of one leaves the  *)
(* tasks of the other as they are (the lemmas DegraderTypes and            *)
(* PriorityTypes), so each part is followed through the steps of its own   *)
(* feature, and through one lemma for all the steps of the other.          *)
(***************************************************************************)
EXTENDS HostQos, Sums, FiniteSetTheorems, TLAPS

ApplySteps == {"apply", "register"}
RemoveSteps == {"remove firewall", "remove policies", "mark"}
EnforceSteps == {"clear", "create", "record"}

Allocation == {Shares(map, total) : map \in PriorityMap, total \in Nat \ {0}}

Task ==
    {Idle}
    \cup [step : {"apply"}, rule : RuleId, part : 1..Parts]
    \cup [step : {"register"}, rule : RuleId]
    \cup [step : RemoveSteps, rule : RuleId, todo : SUBSET RuleId]
    \cup [step : {"next"}, todo : SUBSET RuleId]
    \cup [step : EnforceSteps, shares : Allocation, total : Nat \ {0},
           todo : SUBSET Slots(App), exact : BOOLEAN]

HostTypeOK ==
    /\ task \in [Thread -> Task]
    /\ firewall \subseteq Artifact /\ throttles \subseteq Artifact
    /\ rule \in [RuleId -> {"unused", "applying", "active", "stopped"}]
    /\ mode \in [RuleId -> {"block", "throttle"}]
    /\ priorities \in [User -> PriorityMap]

-----------------------------------------------------------------------------
\* The degrader.

Applies(t) == task[t].step \in ApplySteps
Removes(t) == task[t].step \in RemoveSteps

\* One thread applies a rule that is not in force yet; a rule that is removed
\* has been.
RuleIsInHand ==
    \A t \in Thread :
        /\ Applies(t) => rule[task[t].rule] = "applying"
        /\ Removes(t) => rule[task[t].rule] \in {"active", "stopped"}
        /\ \A u \in Thread :
              Applies(t) /\ Applies(u) /\ task[t].rule = task[u].rule => t = u

\* What is left of a rule behind a command that removes, is known to be left.
RemovedSoFar ==
    \A t \in Thread, a \in firewall \cup throttles :
        Removes(t) /\ a.rule = task[t].rule =>
            /\ task[t].step # "remove firewall" /\ a \in firewall => a \in leaked
            /\ task[t].step = "mark" => a \in leaked

\* The parts of a block that have been applied are there.
AppliedSoFar ==
    \A t \in Thread, p \in 1..Parts :
        LET r == task[t].rule
        IN  /\ Applies(t) /\ r \notin partial /\ mode[r] = "block"
            /\ task[t].step = "apply" => p < task[t].part
            => [rule |-> r, part |-> p] \in firewall

DegraderInv ==
    HostTypeOK /\ RuleIsInHand /\ RemovedSoFar /\ AppliedSoFar
    /\ NoStrayArtifacts /\ ActiveBlocksHold

-----------------------------------------------------------------------------
\* The priorities.

Policies(shares, slots) == {PolicyOf(slot, shares) : slot \in slots}

AllSlots(shares) == Slots(DOMAIN shares)

\* An exact enforcement is the only one, and has done what is not left to do.
ExactIsAlone ==
    \A t \in Thread :
        Enforcing(t) /\ task[t].exact =>
            /\ \A u \in Thread \ {t} : ~Enforcing(u)
            /\ task[t].step = "clear" => task[t].todo = AllSlots(task[t].shares)
            /\ task[t].step = "record" => task[t].todo = {}
            /\ task[t].todo \subseteq AllSlots(task[t].shares)
            /\ task[t].step # "clear" =>
                  appPolicies = Policies(task[t].shares, AllSlots(task[t].shares) \ task[t].todo)

\* It enforces what some user has set, or nothing.
SharesOf(shares) ==
    \/ DOMAIN shares = {}
    \/ \E u \in User : priorities[u] = [a \in DOMAIN shares |-> shares[a].class]

ExactIsSomeones ==
    \A t \in Thread : Enforcing(t) /\ task[t].exact => SharesOf(task[t].shares)

\* Nobody has begun another since.
SettledIsLast == settled # 0 => \A t \in Thread : ~Enforcing(t)

EnforcerInv ==
    HostTypeOK /\ ExactIsAlone /\ ExactIsSomeones /\ SettledIsLast
    /\ SettledIsEnforced /\ SettledIsSomeonesSetting

QosInv == DegraderInv /\ EnforcerInv

-----------------------------------------------------------------------------
\* Types.

LEMMA SharesType ==
    ASSUME NEW map \in PriorityMap, NEW total \in Nat \ {0}
    PROVE  /\ Shares(map, total) \in Allocation
           /\ DOMAIN Shares(map, total) = DOMAIN map /\ DOMAIN map \subseteq App
           /\ map = [a \in DOMAIN Shares(map, total) |-> Shares(map, total)[a].class]
           /\ Slots(DOMAIN map) \in SUBSET Slots(App)
<1>1. Shares(map, total) \in Allocation
  BY DEF Allocation
<1>2. PICK S \in SUBSET App : map \in [S -> DOMAIN Permille]
  BY DEF PriorityMap
<1>3. DOMAIN map = S
  BY <1>2
<1>4. /\ DOMAIN Shares(map, total) = DOMAIN map
      /\ \A a \in DOMAIN map : Shares(map, total)[a].class = map[a]
  BY DEF Shares
<1>5. map = [a \in DOMAIN map |-> map[a]]
  BY <1>2
<1>6. Slots(DOMAIN map) \in SUBSET Slots(App)
  BY <1>3 DEF Slots
<1>7. QED BY <1>1, <1>3, <1>4, <1>5, <1>6

LEMMA TotalType == ASSUME NEW total \in Nat PROVE TotalOr(total) \in Nat \ {0}
BY LinkAssumption DEF TotalOr

LEMMA NothingType == Nothing \in PriorityMap /\ DOMAIN Nothing = {}
<1>1. Nothing \in [{} -> DOMAIN Permille] /\ {} \in SUBSET App
  BY DEF Nothing
<1>2. QED BY <1>1 DEF PriorityMap, Nothing

LEMMA LessType ==
    ASSUME NEW map \in PriorityMap, NEW a
    PROVE  [x \in DOMAIN map \ {a} |-> map[x]] \in PriorityMap
<1>1. PICK S \in SUBSET App : map \in [S -> DOMAIN Permille]
  BY DEF PriorityMap
<1>2. [x \in DOMAIN map \ {a} |-> map[x]] \in [S \ {a} -> DOMAIN Permille]
  BY <1>1
<1>3. QED BY <1>2 DEF PriorityMap

\* What a task has at each step.
LEMMA TaskShape ==
    ASSUME NEW k \in Task
    PROVE  /\ k.step = "apply" => k \in [step : {"apply"}, rule : RuleId, part : 1..Parts]
           /\ k.step = "register" => k \in [step : {"register"}, rule : RuleId]
           /\ k.step \in RemoveSteps =>
                 k \in [step : RemoveSteps, rule : RuleId, todo : SUBSET RuleId]
           /\ k.step = "next" => k \in [step : {"next"}, todo : SUBSET RuleId]
           /\ k.step \in EnforceSteps =>
                 k \in [step : EnforceSteps, shares : Allocation, total : Nat \ {0},
                        todo : SUBSET Slots(App), exact : BOOLEAN]
<1> DEFINE Ap == [step : {"apply"}, rule : RuleId, part : 1..Parts]
           Re == [step : {"register"}, rule : RuleId]
           Rm == [step : RemoveSteps, rule : RuleId, todo : SUBSET RuleId]
           Nx == [step : {"next"}, todo : SUBSET RuleId]
           En == [step : EnforceSteps, shares : Allocation, total : Nat \ {0},
                  todo : SUBSET Slots(App), exact : BOOLEAN]
<1>1. k = Idle \/ k \in Ap \/ k \in Re \/ k \in Rm \/ k \in Nx \/ k \in En
  BY DEF Task
<1>2. k = Idle => k.step = "idle"
  BY DEF Idle
<1>3. /\ k \in Ap => k.step = "apply"
      /\ k \in Re => k.step = "register"
      /\ k \in Nx => k.step = "next"
  OBVIOUS
<1>4. k \in Rm => k.step \in RemoveSteps
  OBVIOUS
<1>5. k \in En => k.step \in EnforceSteps
  OBVIOUS
<1> HIDE DEF Ap, Re, Rm, Nx, En
<1>6. /\ k.step = "apply" => k \in Ap
      /\ k.step = "register" => k \in Re
      /\ k.step \in RemoveSteps => k \in Rm
      /\ k.step = "next" => k \in Nx
      /\ k.step \in EnforceSteps => k \in En
  BY <1>1, <1>2, <1>3, <1>4, <1>5 DEF RemoveSteps, EnforceSteps
<1>7. QED BY <1>6 DEF Ap, Re, Rm, Nx, En

LEMMA IdleTask == Idle \in Task /\ Idle.step = "idle"
BY DEF Task, Idle

LEMMA StoppingTask ==
    ASSUME NEW todo \in SUBSET RuleId
    PROVE  Stopping(todo) \in Task /\ Stopping(todo).step \in {"idle", "next"}
BY DEF Stopping, Task, Idle

LEMMA RemovalTask ==
    ASSUME NEW r \in RuleId, NEW todo \in SUBSET RuleId
    PROVE  /\ Removal(r, todo) \in Task
           /\ Removal(r, todo).step = "remove firewall" /\ Removal(r, todo).rule = r
BY DEF Removal, Task, RemoveSteps

\* Stores of artifacts.
LEMMA StoreType ==
    ASSUME NEW store, NEW more, NEW works \in BOOLEAN
    PROVE  /\ Adds(store, more, works) \subseteq store \cup more
           /\ store \subseteq Adds(store, more, works)
           /\ more \subseteq store => Keeps(store, more, works) \subseteq store
BY DEF Adds, Keeps

-----------------------------------------------------------------------------
\* A thread of one feature leaves the other's tasks alone.

DegradeSteps == ApplySteps \cup RemoveSteps \cup {"next"}

LEMMA StepNames ==
    /\ DegradeSteps \cap EnforceSteps = {}
    /\ "idle" \notin DegradeSteps \cup EnforceSteps
    /\ ApplySteps \cap RemoveSteps = {}
BY DEF DegradeSteps, ApplySteps, RemoveSteps, EnforceSteps

LEMMA GotoTask ==
    ASSUME task \in [Thread -> Task], NEW t \in Thread, NEW next \in Task, Goto(t, next)
    PROVE  /\ task' \in [Thread -> Task]
           /\ task'[t] = next
           /\ \A x \in Thread \ {t} : task'[x] = task[x]
BY DEF Goto

LEMMA RulesTyped ==
    ASSUME HostTypeOK, NEW t \in Thread
    PROVE  /\ task[t] \in Task
           /\ task[t].step \in ApplySteps \cup RemoveSteps => task[t].rule \in RuleId
           /\ task[t].step = "apply" => task[t].part \in 1..Parts
           /\ task[t].step \in RemoveSteps \cup {"next"} => task[t].todo \in SUBSET RuleId
<1>1. task[t] \in Task
  BY DEF HostTypeOK
<1>2. QED BY <1>1, TaskShape DEF ApplySteps

\* The steps of the degrader.
LEMMA DegraderTypes ==
    ASSUME HostTypeOK, NEW t \in Thread, DegraderStep(t), UNCHANGED priorityVars
    PROVE  /\ HostTypeOK'
           /\ task[t].step \in DegradeSteps \cup {"idle"}
           /\ task'[t].step \in DegradeSteps \cup {"idle"}
           /\ \A x \in Thread \ {t} : task'[x] = task[x]
           /\ UNCHANGED appPolicies
<1> DEFINE Rules == rule' \in [RuleId -> {"unused", "applying", "active", "stopped"}]
           Stores == /\ firewall' \subseteq Artifact /\ throttles' \subseteq Artifact
                     /\ mode' \in [RuleId -> {"block", "throttle"}]
                     /\ UNCHANGED appPolicies
           Moves == \E next \in Task :
                       /\ Goto(t, next) /\ next.step \in DegradeSteps \cup {"idle"}
                       /\ task[t].step \in DegradeSteps \cup {"idle"}
<1> USE DEF DegradeSteps, ApplySteps, RemoveSteps
<1>a. /\ task[t] \in Task
      /\ task[t].step \in ApplySteps \cup RemoveSteps => task[t].rule \in RuleId
      /\ task[t].step \in RemoveSteps \cup {"next"} => task[t].todo \in SUBSET RuleId
  BY RulesTyped
<1>0. /\ task \in [Thread -> Task] /\ mode \in [RuleId -> {"block", "throttle"}]
      /\ firewall \subseteq Artifact /\ throttles \subseteq Artifact
      /\ rule \in [RuleId -> {"unused", "applying", "active", "stopped"}]
  BY DEF HostTypeOK
<1>1. ASSUME NEW r \in RuleId, NEW m \in {"block", "throttle"}, StartRule(t, r, m)
      PROVE  Rules /\ Stores /\ Moves
  <2>1. Rules /\ Stores
    BY <1>0, <1>1 DEF StartRule, hostVars
  <2>2. [step |-> "apply", rule |-> r, part |-> 1] \in Task
    <3>1. 1 \in 1..Parts
      BY PartsAssumption
    <3>2. QED BY <3>1 DEF Task
  <2>3. QED BY <1>1, <2>1, <2>2, IdleTask DEF StartRule
<1>2. ASSUME NEW works \in BOOLEAN, ApplyPart(t, works)
      PROVE  Rules /\ Stores /\ Moves
  <2>1. task[t] \in [step : {"apply"}, rule : RuleId, part : 1..Parts]
    BY <1>a, <1>2, TaskShape DEF ApplyPart
  <2>2. Rules /\ Stores
    <3>1. [rule |-> task[t].rule, part |-> task[t].part] \in Artifact
      BY <2>1 DEF Artifact
    <3>2. QED BY <1>0, <1>2, <3>1 DEF ApplyPart, Adds
  <2>3. CASE task[t].part < Parts
    <3>1. [task[t] EXCEPT !.part = task[t].part + 1]
             \in [step : {"apply"}, rule : RuleId, part : 1..Parts]
      <4>1. task[t].part + 1 \in 1..Parts
        BY <2>1, <2>3, PartsAssumption
      <4>2. QED BY <2>1, <4>1
    <3>2. QED BY <1>2, <2>1, <2>2, <2>3, <3>1 DEF ApplyPart, Task
  <2>4. CASE ~(task[t].part < Parts)
    <3>1. [step |-> "register", rule |-> task[t].rule] \in Task
      BY <2>1 DEF Task
    <3>2. QED BY <1>2, <2>1, <2>2, <2>4, <3>1 DEF ApplyPart
  <2>5. QED BY <2>3, <2>4
<1>3. ASSUME RegisterRule(t)
      PROVE  Rules /\ Stores /\ Moves
  <2>1. Rules /\ Stores
    BY <1>a, <1>0, <1>3 DEF RegisterRule, hostVars
  <2>2. Moves
    BY <1>3, IdleTask DEF RegisterRule
  <2>3. QED BY <2>1, <2>2
<1>4. ASSUME NEW r \in RuleId, StopRule(t, r)
      PROVE  Rules /\ Stores /\ Moves
  BY <1>0, <1>4, IdleTask, RemovalTask DEF StopRule, hostVars, degraderVars
<1>5. ASSUME NEW r \in RuleId, StopNext(t, r)
      PROVE  Rules /\ Stores /\ Moves
  <2>1. task[t].todo \ {r} \in SUBSET RuleId /\ task[t].step = "next"
    BY <1>a, <1>5 DEF StopNext
  <2>2. Rules /\ Stores
    BY <1>0, <1>5 DEF StopNext, hostVars, degraderVars
  <2>3. CASE rule[r] = "active"
    <3>1. Removal(r, task[t].todo \ {r}) \in Task
          /\ Removal(r, task[t].todo \ {r}).step = "remove firewall"
      BY <2>1, RemovalTask
    <3>2. QED BY <1>5, <2>1, <2>2, <2>3, <3>1 DEF StopNext
  <2>4. CASE rule[r] # "active"
    <3>1. Stopping(task[t].todo \ {r}) \in Task
          /\ Stopping(task[t].todo \ {r}).step \in {"idle", "next"}
      BY <2>1, StoppingTask
    <3>2. QED BY <1>5, <2>1, <2>2, <2>4, <3>1 DEF StopNext
  <2>5. QED BY <2>3, <2>4
<1>6. ASSUME StopAll(t)
      PROVE  Rules /\ Stores /\ Moves
  <2>1. Active \in SUBSET RuleId
    BY DEF Active
  <2>2. Rules /\ Stores
    BY <1>0, <1>6 DEF StopAll, hostVars, degraderVars
  <2>3. Moves
    BY <1>6, <2>1, IdleTask, StoppingTask DEF StopAll
  <2>4. QED BY <2>2, <2>3
<1>7. ASSUME NEW works \in BOOLEAN, RemoveFirewall(t, works)
      PROVE  Rules /\ Stores /\ Moves
  <2>1. task[t] \in [step : RemoveSteps, rule : RuleId, todo : SUBSET RuleId]
    BY <1>a, <1>7, TaskShape DEF RemoveFirewall
  <2>2. [task[t] EXCEPT !.step = "remove policies"] \in Task
    BY <2>1 DEF Task
  <2>3. Rules /\ Stores
    BY <1>0, <1>7 DEF RemoveFirewall, Keeps
  <2>4. QED BY <1>7, <2>1, <2>2, <2>3 DEF RemoveFirewall
<1>8. ASSUME NEW works \in BOOLEAN, RemovePolicies(t, works)
      PROVE  Rules /\ Stores /\ Moves
  <2>1. task[t] \in [step : RemoveSteps, rule : RuleId, todo : SUBSET RuleId]
    BY <1>a, <1>8, TaskShape DEF RemovePolicies
  <2>2. [step |-> "mark", rule |-> task[t].rule, todo |-> task[t].todo] \in Task
    BY <2>1 DEF Task
  <2>3. Rules /\ Stores
    BY <1>0, <1>8 DEF RemovePolicies, Keeps
  <2>4. QED BY <1>8, <2>2, <2>3 DEF RemovePolicies
<1>9. ASSUME MarkStopped(t)
      PROVE  Rules /\ Stores /\ Moves
  <2>1. Rules /\ Stores
    BY <1>a, <1>0, <1>9 DEF MarkStopped, hostVars
  <2>2. Moves
    BY <1>a, <1>9, StoppingTask DEF MarkStopped
  <2>3. QED BY <2>1, <2>2
<1> HIDE DEF Rules, Stores, Moves
<1>10. Rules /\ Stores /\ Moves
  BY <1>1, <1>2, <1>3, <1>4, <1>5, <1>6, <1>7, <1>8, <1>9 DEF DegraderStep
<1> USE DEF Rules, Stores, Moves
<1>11. /\ task' \in [Thread -> Task]
       /\ task[t].step \in DegradeSteps \cup {"idle"}
       /\ task'[t].step \in DegradeSteps \cup {"idle"}
       /\ \A x \in Thread \ {t} : task'[x] = task[x]
  BY <1>0, <1>10, GotoTask
<1>12. priorities' \in [User -> PriorityMap]
  BY DEF HostTypeOK, priorityVars
<1>13. QED BY <1>10, <1>11, <1>12 DEF HostTypeOK

\* An enforcement begins: the others are not exact any more.
LEMMA EnforceTask ==
    ASSUME HostTypeOK, NEW t \in Thread, NEW map \in PriorityMap,
           NEW total \in Nat \ {0}, Enforce(t, map, total)
    PROVE  /\ task' \in [Thread -> Task]
           /\ task[t].step = "idle"
           /\ task'[t].step = "clear"
           /\ task'[t].shares = Shares(map, total) /\ task'[t].todo = Slots(DOMAIN map)
           /\ task'[t].total = total
           /\ task'[t].exact <=> \A y \in Thread : ~Enforcing(y)
           /\ \A x \in Thread \ {t} :
                 IF Enforcing(x)
                 THEN /\ task'[x].step = task[x].step /\ task'[x].exact = FALSE
                      /\ task'[x].shares = task[x].shares /\ task'[x].total = task[x].total
                 ELSE task'[x] = task[x]
<1> DEFINE begun == [step |-> "clear", shares |-> Shares(map, total),
                     total |-> total, todo |-> Slots(DOMAIN map),
                     exact |-> \A y \in Thread : ~Enforcing(y)]
           inexact(x) == [task[x] EXCEPT !.exact = FALSE]
           En == [step : EnforceSteps, shares : Allocation, total : Nat \ {0},
                  todo : SUBSET Slots(App), exact : BOOLEAN]
<1>1. begun \in Task
  <2>1. Shares(map, total) \in Allocation /\ Slots(DOMAIN map) \in SUBSET Slots(App)
    BY SharesType
  <2>2. (\A y \in Thread : ~Enforcing(y)) \in BOOLEAN
    OBVIOUS
  <2>3. begun \in En
    BY <2>1, <2>2 DEF EnforceSteps
  <2>4. QED BY <2>3 DEF Task
<1>2. ASSUME NEW x \in Thread, Enforcing(x)
      PROVE  /\ inexact(x) \in Task
             /\ inexact(x).step = task[x].step /\ inexact(x).exact = FALSE
             /\ inexact(x).shares = task[x].shares /\ inexact(x).total = task[x].total
  <2>1. task[x] \in En
    BY <1>2, RulesTyped, TaskShape DEF Enforcing, EnforceSteps
  <2>2. QED BY <2>1 DEF Task
<1>3. task' = [x \in Thread |-> IF x = t THEN begun
                                ELSE IF Enforcing(x) THEN inexact(x) ELSE task[x]]
  BY DEF Enforce
<1>4. task[t] = Idle /\ task \in [Thread -> Task]
  BY DEF Enforce, HostTypeOK
<1>5. /\ begun.step = "clear" /\ begun.shares = Shares(map, total)
      /\ begun.todo = Slots(DOMAIN map) /\ begun.total = total
      /\ begun.exact <=> \A y \in Thread : ~Enforcing(y)
  OBVIOUS
<1> HIDE DEF begun, inexact, En
<1>6. task' \in [Thread -> Task]
  BY <1>1, <1>2, <1>3, <1>4
<1>7. \A x \in Thread \ {t} :
         task'[x] = IF Enforcing(x) THEN inexact(x) ELSE task[x]
  BY <1>3
<1>8. task'[t] = begun
  BY <1>3
<1>9. \A x \in Thread \ {t} :
         IF Enforcing(x)
         THEN /\ task'[x].step = task[x].step /\ task'[x].exact = FALSE
              /\ task'[x].shares = task[x].shares /\ task'[x].total = task[x].total
         ELSE task'[x] = task[x]
  BY <1>2, <1>7
<1>10. task[t].step = "idle"
  BY <1>4, IdleTask
<1>11. QED BY <1>5, <1>6, <1>8, <1>9, <1>10

LEMMA CreatingTask ==
    ASSUME HostTypeOK, NEW t \in Thread, task[t].step \in EnforceSteps,
           NEW todo \in SUBSET Slots(App), NEW exact \in BOOLEAN, Creating(t, todo, exact)
    PROVE  /\ task' \in [Thread -> Task]
           /\ task'[t].step = IF todo = {} THEN "record" ELSE "create"
           /\ task'[t].todo = todo /\ task'[t].exact = exact
           /\ task'[t].shares = task[t].shares /\ task'[t].total = task[t].total
           /\ \A x \in Thread \ {t} : task'[x] = task[x]
<1> DEFINE next == [task[t] EXCEPT !.step = IF todo = {} THEN "record" ELSE "create",
                                   !.todo = todo, !.exact = exact]
           En == [step : EnforceSteps, shares : Allocation, total : Nat \ {0},
                  todo : SUBSET Slots(App), exact : BOOLEAN]
<1>1. task[t] \in En
  BY RulesTyped, TaskShape
<1>2. next \in En
  BY <1>1 DEF EnforceSteps
<1>3. /\ next.step = IF todo = {} THEN "record" ELSE "create"
      /\ next.todo = todo /\ next.exact = exact /\ next.shares = task[t].shares
      /\ next.total = task[t].total
  BY <1>1
<1>4. En \subseteq Task
  BY DEF Task
<1>5. Goto(t, next)
  BY DEF Creating
<1> HIDE DEF next, En
<1>6. QED BY <1>2, <1>3, <1>4, <1>5, GotoTask DEF HostTypeOK

\* The steps of the priorities.
LEMMA PriorityTypes ==
    ASSUME HostTypeOK, NEW t \in Thread, PriorityStep(t), UNCHANGED degraderVars
    PROVE  /\ HostTypeOK'
           /\ \A x \in Thread :
                 \/ task'[x] = task[x]
                 \/ task[x].step \notin DegradeSteps /\ task'[x].step \notin DegradeSteps
           /\ UNCHANGED firewall /\ throttles' \subseteq throttles
<1> DEFINE Moves == /\ task' \in [Thread -> Task]
                    /\ \A x \in Thread :
                          \/ task'[x] = task[x]
                          \/ /\ task[x].step \in EnforceSteps \cup {"idle"}
                             /\ task'[x].step \in EnforceSteps \cup {"idle"}
           Stores == UNCHANGED firewall /\ throttles' \subseteq throttles
           Users == priorities' \in [User -> PriorityMap]
<1>0. priorities \in [User -> PriorityMap] /\ task \in [Thread -> Task]
  BY DEF HostTypeOK
<1>1. ASSUME NEW map \in PriorityMap, NEW total \in Nat \ {0}, Enforce(t, map, total)
      PROVE  Moves /\ Stores
  <2>1. /\ task' \in [Thread -> Task]
        /\ task[t].step = "idle" /\ task'[t].step = "clear"
        /\ \A x \in Thread \ {t} :
              IF Enforcing(x) THEN task'[x].step = task[x].step ELSE task'[x] = task[x]
    BY <1>1, EnforceTask
  <2>2. Moves
    BY <2>1 DEF Enforcing, EnforceSteps
  <2>3. Stores
    BY <1>1 DEF Enforce, hostVars
  <2>4. QED BY <2>2, <2>3
<1>2. ASSUME NEW todo \in SUBSET Slots(App), NEW exact \in BOOLEAN,
             task[t].step \in EnforceSteps, Creating(t, todo, exact)
      PROVE  Moves
  BY <1>2, CreatingTask DEF EnforceSteps
<1> HIDE DEF Moves
<1>3. ASSUME NEW u \in User, NEW s \in Setting, SetPriorities(t, u, s[1], s[2])
      PROVE  Moves /\ Stores /\ Users
  <2>1. s[1] \in PriorityMap /\ TotalOr(s[2]) \in Nat \ {0}
    BY SettingAssumption, TotalType
  <2>2. QED BY <1>0, <1>1, <1>3, <2>1 DEF SetPriorities
<1>4. ASSUME NEW u \in User, NEW a \in App, RemoveAppPriority(t, u, a)
      PROVE  Moves /\ Stores /\ Users
  <2> DEFINE left == [x \in DOMAIN priorities[u] \ {a} |-> priorities[u][x]]
  <2>1. left \in PriorityMap
    <3>1. priorities[u] \in PriorityMap
      BY <1>0
    <3>2. QED BY <3>1, LessType
  <2>2. priorities' = [priorities EXCEPT ![u] = left] /\ Enforce(t, left, Link)
    BY <1>4 DEF RemoveAppPriority
  <2> HIDE DEF left
  <2>3. QED BY <1>0, <1>1, <2>1, <2>2, LinkAssumption
<1>5. ASSUME NEW u \in User, ResetAll(t, u)
      PROVE  Moves /\ Stores /\ Users
  BY <1>0, <1>1, <1>5, NothingType, LinkAssumption DEF ResetAll
<1>6. ASSUME task[t].step \in EnforceSteps
      PROVE  /\ task[t].todo \in SUBSET Slots(App) /\ task[t].exact \in BOOLEAN
             /\ \A works \in BOOLEAN : (task[t].exact /\ works) \in BOOLEAN
  BY <1>6, RulesTyped, TaskShape
<1>7. ASSUME NEW works \in BOOLEAN, ClearPolicies(t, works)
      PROVE  Moves /\ Stores /\ Users
  <2>1. task[t].step \in EnforceSteps
    BY <1>7 DEF ClearPolicies, EnforceSteps
  <2>2. Moves
    BY <1>2, <1>6, <1>7, <2>1 DEF ClearPolicies
  <2>3. QED BY <1>0, <1>7, <2>2 DEF ClearPolicies, Keeps, priorityVars
<1>8. ASSUME NEW slot \in Slots(App), NEW works \in BOOLEAN, CreatePolicy(t, slot, works)
      PROVE  Moves /\ Stores /\ Users
  <2>1. task[t].step \in EnforceSteps
    BY <1>8 DEF CreatePolicy, EnforceSteps
  <2>2. task[t].todo \ {slot} \in SUBSET Slots(App) /\ (task[t].exact /\ works) \in BOOLEAN
    BY <1>6, <2>1
  <2>3. Creating(t, task[t].todo \ {slot}, task[t].exact /\ works)
    BY <1>8 DEF CreatePolicy
  <2>4. Moves
    BY <1>2, <2>1, <2>2, <2>3
  <2>5. QED BY <1>0, <1>8, <2>4 DEF CreatePolicy, priorityVars
<1>9. ASSUME RecordAllocations(t)
      PROVE  Moves /\ Stores /\ Users
  <2>1. Goto(t, Idle) /\ task[t].step = "record"
    BY <1>9 DEF RecordAllocations
  <2>2. Moves
    BY <1>0, <2>1, GotoTask, IdleTask DEF Moves, EnforceSteps
  <2>3. QED BY <1>0, <1>9, <2>2 DEF RecordAllocations, hostVars
<1> HIDE DEF Stores, Users
<1>10. Moves /\ Stores /\ Users
  BY <1>3, <1>4, <1>5, <1>7, <1>8, <1>9 DEF PriorityStep
<1> USE DEF Moves, Stores, Users
<1>11. QED BY <1>10, StepNames DEF HostTypeOK, degraderVars

\* The process starts again.
LEMMA RestartTypes ==
    ASSUME HostTypeOK, Restart
    PROVE  HostTypeOK' /\ \A t \in Thread : task'[t].step = "idle"
<1>1. task' \in [Thread -> Task] /\ \A t \in Thread : task'[t].step = "idle"
  BY IdleTask DEF Restart
<1>2. rule' \in [RuleId -> {"unused", "applying", "active", "stopped"}]
  BY DEF Restart, DegraderRestart, HostTypeOK
<1>3. priorities' \in [User -> PriorityMap]
  BY NothingType DEF Restart, PriorityRestart
<1>4. QED BY <1>1, <1>2, <1>3 DEF HostTypeOK, Restart, DegraderRestart

-----------------------------------------------------------------------------
\* The degrader keeps its part.

\* What a thread that applies or removes a rule knows of it.
LEMMA HandsApart ==
    ASSUME HostTypeOK, RuleIsInHand, NEW t \in Thread, NEW u \in Thread, Applies(t)
    PROVE  /\ task[t].rule \in RuleId /\ rule[task[t].rule] = "applying"
           /\ Removes(u) => task[u].rule # task[t].rule
           /\ Applies(u) /\ u # t => task[u].rule # task[t].rule
BY RulesTyped DEF RuleIsInHand, Applies, Removes

LEMMA StartKeeps ==
    ASSUME DegraderInv, HostTypeOK', NEW t \in Thread, NEW r \in RuleId,
           NEW m \in {"block", "throttle"}, StartRule(t, r, m),
           \A x \in Thread \ {t} : task'[x] = task[x]
    PROVE  DegraderInv'
<1>0. /\ task \in [Thread -> Task] /\ firewall \cup throttles \subseteq Artifact
      /\ rule \in [RuleId -> {"unused", "applying", "active", "stopped"}]
      /\ mode \in [RuleId -> {"block", "throttle"}]
  BY DEF DegraderInv, HostTypeOK
<1>1. /\ task[t].step = "idle" /\ rule[r] = "unused"
      /\ task'[t].step = "apply" /\ task'[t].rule = r /\ task'[t].part = 1
      /\ UNCHANGED <<firewall, throttles, partial, leaked>>
  BY <1>0, IdleTask DEF StartRule, Goto, hostVars
<1>2. /\ \A q \in RuleId : q # r => rule'[q] = rule[q] /\ mode'[q] = mode[q]
      /\ rule'[r] = "applying"
  BY <1>0 DEF StartRule
<1>3. /\ \A x \in Thread : Applies(x)' <=> x = t \/ Applies(x)
      /\ \A x \in Thread : Removes(x)' <=> Removes(x)
      /\ ~Applies(t) /\ ~Removes(t)
  BY <1>1 DEF Applies, Removes, ApplySteps, RemoveSteps
<1>4. \A x \in Thread : Applies(x) \/ Removes(x) => task[x].rule \in RuleId \ {r}
  BY <1>1, RulesTyped DEF DegraderInv, RuleIsInHand, Applies, Removes
<1>5. RuleIsInHand'
  BY <1>1, <1>2, <1>3, <1>4 DEF DegraderInv, RuleIsInHand
<1>6. RemovedSoFar'
  BY <1>1, <1>3 DEF DegraderInv, RemovedSoFar
<1>7. AppliedSoFar'
  <2>1. \A p \in 1..Parts : ~(p < 1)
    BY PartsAssumption
  <2>2. QED BY <1>1, <1>2, <1>3, <1>4, <2>1 DEF DegraderInv, AppliedSoFar
<1>8. /\ BeingApplied \subseteq BeingApplied' /\ BeingRemoved' = BeingRemoved
  BY <1>1 DEF BeingApplied, BeingRemoved
<1>9. NoStrayArtifacts'
  BY <1>0, <1>1, <1>2, <1>8 DEF DegraderInv, NoStrayArtifacts, Artifact
<1>10. ActiveBlocksHold'
  BY <1>1, <1>2, <1>8 DEF DegraderInv, ActiveBlocksHold, InEffect
<1>11. QED BY <1>5, <1>6, <1>7, <1>9, <1>10 DEF DegraderInv

LEMMA ApplyKeeps ==
    ASSUME DegraderInv, HostTypeOK', NEW t \in Thread, NEW works \in BOOLEAN,
           ApplyPart(t, works), \A x \in Thread \ {t} : task'[x] = task[x]
    PROVE  DegraderInv'
<1> DEFINE r == task[t].rule
           part == task[t].part
           added == [rule |-> r, part |-> part]
<1>0. /\ task \in [Thread -> Task] /\ firewall \cup throttles \subseteq Artifact
      /\ \A x \in Thread : Applies(x) \/ Removes(x) => task[x].rule \in RuleId
  BY RulesTyped DEF DegraderInv, HostTypeOK, Applies, Removes
<1>1. /\ task[t].step = "apply" /\ part \in 1..Parts /\ r \in RuleId
      /\ UNCHANGED <<rule, mode, leaked>>
  BY RulesTyped DEF DegraderInv, ApplyPart, ApplySteps
<1>2. /\ task'[t].rule = r
      /\ IF part < Parts THEN task'[t].step = "apply" /\ task'[t].part = part + 1
         ELSE task'[t].step = "register"
  <2>1. task[t] \in [step : {"apply"}, rule : RuleId, part : 1..Parts]
    BY <1>0, <1>1, TaskShape
  <2>2. task'[t] = IF part < Parts THEN [task[t] EXCEPT !.part = part + 1]
                   ELSE [step |-> "register", rule |-> r]
    BY <1>0 DEF ApplyPart, Goto
  <2>3. QED BY <2>1, <2>2
<1>3. /\ firewall \subseteq firewall' /\ firewall' \subseteq firewall \cup {added}
      /\ throttles' \subseteq throttles \cup {added}
      /\ partial \subseteq partial'
      /\ r \notin partial' /\ mode[r] = "block" => added \in firewall'
  BY DEF ApplyPart, Adds
<1>4. /\ rule[r] = "applying"
      /\ \A x \in Thread : Removes(x) => task[x].rule # r
      /\ \A x \in Thread \ {t} : Applies(x) => task[x].rule # r
      /\ Applies(t) /\ Applies(t)' /\ ~Removes(t)' /\ ~Removes(t)
  BY <1>1, <1>2, HandsApart
     DEF DegraderInv, Applies, Removes, ApplySteps, RemoveSteps
<1>5. added.rule = r /\ added.part = part
  OBVIOUS
<1> HIDE DEF r, part, added
<1>6. RuleIsInHand'
  BY <1>1, <1>2, <1>4 DEF DegraderInv, RuleIsInHand, Applies, Removes, r
<1>7. RemovedSoFar'
  BY <1>1, <1>3, <1>4, <1>5 DEF DegraderInv, RemovedSoFar, Removes
<1>8. AppliedSoFar'
  <2>1. ASSUME NEW x \in Thread, NEW p \in 1..Parts, Applies(x)',
               task'[x].rule \notin partial', mode'[task'[x].rule] = "block",
               task'[x].step = "apply" => p < task'[x].part
        PROVE  [rule |-> task'[x].rule, part |-> p] \in firewall'
    <3>1. CASE x = t
      <4>1. p < part \/ p = part
        BY <1>1, <1>2, <2>1, <3>1, PartsAssumption
      <4>2. [rule |-> r, part |-> p] \in firewall \/ p = part
        BY <1>1, <1>3, <1>4, <2>1, <3>1, <4>1, <1>2 DEF DegraderInv, AppliedSoFar, r, part
      <4>3. QED BY <1>1, <1>2, <1>3, <2>1, <3>1, <4>2 DEF added
    <3>2. CASE x # t
      BY <1>1, <1>3, <2>1, <3>2 DEF DegraderInv, AppliedSoFar, Applies
    <3>3. QED BY <3>1, <3>2
  <2>2. QED BY <2>1 DEF AppliedSoFar
<1>9. NoStrayArtifacts'
  <2>1. r \in BeingApplied' /\ BeingApplied \subseteq BeingApplied'
        /\ BeingRemoved \subseteq BeingRemoved'
    BY <1>1, <1>2 DEF BeingApplied, BeingRemoved, r
  <2>2. QED BY <1>1, <1>3, <1>5, <2>1 DEF DegraderInv, NoStrayArtifacts
<1>10. ActiveBlocksHold'
  <2>1. BeingRemoved' = BeingRemoved
    BY <1>1, <1>2 DEF BeingRemoved
  <2>2. QED BY <1>1, <1>3, <2>1 DEF DegraderInv, ActiveBlocksHold, InEffect
<1>11. QED BY <1>6, <1>7, <1>8, <1>9, <1>10 DEF DegraderInv

LEMMA RegisterKeeps ==
    ASSUME DegraderInv, HostTypeOK', NEW t \in Thread, RegisterRule(t),
           \A x \in Thread \ {t} : task'[x] = task[x]
    PROVE  DegraderInv'
<1> DEFINE r == task[t].rule
<1>0. /\ task \in [Thread -> Task] /\ firewall \cup throttles \subseteq Artifact
      /\ rule \in [RuleId -> {"unused", "applying", "active", "stopped"}]
  BY DEF DegraderInv, HostTypeOK
<1>1. /\ task[t].step = "register" /\ r \in RuleId /\ task'[t].step = "idle"
      /\ UNCHANGED <<firewall, throttles, mode, partial, leaked>>
  BY <1>0, RulesTyped, IdleTask DEF DegraderInv, RegisterRule, Goto, hostVars, ApplySteps
<1>2. /\ \A q \in RuleId : q # r => rule'[q] = rule[q]
      /\ rule'[r] = "active"
  BY <1>0, <1>1 DEF RegisterRule
<1>3. /\ \A x \in Thread : Applies(x)' <=> x # t /\ Applies(x)
      /\ \A x \in Thread : Removes(x)' <=> Removes(x)
      /\ Applies(t) /\ ~Removes(t)
  BY <1>1 DEF Applies, Removes, ApplySteps, RemoveSteps
<1>4. \A x \in Thread \ {t} : Applies(x) \/ Removes(x) => task[x].rule \in RuleId \ {r}
  BY <1>3, HandsApart, RulesTyped DEF DegraderInv, Applies, Removes
<1> HIDE DEF r
<1>5. RuleIsInHand'
  BY <1>2, <1>3, <1>4 DEF DegraderInv, RuleIsInHand
<1>6. RemovedSoFar'
  BY <1>1, <1>3 DEF DegraderInv, RemovedSoFar
<1>7. AppliedSoFar'
  BY <1>1, <1>3 DEF DegraderInv, AppliedSoFar
<1>8. /\ BeingApplied \subseteq BeingApplied' \cup {r} /\ BeingRemoved' = BeingRemoved
  BY <1>1 DEF BeingApplied, BeingRemoved, r
<1>9. NoStrayArtifacts'
  BY <1>0, <1>1, <1>2, <1>8 DEF DegraderInv, NoStrayArtifacts, Artifact
<1>10. ActiveBlocksHold'
  <2>1. ASSUME r \notin partial, mode[r] = "block"
        PROVE  [rule : {r}, part : 1..Parts] \subseteq firewall
    <3>1. \A p \in 1..Parts : [rule |-> r, part |-> p] \in firewall
      BY <1>1, <1>3, <2>1 DEF DegraderInv, AppliedSoFar, r
    <3>2. \A a \in [rule : {r}, part : 1..Parts] :
             a = [rule |-> r, part |-> a.part] /\ a.part \in 1..Parts
      OBVIOUS
    <3>3. QED BY <3>1, <3>2
  <2>2. QED BY <1>1, <1>2, <1>8, <2>1 DEF DegraderInv, ActiveBlocksHold, InEffect
<1>11. QED BY <1>5, <1>6, <1>7, <1>9, <1>10 DEF DegraderInv

\* stop_rule, stop_all and the next rule of it only choose what to remove.
LEMMA StopKeeps ==
    ASSUME DegraderInv, HostTypeOK', NEW t \in Thread,
           UNCHANGED <<hostVars, degraderVars>>, ~Applies(t), ~Removes(t),
           \/ task'[t].step \in {"idle", "next"}
           \/ /\ task'[t].step = "remove firewall"
              /\ task'[t].rule \in RuleId /\ rule[task'[t].rule] = "active",
           \A x \in Thread \ {t} : task'[x] = task[x]
    PROVE  DegraderInv'
<1>1. UNCHANGED <<firewall, throttles, rule, mode, partial, leaked>>
  BY DEF hostVars, degraderVars
<1>2. /\ \A x \in Thread : Applies(x)' <=> Applies(x)
      /\ \A x \in Thread : Removes(x) => Removes(x)'
      /\ \A x \in Thread \ {t} : Removes(x)' <=> Removes(x)
      /\ Removes(t)' => task'[t].step = "remove firewall"
                        /\ task'[t].rule \in RuleId /\ rule[task'[t].rule] = "active"
  BY DEF Applies, Removes, ApplySteps, RemoveSteps
<1>3. RuleIsInHand'
  BY <1>1, <1>2 DEF DegraderInv, RuleIsInHand
<1>4. RemovedSoFar'
  BY <1>1, <1>2 DEF DegraderInv, RemovedSoFar
<1>5. AppliedSoFar'
  BY <1>1, <1>2 DEF DegraderInv, AppliedSoFar
<1>6. BeingApplied' = BeingApplied /\ BeingRemoved \subseteq BeingRemoved'
  BY DEF BeingApplied, BeingRemoved, Applies, Removes, ApplySteps, RemoveSteps
<1>7. NoStrayArtifacts'
  BY <1>1, <1>6 DEF DegraderInv, NoStrayArtifacts
<1>8. ActiveBlocksHold'
  BY <1>1, <1>6 DEF DegraderInv, ActiveBlocksHold, InEffect
<1>9. QED BY <1>3, <1>4, <1>5, <1>7, <1>8 DEF DegraderInv

\* A command of _remove takes artifacts of its own rule away, if any.
LEMMA RemoveKeeps ==
    ASSUME DegraderInv, HostTypeOK', NEW t \in Thread,
           Removes(t), Removes(t)', task'[t].rule = task[t].rule,
           UNCHANGED <<rule, mode, partial>>, leaked \subseteq leaked',
           firewall' \subseteq firewall, throttles' \subseteq throttles,
           \A a \in firewall : a.rule # task[t].rule => a \in firewall',
           \/ /\ task'[t].step = "remove policies"
              /\ \A a \in firewall' : a.rule = task[t].rule => a \in leaked'
           \/ /\ task[t].step = "remove policies"
              /\ task'[t].step = "mark"
              /\ \A a \in throttles' : a.rule = task[t].rule => a \in leaked',
           \A x \in Thread \ {t} : task'[x] = task[x]
    PROVE  DegraderInv'
<1> DEFINE r == task[t].rule
<1>1. /\ \A x \in Thread : Applies(x)' <=> Applies(x)
      /\ \A x \in Thread : Removes(x)' <=> Removes(x)
      /\ \A x \in Thread : Applies(x) => x # t /\ task[x].rule # r
      /\ r \in RuleId
  BY HandsApart, RulesTyped
     DEF DegraderInv, Applies, Removes, ApplySteps, RemoveSteps
<1>2. RuleIsInHand'
  BY <1>1 DEF DegraderInv, RuleIsInHand
<1>3. RemovedSoFar'
  <2>1. ASSUME NEW x \in Thread, NEW a \in firewall' \cup throttles', Removes(x)',
               a.rule = task'[x].rule
        PROVE  /\ task'[x].step # "remove firewall" /\ a \in firewall' => a \in leaked'
               /\ task'[x].step = "mark" => a \in leaked'
    <3>1. CASE x = t
      BY <1>1, <2>1, <3>1 DEF DegraderInv, RemovedSoFar
    <3>2. CASE x # t
      BY <1>1, <2>1, <3>2 DEF DegraderInv, RemovedSoFar
    <3>3. QED BY <3>1, <3>2
  <2>2. QED BY <2>1 DEF RemovedSoFar
<1>4. AppliedSoFar'
  <2>1. ASSUME NEW x \in Thread, NEW p \in 1..Parts, Applies(x)',
               task'[x].rule \notin partial', mode'[task'[x].rule] = "block",
               task'[x].step = "apply" => p < task'[x].part
        PROVE  [rule |-> task'[x].rule, part |-> p] \in firewall'
    BY <1>1, <2>1 DEF DegraderInv, AppliedSoFar
  <2>2. QED BY <2>1 DEF AppliedSoFar
<1>5. BeingApplied' = BeingApplied /\ BeingRemoved' = BeingRemoved
  BY DEF BeingApplied, BeingRemoved, Removes, RemoveSteps
<1>6. NoStrayArtifacts'
  BY <1>5 DEF DegraderInv, NoStrayArtifacts
<1>7. ActiveBlocksHold'
  <2>1. r \in BeingRemoved
    BY <1>1 DEF BeingRemoved, Removes, RemoveSteps
  <2>2. \A q \in RuleId : \A a \in [rule : {q}, part : 1..Parts] : a.rule = q
    OBVIOUS
  <2>3. QED BY <1>5, <2>1, <2>2 DEF DegraderInv, ActiveBlocksHold, InEffect
<1>8. QED BY <1>2, <1>3, <1>4, <1>6, <1>7 DEF DegraderInv

LEMMA MarkKeeps ==
    ASSUME DegraderInv, HostTypeOK', NEW t \in Thread, MarkStopped(t),
           \A x \in Thread \ {t} : task'[x] = task[x]
    PROVE  DegraderInv'
<1> DEFINE r == task[t].rule
<1>0. /\ task \in [Thread -> Task] /\ firewall \cup throttles \subseteq Artifact
      /\ rule \in [RuleId -> {"unused", "applying", "active", "stopped"}]
  BY DEF DegraderInv, HostTypeOK
<1>1. /\ task[t].step = "mark" /\ r \in RuleId
      /\ UNCHANGED <<firewall, throttles, mode, leaked>>
      /\ partial' = partial \ {r}
  BY RulesTyped DEF DegraderInv, MarkStopped, hostVars, RemoveSteps
<1>2. task'[t].step \in {"idle", "next"}
  <2>1. task[t].todo \in SUBSET RuleId
    BY <1>1, RulesTyped DEF DegraderInv, RemoveSteps
  <2>2. QED BY <1>0, <2>1, StoppingTask DEF MarkStopped, Goto
<1>3. /\ \A q \in RuleId : q # r => rule'[q] = rule[q]
      /\ rule'[r] = "stopped"
  BY <1>0, <1>1 DEF MarkStopped
<1>4. /\ \A x \in Thread : Applies(x)' <=> Applies(x)
      /\ \A x \in Thread : Removes(x)' <=> x # t /\ Removes(x)
      /\ \A x \in Thread : Applies(x) => x # t /\ task[x].rule \in RuleId \ {r}
      /\ \A x \in Thread : Removes(x) => task[x].rule \in RuleId
      /\ Removes(t)
  BY <1>1, <1>2, HandsApart, RulesTyped
     DEF DegraderInv, Applies, Removes, ApplySteps, RemoveSteps
<1> HIDE DEF r
<1>5. RuleIsInHand'
  BY <1>3, <1>4 DEF DegraderInv, RuleIsInHand
<1>6. RemovedSoFar'
  BY <1>1, <1>4 DEF DegraderInv, RemovedSoFar
<1>7. AppliedSoFar'
  BY <1>1, <1>4 DEF DegraderInv, AppliedSoFar
<1>8. BeingApplied' = BeingApplied /\ BeingRemoved \subseteq BeingRemoved' \cup {r}
  BY <1>1, <1>2 DEF BeingApplied, BeingRemoved, r
<1>9. NoStrayArtifacts'
  <2>1. \A a \in firewall \cup throttles : a.rule = r => a \in leaked
    BY <1>1, <1>4 DEF DegraderInv, RemovedSoFar, r
  <2>2. QED BY <1>0, <1>1, <1>3, <1>8, <2>1 DEF DegraderInv, NoStrayArtifacts, Artifact
<1>10. ActiveBlocksHold'
  BY <1>1, <1>3, <1>8 DEF DegraderInv, ActiveBlocksHold, InEffect
<1>11. QED BY <1>5, <1>6, <1>7, <1>9, <1>10 DEF DegraderInv

LEMMA DegraderKeeps ==
    ASSUME DegraderInv, NEW t \in Thread, DegraderStep(t), UNCHANGED priorityVars
    PROVE  DegraderInv'
<1>0. /\ HostTypeOK /\ HostTypeOK'
      /\ \A x \in Thread \ {t} : task'[x] = task[x]
      /\ task \in [Thread -> Task]
  BY DegraderTypes DEF DegraderInv, HostTypeOK
<1>1. ASSUME NEW r \in RuleId, NEW m \in {"block", "throttle"}, StartRule(t, r, m)
      PROVE  DegraderInv'
  BY <1>0, <1>1, StartKeeps
<1>2. ASSUME NEW works \in BOOLEAN, ApplyPart(t, works)
      PROVE  DegraderInv'
  BY <1>0, <1>2, ApplyKeeps
<1>3. ASSUME RegisterRule(t)
      PROVE  DegraderInv'
  BY <1>0, <1>3, RegisterKeeps
<1>4. ASSUME NEW r \in RuleId, StopRule(t, r)
      PROVE  DegraderInv'
  <2>1. ~Applies(t) /\ ~Removes(t)
    BY <1>4, IdleTask DEF StopRule, Applies, Removes, ApplySteps, RemoveSteps
  <2>2. task'[t].step = "remove firewall" /\ task'[t].rule = r /\ rule[r] = "active"
    BY <1>0, <1>4, RemovalTask DEF StopRule, Goto
  <2>3. QED BY <1>0, <1>4, <2>1, <2>2, StopKeeps DEF StopRule
<1>5. ASSUME NEW r \in RuleId, StopNext(t, r)
      PROVE  DegraderInv'
  <2>1. ~Applies(t) /\ ~Removes(t)
    BY <1>5 DEF StopNext, Applies, Removes, ApplySteps, RemoveSteps
  <2>2. task[t].todo \ {r} \in SUBSET RuleId
    BY <1>0, <1>5, RulesTyped DEF StopNext
  <2>3. \/ task'[t].step \in {"idle", "next"}
        \/ /\ task'[t].step = "remove firewall"
           /\ task'[t].rule \in RuleId /\ rule[task'[t].rule] = "active"
    <3>1. task'[t] = IF rule[r] = "active" THEN Removal(r, task[t].todo \ {r})
                     ELSE Stopping(task[t].todo \ {r})
      BY <1>0, <1>5 DEF StopNext, Goto
    <3>2. Stopping(task[t].todo \ {r}).step \in {"idle", "next"}
      BY <2>2, StoppingTask
    <3>3. /\ Removal(r, task[t].todo \ {r}).step = "remove firewall"
          /\ Removal(r, task[t].todo \ {r}).rule = r
      BY <2>2, RemovalTask
    <3>4. QED BY <3>1, <3>2, <3>3
  <2>4. QED BY <1>0, <1>5, <2>1, <2>3, StopKeeps DEF StopNext
<1>6. ASSUME StopAll(t)
      PROVE  DegraderInv'
  <2>1. ~Applies(t) /\ ~Removes(t)
    BY <1>6, IdleTask DEF StopAll, Applies, Removes, ApplySteps, RemoveSteps
  <2>2. task'[t].step \in {"idle", "next"}
    <3>1. Active \in SUBSET RuleId
      BY DEF Active
    <3>2. QED BY <1>0, <1>6, <3>1, StoppingTask DEF StopAll, Goto
  <2>3. QED BY <1>0, <1>6, <2>1, <2>2, StopKeeps DEF StopAll
<1>7. ASSUME NEW works \in BOOLEAN, RemoveFirewall(t, works)
      PROVE  DegraderInv'
  <2>1. /\ task[t].step = "remove firewall"
        /\ task'[t].step = "remove policies" /\ task'[t].rule = task[t].rule
    <3>1. task[t] \in [step : RemoveSteps, rule : RuleId, todo : SUBSET RuleId]
      BY <1>0, <1>7, RulesTyped, TaskShape DEF RemoveFirewall, RemoveSteps
    <3>2. task'[t] = [task[t] EXCEPT !.step = "remove policies"]
      BY <1>0, <1>7 DEF RemoveFirewall, Goto
    <3>3. QED BY <1>7, <3>1, <3>2 DEF RemoveFirewall
  <2>2. Removes(t) /\ Removes(t)'
    BY <2>1 DEF Removes, RemoveSteps
  <2>3. /\ UNCHANGED <<rule, mode, partial, throttles>> /\ leaked \subseteq leaked'
        /\ firewall' \subseteq firewall
        /\ \A a \in firewall : a.rule # task[t].rule => a \in firewall'
        /\ \A a \in firewall' : a.rule = task[t].rule => a \in leaked'
    BY <1>7 DEF RemoveFirewall, Keeps, Artifacts
  <2>4. QED BY <1>0, <2>1, <2>2, <2>3, RemoveKeeps
<1>8. ASSUME NEW works \in BOOLEAN, RemovePolicies(t, works)
      PROVE  DegraderInv'
  <2>1. /\ task[t].step = "remove policies"
        /\ task'[t].step = "mark" /\ task'[t].rule = task[t].rule
    BY <1>0, <1>8 DEF RemovePolicies, Goto
  <2>2. Removes(t) /\ Removes(t)'
    BY <2>1 DEF Removes, RemoveSteps
  <2>3. /\ UNCHANGED <<rule, mode, partial, firewall>> /\ leaked \subseteq leaked'
        /\ throttles' \subseteq throttles
        /\ \A a \in throttles' : a.rule = task[t].rule => a \in leaked'
    BY <1>8 DEF RemovePolicies, Keeps, Artifacts
  <2>4. QED BY <1>0, <2>1, <2>2, <2>3, RemoveKeeps
<1>9. ASSUME MarkStopped(t)
      PROVE  DegraderInv'
  BY <1>0, <1>9, MarkKeeps
<1>10. QED
  BY <1>1, <1>2, <1>3, <1>4, <1>5, <1>6, <1>7, <1>8, <1>9 DEF DegraderStep

\* The app priorities may take throttles away, and leave the rest alone.
LEMMA PrioritiesLeaveRules ==
    ASSUME DegraderInv, NEW t \in Thread, PriorityStep(t), UNCHANGED degraderVars
    PROVE  DegraderInv'
<1>1. /\ HostTypeOK'
      /\ UNCHANGED <<firewall, rule, mode, partial, leaked>> /\ throttles' \subseteq throttles
      /\ \A x \in Thread :
            \/ task'[x] = task[x]
            \/ task[x].step \notin DegradeSteps /\ task'[x].step \notin DegradeSteps
  BY PriorityTypes DEF DegraderInv, degraderVars
<1>2. /\ \A x \in Thread : Applies(x)' <=> Applies(x)
      /\ \A x \in Thread : Removes(x)' <=> Removes(x)
      /\ \A x \in Thread : Applies(x) \/ Removes(x) => task'[x] = task[x]
  BY <1>1 DEF Applies, Removes, DegradeSteps
<1>3. RuleIsInHand'
  BY <1>1, <1>2 DEF DegraderInv, RuleIsInHand
<1>4. RemovedSoFar'
  BY <1>1, <1>2 DEF DegraderInv, RemovedSoFar
<1>5. AppliedSoFar'
  BY <1>1, <1>2 DEF DegraderInv, AppliedSoFar
<1>6. BeingApplied' = BeingApplied /\ BeingRemoved' = BeingRemoved
  BY <1>2 DEF BeingApplied, BeingRemoved, Applies, Removes, ApplySteps, RemoveSteps
<1>7. NoStrayArtifacts' /\ ActiveBlocksHold'
  BY <1>1, <1>6 DEF DegraderInv, NoStrayArtifacts, ActiveBlocksHold, InEffect
<1>8. QED BY <1>1, <1>3, <1>4, <1>5, <1>7 DEF DegraderInv

-----------------------------------------------------------------------------
\* The enforcer keeps its part.

LEMMA EnforceKeeps ==
    ASSUME EnforcerInv, HostTypeOK', NEW t \in Thread, NEW u \in User,
           NEW map \in PriorityMap, NEW total \in Nat \ {0},
           priorities' = [priorities EXCEPT ![u] = map], Enforce(t, map, total)
    PROVE  EnforcerInv'
<1>1. /\ task[t].step = "idle" /\ task'[t].step = "clear"
      /\ task'[t].shares = Shares(map, total) /\ task'[t].todo = Slots(DOMAIN map)
      /\ task'[t].exact <=> \A y \in Thread : ~Enforcing(y)
      /\ \A x \in Thread \ {t} :
            IF Enforcing(x)
            THEN task'[x].step = task[x].step /\ task'[x].exact = FALSE
            ELSE task'[x] = task[x]
  BY EnforceTask DEF EnforcerInv
<1>2. /\ DOMAIN Shares(map, total) = DOMAIN map
      /\ map = [a \in DOMAIN Shares(map, total) |-> Shares(map, total)[a].class]
  BY SharesType
<1>3. /\ \A x \in Thread \ {t} : Enforcing(x)' <=> Enforcing(x)
      /\ Enforcing(t)' /\ ~Enforcing(t)
      /\ \A x \in Thread \ {t} : Enforcing(x)' => ~task'[x].exact
  BY <1>1 DEF Enforcing
<1>4. ExactIsAlone'
  BY <1>1, <1>2, <1>3 DEF ExactIsAlone, AllSlots
<1>5. priorities'[u] = map
  BY DEF EnforcerInv, HostTypeOK
<1>6. ExactIsSomeones'
  <2>1. SharesOf(Shares(map, total))'
    BY <1>2, <1>5 DEF SharesOf
  <2>2. SharesOf(task[t].shares)'
    BY <1>1, <2>1 DEF SharesOf
  <2>3. QED BY <1>3, <2>2 DEF ExactIsSomeones
<1>7. SettledIsLast' /\ SettledIsEnforced' /\ SettledIsSomeonesSetting'
  BY DEF Enforce, SettledIsLast, SettledIsEnforced, SettledIsSomeonesSetting
<1>8. QED BY <1>4, <1>6, <1>7 DEF EnforcerInv

\* A command of an enforcement.  An exact one has its policies, and no others,
\* when it has created them.
LEMMA CommandKeeps ==
    ASSUME EnforcerInv, HostTypeOK', NEW t \in Thread, Enforcing(t),
           UNCHANGED priorityVars, NEW left \in SUBSET Slots(App),
           task'[t].step = IF left = {} THEN "record" ELSE "create",
           task'[t].todo = left, task'[t].shares = task[t].shares,
           task'[t].exact => /\ task[t].exact /\ left \subseteq AllSlots(task[t].shares)
                             /\ appPolicies' = Policies(task[t].shares,
                                                       AllSlots(task[t].shares) \ left),
           \A x \in Thread \ {t} : task'[x] = task[x]
    PROVE  EnforcerInv'
<1>1. /\ \A x \in Thread : Enforcing(x)' <=> Enforcing(x)
      /\ UNCHANGED <<priorities, active, settled>>
  BY DEF Enforcing, priorityVars
<1>2. settled = 0
  BY DEF EnforcerInv, SettledIsLast
<1>3. \A x \in Thread \ {t} : Enforcing(x)' => ~task'[x].exact
  BY <1>1 DEF EnforcerInv, ExactIsAlone
<1>4. task'[t].exact => \A x \in Thread \ {t} : ~Enforcing(x)'
  BY <1>1 DEF EnforcerInv, ExactIsAlone
<1>5. ExactIsAlone'
  BY <1>3, <1>4 DEF ExactIsAlone
<1>6. ExactIsSomeones'
  BY <1>1, <1>3 DEF EnforcerInv, ExactIsSomeones, SharesOf
<1>7. SettledIsLast' /\ SettledIsEnforced' /\ SettledIsSomeonesSetting'
  BY <1>1, <1>2 DEF SettledIsLast, SettledIsEnforced, SettledIsSomeonesSetting
<1>8. QED BY <1>5, <1>6, <1>7 DEF EnforcerInv

LEMMA RecordKeeps ==
    ASSUME EnforcerInv, HostTypeOK', NEW t \in Thread, RecordAllocations(t)
    PROVE  EnforcerInv'
<1>1. /\ task[t].step = "record" /\ task'[t].step = "idle"
      /\ \A x \in Thread \ {t} : task'[x] = task[x]
      /\ active' = task[t].shares /\ (settled' # 0 => task[t].exact)
      /\ UNCHANGED <<appPolicies, priorities>>
  BY IdleTask, GotoTask DEF EnforcerInv, HostTypeOK, RecordAllocations, hostVars
<1>2. /\ \A x \in Thread : Enforcing(x)' <=> x # t /\ Enforcing(x)
      /\ Enforcing(t)
  BY <1>1 DEF Enforcing
<1>3. ExactIsAlone'
  BY <1>1, <1>2 DEF EnforcerInv, ExactIsAlone
<1>4. ExactIsSomeones'
  BY <1>1, <1>2 DEF EnforcerInv, ExactIsSomeones, SharesOf
<1>5. ASSUME settled' # 0
      PROVE  /\ task[t].exact
             /\ \A x \in Thread : ~Enforcing(x)'
             /\ appPolicies = Policies(task[t].shares, AllSlots(task[t].shares))
             /\ SharesOf(task[t].shares)
  <2>1. task[t].exact
    BY <1>1, <1>5
  <2>2. /\ \A x \in Thread \ {t} : ~Enforcing(x)
        /\ task[t].todo = {}
        /\ appPolicies = Policies(task[t].shares, AllSlots(task[t].shares) \ task[t].todo)
    BY <1>1, <1>2, <2>1 DEF EnforcerInv, ExactIsAlone
  <2>3. SharesOf(task[t].shares)
    BY <1>2, <2>1 DEF EnforcerInv, ExactIsSomeones
  <2>4. QED BY <1>2, <2>1, <2>2, <2>3
<1>6. SettledIsLast' /\ SettledIsEnforced' /\ SettledIsSomeonesSetting'
  BY <1>1, <1>5
     DEF SettledIsLast, SettledIsEnforced, SettledIsSomeonesSetting, Policies,
         AllSlots, SharesOf
<1>7. QED BY <1>3, <1>4, <1>6 DEF EnforcerInv

LEMMA PrioritiesKeep ==
    ASSUME EnforcerInv, NEW t \in Thread, PriorityStep(t), UNCHANGED degraderVars
    PROVE  EnforcerInv'
<1>0. /\ HostTypeOK /\ HostTypeOK' /\ priorities \in [User -> PriorityMap]
  BY PriorityTypes DEF EnforcerInv, HostTypeOK
<1>1. ASSUME NEW u \in User, NEW s \in Setting, SetPriorities(t, u, s[1], s[2])
      PROVE  EnforcerInv'
  <2>1. s[1] \in PriorityMap /\ TotalOr(s[2]) \in Nat \ {0}
    BY SettingAssumption, TotalType
  <2>2. QED BY <1>0, <1>1, <2>1, EnforceKeeps DEF SetPriorities
<1>2. ASSUME NEW u \in User, NEW a \in App, RemoveAppPriority(t, u, a)
      PROVE  EnforcerInv'
  <2> DEFINE left == [x \in DOMAIN priorities[u] \ {a} |-> priorities[u][x]]
  <2>1. left \in PriorityMap
    <3>1. priorities[u] \in PriorityMap
      BY <1>0
    <3>2. QED BY <3>1, LessType
  <2>2. priorities' = [priorities EXCEPT ![u] = left] /\ Enforce(t, left, Link)
    BY <1>2 DEF RemoveAppPriority
  <2> HIDE DEF left
  <2>3. QED BY <1>0, <2>1, <2>2, EnforceKeeps, LinkAssumption
<1>3. ASSUME NEW u \in User, ResetAll(t, u)
      PROVE  EnforcerInv'
  BY <1>0, <1>3, EnforceKeeps, NothingType, LinkAssumption DEF ResetAll
<1>4. ASSUME Enforcing(t)
      PROVE  /\ task[t].todo \in SUBSET Slots(App) /\ task[t].exact \in BOOLEAN
             /\ task[t].step \in EnforceSteps
  BY <1>0, <1>4, RulesTyped, TaskShape DEF Enforcing, EnforceSteps
<1>5. ASSUME NEW works \in BOOLEAN, ClearPolicies(t, works)
      PROVE  EnforcerInv'
  <2>1. Enforcing(t) /\ task[t].step = "clear"
    BY <1>5 DEF ClearPolicies, Enforcing
  <2>2. /\ task'[t].step = IF task[t].todo = {} THEN "record" ELSE "create"
        /\ task'[t].todo = task[t].todo
        /\ task'[t].exact = (task[t].exact /\ works)
        /\ task'[t].shares = task[t].shares
        /\ \A x \in Thread \ {t} : task'[x] = task[x]
    <3>1. (task[t].exact /\ works) \in BOOLEAN
      BY <1>4, <2>1
    <3>2. Creating(t, task[t].todo, task[t].exact /\ works)
      BY <1>5 DEF ClearPolicies
    <3>3. QED BY <1>0, <1>4, <2>1, <3>1, <3>2, CreatingTask
  <2>3. ASSUME task'[t].exact
        PROVE  /\ task[t].exact /\ task[t].todo \subseteq AllSlots(task[t].shares)
               /\ appPolicies' = Policies(task[t].shares,
                                          AllSlots(task[t].shares) \ task[t].todo)
    <3>1. task[t].exact /\ works
      BY <2>2, <2>3
    <3>2. appPolicies' = {}
      BY <1>5, <3>1 DEF ClearPolicies, Keeps
    <3>3. task[t].todo = AllSlots(task[t].shares)
      BY <2>1, <3>1 DEF EnforcerInv, ExactIsAlone
    <3>4. QED BY <3>1, <3>2, <3>3 DEF Policies
  <2>4. UNCHANGED priorityVars
    BY <1>5 DEF ClearPolicies
  <2>5. QED BY <1>0, <1>4, <2>1, <2>2, <2>3, <2>4, CommandKeeps
<1>6. ASSUME NEW slot \in Slots(App), NEW works \in BOOLEAN, CreatePolicy(t, slot, works)
      PROVE  EnforcerInv'
  <2> DEFINE left == task[t].todo \ {slot}
  <2>1. Enforcing(t) /\ task[t].step = "create" /\ slot \in task[t].todo
    BY <1>6 DEF CreatePolicy, Enforcing
  <2>2. /\ task'[t].step = IF left = {} THEN "record" ELSE "create"
        /\ task'[t].todo = left
        /\ task'[t].exact = (task[t].exact /\ works)
        /\ task'[t].shares = task[t].shares
        /\ \A x \in Thread \ {t} : task'[x] = task[x]
    <3>1. (task[t].exact /\ works) \in BOOLEAN /\ left \in SUBSET Slots(App)
      BY <1>4, <2>1
    <3>2. Creating(t, left, task[t].exact /\ works)
      BY <1>6 DEF CreatePolicy
    <3> HIDE DEF left
    <3>3. QED BY <1>0, <1>4, <2>1, <3>1, <3>2, CreatingTask
  <2>3. ASSUME task'[t].exact
        PROVE  /\ task[t].exact /\ left \subseteq AllSlots(task[t].shares)
               /\ appPolicies' = Policies(task[t].shares, AllSlots(task[t].shares) \ left)
    <3>1. task[t].exact /\ works
      BY <2>2, <2>3
    <3>2. /\ task[t].todo \subseteq AllSlots(task[t].shares)
          /\ appPolicies = Policies(task[t].shares, AllSlots(task[t].shares) \ task[t].todo)
      BY <2>1, <3>1 DEF EnforcerInv, ExactIsAlone
    <3>3. ~ \E p \in appPolicies : p.app = slot[1] /\ p.at = slot[2]
      <4>1. \A other \in Slots(App) :
                other = <<other[1], other[2]>>
                /\ PolicyOf(other, task[t].shares).app = other[1]
                /\ PolicyOf(other, task[t].shares).at = other[2]
        BY DEF Slots, PolicyOf
      <4>2. AllSlots(task[t].shares) \ task[t].todo \subseteq Slots(App)
        <5>1. task[t].shares \in Allocation
          BY <1>0, <1>4, <2>1, RulesTyped, TaskShape
        <5>2. PICK map \in PriorityMap, total \in Nat \ {0} : task[t].shares = Shares(map, total)
          BY <5>1 DEF Allocation
        <5>3. QED BY <5>2, SharesType DEF AllSlots
      <4>3. QED BY <2>1, <3>2, <4>1, <4>2 DEF Policies
    <3>4. appPolicies' = appPolicies \cup {PolicyOf(slot, task[t].shares)}
      BY <1>6, <3>1, <3>3 DEF CreatePolicy, Adds, PolicyOf
    <3>5. AllSlots(task[t].shares) \ left = (AllSlots(task[t].shares) \ task[t].todo) \cup {slot}
      BY <2>1, <3>2
    <3>6. QED BY <3>1, <3>2, <3>4, <3>5 DEF Policies
  <2>4. UNCHANGED priorityVars
    BY <1>6 DEF CreatePolicy
  <2>5. left \in SUBSET Slots(App)
    BY <1>4, <2>1
  <2> HIDE DEF left
  <2>6. QED BY <1>0, <2>1, <2>2, <2>3, <2>4, <2>5, CommandKeeps
<1>7. ASSUME RecordAllocations(t)
      PROVE  EnforcerInv'
  BY <1>0, <1>7, RecordKeeps
<1>8. QED BY <1>1, <1>2, <1>3, <1>5, <1>6, <1>7 DEF PriorityStep

\* The degrader does not touch what the enforcer answers for.
LEMMA DegraderLeavesPolicies ==
    ASSUME EnforcerInv, NEW t \in Thread, DegraderStep(t), UNCHANGED priorityVars
    PROVE  EnforcerInv'
<1>1. /\ HostTypeOK' /\ UNCHANGED <<appPolicies, priorities, active, settled>>
      /\ task[t].step \in DegradeSteps \cup {"idle"}
      /\ task'[t].step \in DegradeSteps \cup {"idle"}
      /\ \A x \in Thread \ {t} : task'[x] = task[x]
  BY DegraderTypes DEF EnforcerInv, priorityVars
<1>2. /\ \A x \in Thread : Enforcing(x)' <=> Enforcing(x)
      /\ \A x \in Thread : Enforcing(x) => task'[x] = task[x]
  BY <1>1 DEF Enforcing, DegradeSteps, ApplySteps, RemoveSteps
<1>3. ExactIsAlone' /\ ExactIsSomeones'
  BY <1>1, <1>2 DEF EnforcerInv, ExactIsAlone, ExactIsSomeones, SharesOf
<1>4. SettledIsLast' /\ SettledIsEnforced' /\ SettledIsSomeonesSetting'
  BY <1>1, <1>2
     DEF EnforcerInv, SettledIsLast, SettledIsEnforced, SettledIsSomeonesSetting
<1>5. QED BY <1>1, <1>3, <1>4 DEF EnforcerInv

-----------------------------------------------------------------------------
\* Both.

LEMMA QosInit == Init => QosInv
<1> SUFFICES ASSUME Init PROVE QosInv
  OBVIOUS
<1>1. \A t \in Thread : task[t].step = "idle"
  BY IdleTask DEF Init, HostInit
<1>2. HostTypeOK
  BY IdleTask, NothingType DEF Init, HostInit, DegraderInit, PriorityInit, HostTypeOK
<1>3. RuleIsInHand /\ RemovedSoFar /\ AppliedSoFar
  BY <1>1 DEF RuleIsInHand, RemovedSoFar, AppliedSoFar, Applies, Removes,
              ApplySteps, RemoveSteps
<1>4. NoStrayArtifacts
  BY DEF Init, HostInit, NoStrayArtifacts
<1>5. ActiveBlocksHold
  BY DEF Init, DegraderInit, ActiveBlocksHold, InEffect
<1>6. ExactIsAlone /\ ExactIsSomeones /\ SettledIsLast
  BY <1>1 DEF ExactIsAlone, ExactIsSomeones, SettledIsLast, Enforcing
<1>7. SettledIsEnforced /\ SettledIsSomeonesSetting
  BY DEF Init, PriorityInit, SettledIsEnforced, SettledIsSomeonesSetting
<1>8. QED
  BY <1>2, <1>3, <1>4, <1>5, <1>6, <1>7 DEF QosInv, DegraderInv, EnforcerInv

LEMMA RestartKeeps == QosInv /\ Restart => QosInv'
<1> SUFFICES ASSUME QosInv, Restart PROVE QosInv'
  OBVIOUS
<1>1. HostTypeOK' /\ \A t \in Thread : task'[t].step = "idle"
  BY RestartTypes DEF QosInv, DegraderInv
<1>2. (RuleIsInHand /\ RemovedSoFar /\ AppliedSoFar)'
  BY <1>1 DEF RuleIsInHand, RemovedSoFar, AppliedSoFar, Applies, Removes,
              ApplySteps, RemoveSteps
<1>3. NoStrayArtifacts'
  BY DEF Restart, DegraderRestart, NoStrayArtifacts
<1>4. ActiveBlocksHold'
  BY DEF Restart, DegraderRestart, ActiveBlocksHold, InEffect
<1>5. (ExactIsAlone /\ ExactIsSomeones /\ SettledIsLast)'
  BY <1>1 DEF ExactIsAlone, ExactIsSomeones, SettledIsLast, Enforcing
<1>6. (SettledIsEnforced /\ SettledIsSomeonesSetting)'
  BY DEF Restart, PriorityRestart, SettledIsEnforced, SettledIsSomeonesSetting
<1>7. QED BY <1>1, <1>2, <1>3, <1>4, <1>5, <1>6 DEF QosInv, DegraderInv, EnforcerInv

LEMMA QosNext == QosInv /\ [Next]_qosVars => QosInv'
<1> SUFFICES ASSUME QosInv, [Next]_qosVars PROVE QosInv'
  OBVIOUS
<1>1. CASE \E t \in Thread : DegraderStep(t) /\ UNCHANGED priorityVars
  BY <1>1, DegraderKeeps, DegraderLeavesPolicies DEF QosInv
<1>2. CASE \E t \in Thread : PriorityStep(t) /\ UNCHANGED degraderVars
  BY <1>2, PrioritiesKeep, PrioritiesLeaveRules DEF QosInv
<1>3. CASE Restart
  BY <1>3, RestartKeeps
<1>4. CASE UNCHANGED qosVars
  <2>1. UNCHANGED <<hostVars, task, degraderVars, priorityVars>>
    BY <1>4 DEF qosVars
  <2>2. HostTypeOK' /\ RuleIsInHand' /\ RemovedSoFar' /\ AppliedSoFar'
    BY <2>1 DEF hostVars, degraderVars, priorityVars, QosInv, DegraderInv, HostTypeOK,
       RuleIsInHand, RemovedSoFar, AppliedSoFar, Applies, Removes
  <2>3. NoStrayArtifacts' /\ ActiveBlocksHold'
    BY <2>1 DEF hostVars, degraderVars, QosInv, DegraderInv, NoStrayArtifacts,
       ActiveBlocksHold, BeingApplied, BeingRemoved, InEffect
  <2>4. ExactIsAlone' /\ ExactIsSomeones' /\ SettledIsLast'
    BY <2>1 DEF hostVars, priorityVars, QosInv, EnforcerInv, ExactIsAlone,
       ExactIsSomeones, SettledIsLast, SharesOf, Enforcing
  <2>5. SettledIsEnforced' /\ SettledIsSomeonesSetting'
    BY <2>1 DEF hostVars, priorityVars, QosInv, EnforcerInv, SettledIsEnforced,
       SettledIsSomeonesSetting
  <2>6. QED BY <2>2, <2>3, <2>4, <2>5 DEF QosInv, DegraderInv, EnforcerInv
<1>5. QED BY <1>1, <1>2, <1>3, <1>4 DEF Next

\* The invariant of both features, in every state the process can reach.
THEOREM QosInvariant == Spec => []QosInv
<1>1. QED BY QosInit, QosNext, PTL DEF Spec

\* Threads, host and records hold what they may: a thread is in a step of one
\* of the two features, with what that step needs.
THEOREM HostTypes == Spec => []HostTypeOK
<1>1. QosInv => HostTypeOK
  BY DEF QosInv, DegraderInv
<1>2. QED BY <1>1, QosInvariant, PTL

\* However starts and stops of several threads interleave, and whatever fails,
\* no artifact is on the host that nobody answers for.
THEOREM NoArtifactStrays == Spec => []NoStrayArtifacts
<1>1. QosInv => NoStrayArtifacts
  BY DEF QosInv, DegraderInv
<1>2. QED BY <1>1, QosInvariant, PTL

\* A block whose commands all worked holds until it is itself stopped.
THEOREM BlocksHold == Spec => []ActiveBlocksHold
<1>1. QosInv => ActiveBlocksHold
  BY DEF QosInv, DegraderInv
<1>2. QED BY <1>1, QosInvariant, PTL

\* An undisturbed enforcement leaves exactly the recorded shares as policies.
THEOREM SettledPolicies == Spec => []SettledIsEnforced
<1>1. QosInv => SettledIsEnforced
  BY DEF QosInv, EnforcerInv
<1>2. QED BY <1>1, QosInvariant, PTL

\* And the recorded shares are those of a setting some user still has.
THEOREM SettledSetting == Spec => []SettledIsSomeonesSetting
<1>1. QosInv => SettledIsSomeonesSetting
  BY DEF QosInv, EnforcerInv
<1>2. QED BY <1>1, QosInvariant, PTL

-----------------------------------------------------------------------------
(* The sums.  They are units to count, by the lemmas of Sums.              *)

LEMMA TotalsAreUnits ==
    ASSUME NEW map, IsFiniteSet(DOMAIN map), NEW weight,
           \A a \in DOMAIN map : weight[a] = Permille[map[a]] /\ weight[a] \in Nat
    PROVE  TotalOf(map) = Cardinality(Units(weight, DOMAIN map))
<1> DEFINE sum == CHOOSE it : AddsUp(it, weight, DOMAIN map)
<1>1. AddsUp(sum, weight, DOMAIN map)
  BY SumsAreUnits
<1>2. sum[DOMAIN map] = Cardinality(Units(weight, DOMAIN map))
  BY <1>1, SumsAreUnits
<1>3. ASSUME NEW it
      PROVE  AddsUp(it, weight, DOMAIN map) <=>
                it = [s \in SUBSET DOMAIN map |->
                        IF s = {} THEN 0
                        ELSE Permille[map[CHOOSE e \in s : TRUE]]
                                + it[s \ {CHOOSE e \in s : TRUE}]]
  <2>1. \A s \in SUBSET DOMAIN map :
           s # {} => weight[CHOOSE e \in s : TRUE] = Permille[map[CHOOSE e \in s : TRUE]]
    OBVIOUS
  <2>2. QED BY <2>1 DEF AddsUp
<1>4. TotalOf(map) = sum[DOMAIN map]
  <2> DEFINE adds(it) == it = [s \in SUBSET DOMAIN map |->
                                 IF s = {} THEN 0
                                 ELSE Permille[map[CHOOSE e \in s : TRUE]]
                                         + it[s \ {CHOOSE e \in s : TRUE}]]
  <2>1. TotalOf(map) = (CHOOSE it : adds(it))[DOMAIN map]
    BY DEF TotalOf, MapThenSumSet, MapThenFoldSet
  <2>2. \A it : adds(it) <=> AddsUp(it, weight, DOMAIN map)
    BY <1>3
  <2> HIDE DEF adds
  <2>3. (CHOOSE it : adds(it)) = sum
    BY <2>2
  <2>4. QED BY <2>1, <2>3
<1>5. QED BY <1>2, <1>4

SumOf(shares, S) == MapThenSumSet(LAMBDA a : shares[a].share, S)

LEMMA SharesAreUnits ==
    ASSUME NEW shares, NEW S, IsFiniteSet(S), NEW own,
           \A a \in S : own[a] = shares[a].share /\ own[a] \in Nat
    PROVE  SumOf(shares, S) = Cardinality(Units(own, S))
<1> DEFINE sum == CHOOSE it : AddsUp(it, own, S)
<1>1. AddsUp(sum, own, S)
  BY SumsAreUnits
<1>2. sum[S] = Cardinality(Units(own, S))
  BY <1>1, SumsAreUnits
<1>3. ASSUME NEW it
      PROVE  AddsUp(it, own, S) <=>
                it = [s \in SUBSET S |->
                        IF s = {} THEN 0
                        ELSE shares[CHOOSE e \in s : TRUE].share + it[s \ {CHOOSE e \in s : TRUE}]]
  <2>1. \A s \in SUBSET S :
           s # {} => own[CHOOSE e \in s : TRUE] = shares[CHOOSE e \in s : TRUE].share
    OBVIOUS
  <2>2. QED BY <2>1 DEF AddsUp
<1>4. SumOf(shares, S) = sum[S]
  <2> DEFINE adds(it) == it = [s \in SUBSET S |->
                                 IF s = {} THEN 0
                                 ELSE shares[CHOOSE e \in s : TRUE].share
                                         + it[s \ {CHOOSE e \in s : TRUE}]]
  <2>1. SumOf(shares, S) = (CHOOSE it : adds(it))[S]
    BY DEF SumOf, MapThenSumSet, MapThenFoldSet
  <2>2. \A it : adds(it) <=> AddsUp(it, own, S)
    BY <1>3
  <2> HIDE DEF adds
  <2>3. (CHOOSE it : adds(it)) = sum
    BY <2>2
  <2>4. QED BY <2>1, <2>3
<1>5. QED BY <1>2, <1>4

\* A share in terms of the weight of its class: it is rounded by at most half a
\* unit.
LEMMA ShareIsRounded ==
    ASSUME NEW weight \in Nat, NEW total \in Nat, NEW whole \in Nat \ {0}
    PROVE  LET share == RoundedQuotient(weight * total, whole)
           IN  share \in Nat /\ 2 * whole * share <= 2 * (weight * total) + whole
<1>1. PICK n \in Nat : n = weight * total
  OBVIOUS
<1>2. PICK m \in Nat : m = 2 * n + whole
  OBVIOUS
<1>3. PICK d \in Nat \ {0} : d = 2 * whole
  OBVIOUS
<1>4. RoundedQuotient(weight * total, whole) = m \div d
  BY <1>1, <1>2, <1>3 DEF RoundedQuotient
<1>5. m = d * (m \div d) + (m % d) /\ 0 <= m % d /\ m \div d \in Nat
  OBVIOUS
<1>6. d * (m \div d) <= m
  BY <1>5
<1>7. QED BY <1>1, <1>2, <1>3, <1>4, <1>5, <1>6

\* The apps' shares add up to what their weights do, but for the rounding.
LEMMA SharesAddUp ==
    ASSUME NEW apps, IsFiniteSet(apps), NEW whole \in Nat \ {0}, NEW total \in Nat,
           NEW weight, NEW own,
           \A a \in apps : /\ weight[a] \in Nat /\ own[a] \in Nat
                           /\ 2 * whole * own[a] <= 2 * (weight[a] * total) + whole
    PROVE  2 * whole * Cardinality(Units(own, apps))
              <= 2 * (Cardinality(Units(weight, apps)) * total) + whole * Cardinality(apps)
<1> DEFINE size(s) == Cardinality(s)
           shares(s) == Cardinality(Units(own, s))
           weights(s) == Cardinality(Units(weight, s))
           fits(s) == 2 * whole * shares(s) <= 2 * (weights(s) * total) + whole * size(s)
           Good == {s \in SUBSET apps : fits(s)}
<1>1. /\ shares({}) = 0 /\ weights({}) = 0
      /\ \A s \in SUBSET apps : shares(s) \in Nat /\ weights(s) \in Nat
      /\ \A s \in SUBSET apps : \A e \in s : shares(s) = own[e] + shares(s \ {e})
      /\ \A s \in SUBSET apps : \A e \in s : weights(s) = weight[e] + weights(s \ {e})
  <2>1. (\A a \in apps : own[a] \in Nat) /\ (\A a \in apps : weight[a] \in Nat)
    OBVIOUS
  <2>2. /\ shares({}) = 0 /\ \A s \in SUBSET apps : shares(s) \in Nat
        /\ \A s \in SUBSET apps : \A e \in s : shares(s) = own[e] + shares(s \ {e})
    <3>1. ASSUME NEW n, \A a \in apps : n[a] \in Nat
          PROVE  /\ Cardinality(Units(n, {})) = 0
                 /\ \A s \in SUBSET apps : Cardinality(Units(n, s)) \in Nat
                 /\ \A s \in SUBSET apps : \A e \in s :
                       Cardinality(Units(n, s)) = n[e] + Cardinality(Units(n, s \ {e}))
      BY ONLY <3>1, IsFiniteSet(apps), UnitsAreFinite
    <3>2. QED BY ONLY <2>1, <3>1
  <2>3. /\ weights({}) = 0 /\ \A s \in SUBSET apps : weights(s) \in Nat
        /\ \A s \in SUBSET apps : \A e \in s : weights(s) = weight[e] + weights(s \ {e})
    BY <2>1, UnitsAreFinite
  <2>4. QED BY <2>2, <2>3
<1>2. /\ size({}) = 0
      /\ \A s \in SUBSET apps : size(s) \in Nat
      /\ \A s \in SUBSET apps : \A e \in s : size(s) = 1 + size(s \ {e})
  <2>1. \A s \in SUBSET apps : IsFiniteSet(s) /\ size(s) \in Nat
    BY FS_Subset, FS_CardinalityType
  <2>2. \A s \in SUBSET apps : \A e \in s : size(s \ {e}) = size(s) - 1
    BY <2>1, FS_RemoveElement
  <2>3. ASSUME NEW s \in SUBSET apps, NEW e \in s
        PROVE  size(s) = 1 + size(s \ {e})
    <3>1. size(s) \in Nat /\ size(s \ {e}) = size(s) - 1
      BY <2>1, <2>2
    <3> HIDE DEF size
    <3>2. QED BY <3>1
  <2>4. QED BY <2>1, <2>3, FS_EmptySet
<1> HIDE DEF size, shares, weights
<1>3. {} \in Good
  BY <1>1, <1>2
<1>4. ASSUME NEW s \in SUBSET apps, s # {}, \A e \in s : s \ {e} \in Good
      PROVE  s \in Good
  <2>1. PICK e \in s : TRUE
    BY <1>4
  <2>2. PICK r \in Nat, w \in Nat, n \in Nat :
           r = shares(s \ {e}) /\ w = weights(s \ {e}) /\ n = size(s \ {e})
    BY <1>1, <1>2
  <2>3. PICK o \in Nat, v \in Nat : o = own[e] /\ v = weight[e]
    OBVIOUS
  <2>4. 2 * whole * r <= 2 * (w * total) + whole * n
    BY <1>4, <2>2
  <2>5. 2 * whole * o <= 2 * (v * total) + whole
    BY <2>3
  <2>6. shares(s) = o + r /\ weights(s) = v + w /\ size(s) = 1 + n
    BY <1>1, <1>2, <2>2, <2>3
  <2>7. /\ 2 * whole * (o + r) = 2 * whole * o + 2 * whole * r
        /\ (v + w) * total = v * total + w * total
        /\ whole * (1 + n) = whole + whole * n
    OBVIOUS
  <2>8. 2 * whole * (o + r) <= 2 * ((v + w) * total) + whole * (1 + n)
    <3>1. /\ v * total \in Int /\ w * total \in Int /\ whole * n \in Int
          /\ 2 * whole * o \in Int /\ 2 * whole * r \in Int
      OBVIOUS
    <3>2. QED BY <2>4, <2>5, <2>7, <3>1
  <2>9. fits(s)
    BY <2>6, <2>8
  <2>10. QED BY <2>9
<1> HIDE DEF Good
<1>5. SUBSET apps \subseteq Good
  BY <1>3, <1>4, SubsetsAreGood
<1>6. fits(apps)
  BY <1>5 DEF Good
<1>7. QED BY <1>6 DEF size, shares, weights

\* The shares of a map fit the total they are computed from.
LEMMA SharesFit ==
    ASSUME NEW map \in PriorityMap, NEW total \in Nat \ {0},
           NEW shares, shares = Shares(map, total)
    PROVE  /\ \A a \in DOMAIN shares : shares[a].share \in Nat
           /\ 2 * SumOf(shares, DOMAIN shares) <= 2 * total + Cardinality(DOMAIN shares)
<1> DEFINE apps == DOMAIN map
           asked == TotalOf(map)
           whole == IF asked > 1000 THEN asked ELSE 1000
           weight == [a \in apps |-> Permille[map[a]]]
           own == [a \in apps |-> shares[a].share]
<1>1. apps \subseteq App /\ IsFiniteSet(apps) /\ DOMAIN shares = apps
  BY SharesType, AppAssumption, FS_Subset
<1>2. \A a \in apps : weight[a] = Permille[map[a]] /\ weight[a] \in Nat
  <2>1. \A a \in apps : map[a] \in DOMAIN Permille
    BY DEF PriorityMap
  <2>2. \A c \in DOMAIN Permille : Permille[c] \in Nat
    BY DEF Permille
  <2>3. QED BY <2>1, <2>2
<1>3. asked = Cardinality(Units(weight, apps)) /\ asked \in Nat
  <2> HIDE DEF weight
  <2>1. asked = Cardinality(Units(weight, apps))
    BY <1>1, <1>2, TotalsAreUnits
  <2>2. QED BY <1>1, <1>2, <2>1, UnitsAreFinite
<1>4. whole \in Nat \ {0} /\ asked <= whole
  BY <1>3
<1>5. \A a \in apps : shares[a].share = RoundedQuotient(weight[a] * total, whole)
  BY DEF Shares
<1> HIDE DEF asked, whole, weight
<1>6. \A a \in apps : /\ own[a] = shares[a].share /\ own[a] \in Nat
                      /\ 2 * whole * own[a] <= 2 * (weight[a] * total) + whole
  <2>1. ASSUME NEW a \in apps
        PROVE  /\ shares[a].share \in Nat
               /\ 2 * whole * shares[a].share <= 2 * (weight[a] * total) + whole
    <3>1. PICK w \in Nat : w = weight[a]
      BY <1>2
    <3>2. LET share == RoundedQuotient(w * total, whole)
          IN  share \in Nat /\ 2 * whole * share <= 2 * (w * total) + whole
      BY <1>4, ShareIsRounded
    <3>3. shares[a].share = RoundedQuotient(w * total, whole)
      BY <1>5, <3>1
    <3>4. QED BY <3>1, <3>2, <3>3
  <2>2. \A a \in apps : own[a] = shares[a].share
    OBVIOUS
  <2>3. QED BY <2>1, <2>2
<1> HIDE DEF own
<1>7. SumOf(shares, apps) = Cardinality(Units(own, apps))
  BY <1>1, <1>6, SharesAreUnits
<1>8. 2 * whole * Cardinality(Units(own, apps))
         <= 2 * (asked * total) + whole * Cardinality(apps)
  BY <1>1, <1>2, <1>3, <1>4, <1>6, SharesAddUp
<1>9. 2 * Cardinality(Units(own, apps)) <= 2 * total + Cardinality(apps)
  <2>1. PICK r \in Nat, n \in Nat, k \in Nat, s \in Nat, w \in Nat \ {0} :
           /\ r = Cardinality(Units(own, apps)) /\ n = Cardinality(apps)
           /\ k = total /\ s = asked /\ w = whole
    <3>1. Cardinality(Units(own, apps)) \in Nat
      BY <1>1, <1>6, UnitsAreFinite
    <3>2. QED BY <1>1, <1>3, <1>4, <3>1, FS_CardinalityType
  <2>2. 2 * w * r <= 2 * (s * k) + w * n /\ s <= w
    BY <1>4, <1>8, <2>1
  <2>3. s * k <= w * k
    BY <2>2
  <2>4. 2 * w * r <= 2 * (w * k) + w * n
    BY <2>2, <2>3
  <2>5. w * (2 * r) <= w * (2 * k + n)
    <3>1. w * (2 * r) = 2 * w * r /\ w * (2 * k + n) = 2 * (w * k) + w * n
      OBVIOUS
    <3>2. QED BY <2>4, <3>1
  <2>6. 2 * r <= 2 * k + n
    <3>1. PICK x \in Nat, y \in Nat : x = 2 * r /\ y = 2 * k + n
      OBVIOUS
    <3>2. w * x <= w * y
      BY <2>5, <3>1
    <3>3. x <= y
      BY <3>2
    <3>4. QED BY <3>1, <3>3
  <2>7. QED BY <2>1, <2>6
<1>10. QED BY <1>1, <1>6, <1>7, <1>9

\* Every enforcement, and the record of the last one, has the shares that some
\* map gives of its own total.
Worth(shares, total) ==
    total \in Nat \ {0} /\ \E map \in PriorityMap : shares = Shares(map, total)

SharesInHand ==
    /\ \A t \in Thread : Enforcing(t) => Worth(task[t].shares, task[t].total)
    /\ settled # 0 => Worth(active, settled)

LEMMA InHandNext ==
    ASSUME QosInv, SharesInHand, [Next]_qosVars
    PROVE  SharesInHand'
<1>0. HostTypeOK /\ priorities \in [User -> PriorityMap] /\ task \in [Thread -> Task]
  BY DEF QosInv, EnforcerInv, HostTypeOK
<1>1. ASSUME NEW t \in Thread, NEW map \in PriorityMap, NEW total \in Nat \ {0},
             Enforce(t, map, total)
      PROVE  SharesInHand'
  <2>1. /\ settled' = 0
        /\ task'[t].shares = Shares(map, total) /\ task'[t].total = total
        /\ \A x \in Thread \ {t} :
              IF Enforcing(x)
              THEN task'[x].shares = task[x].shares /\ task'[x].total = task[x].total
              ELSE task'[x] = task[x]
    <3>1. settled' = 0
      BY <1>1 DEF Enforce
    <3>2. QED BY <1>0, <1>1, <3>1, EnforceTask
  <2>2. ASSUME NEW x \in Thread, Enforcing(x)'
        PROVE  Worth(task'[x].shares, task'[x].total)
    BY <2>1, <2>2 DEF SharesInHand, Enforcing, Worth
  <2>3. QED BY <2>1, <2>2 DEF SharesInHand, Worth
<1>2. ASSUME NEW t \in Thread, task[t].step \in EnforceSteps,
             NEW todo \in SUBSET Slots(App), NEW exact \in BOOLEAN,
             Creating(t, todo, exact), UNCHANGED priorityVars
      PROVE  SharesInHand'
  <2>1. /\ task'[t].shares = task[t].shares /\ task'[t].total = task[t].total
        /\ \A x \in Thread \ {t} : task'[x] = task[x]
    BY <1>0, <1>2, CreatingTask
  <2>2. Enforcing(t)
    BY <1>2 DEF Enforcing, EnforceSteps
  <2>3. QED BY <1>2, <2>1, <2>2 DEF SharesInHand, Enforcing, Worth, priorityVars
<1>3. ASSUME NEW t \in Thread, RecordAllocations(t)
      PROVE  SharesInHand'
  <2>1. /\ task'[t].step = "idle" /\ \A x \in Thread \ {t} : task'[x] = task[x]
        /\ active' = task[t].shares /\ settled' \in {0, task[t].total}
        /\ Enforcing(t)
    BY <1>0, <1>3, IdleTask, GotoTask DEF RecordAllocations, Enforcing
  <2>2. QED BY <2>1 DEF SharesInHand, Enforcing, Worth
<1>4. ASSUME NEW t \in Thread, task[t].step \in EnforceSteps
      PROVE  /\ task[t].todo \in SUBSET Slots(App)
             /\ \A works \in BOOLEAN : (task[t].exact /\ works) \in BOOLEAN
  BY <1>0, <1>4, RulesTyped, TaskShape
<1>5. ASSUME NEW t \in Thread, PriorityStep(t)
      PROVE  SharesInHand'
  <2>1. ASSUME NEW u \in User, NEW s \in Setting, SetPriorities(t, u, s[1], s[2])
        PROVE  SharesInHand'
    <3>1. s[1] \in PriorityMap /\ TotalOr(s[2]) \in Nat \ {0}
      BY SettingAssumption, TotalType
    <3>2. QED BY <1>1, <2>1, <3>1 DEF SetPriorities
  <2>2. ASSUME NEW u \in User, NEW a \in App, RemoveAppPriority(t, u, a)
        PROVE  SharesInHand'
    <3>1. [x \in DOMAIN priorities[u] \ {a} |-> priorities[u][x]] \in PriorityMap
      BY <1>0, LessType
    <3>2. QED BY <1>1, <2>2, <3>1, LinkAssumption DEF RemoveAppPriority
  <2>3. ASSUME NEW u \in User, ResetAll(t, u)
        PROVE  SharesInHand'
    BY <1>1, <2>3, NothingType, LinkAssumption DEF ResetAll
  <2>4. ASSUME NEW works \in BOOLEAN, ClearPolicies(t, works)
        PROVE  SharesInHand'
    BY <1>2, <1>4, <2>4 DEF ClearPolicies, EnforceSteps
  <2>5. ASSUME NEW slot \in Slots(App), NEW works \in BOOLEAN, CreatePolicy(t, slot, works)
        PROVE  SharesInHand'
    <3>1. task[t].step \in EnforceSteps
      BY <2>5 DEF CreatePolicy, EnforceSteps
    <3>2. task[t].todo \ {slot} \in SUBSET Slots(App)
      BY <1>4, <3>1
    <3>3. /\ Creating(t, task[t].todo \ {slot}, task[t].exact /\ works)
          /\ UNCHANGED priorityVars
      BY <2>5 DEF CreatePolicy
    <3>4. QED BY <1>2, <1>4, <3>1, <3>2, <3>3
  <2>6. QED BY <1>3, <1>5, <2>1, <2>2, <2>3, <2>4, <2>5 DEF PriorityStep
<1>6. ASSUME NEW t \in Thread, DegraderStep(t), UNCHANGED priorityVars
      PROVE  SharesInHand'
  <2>1. /\ task[t].step \in DegradeSteps \cup {"idle"}
        /\ task'[t].step \in DegradeSteps \cup {"idle"}
        /\ \A x \in Thread \ {t} : task'[x] = task[x]
    BY <1>0, <1>6, DegraderTypes
  <2>2. ~Enforcing(t)'
    BY <2>1 DEF Enforcing, DegradeSteps, ApplySteps, RemoveSteps
  <2>3. QED BY <1>6, <2>1, <2>2 DEF SharesInHand, Enforcing, Worth, priorityVars
<1>7. CASE Restart
  <2>1. settled' = 0 /\ \A t \in Thread : ~Enforcing(t)'
    BY <1>7, IdleTask DEF Restart, PriorityRestart, Enforcing
  <2>2. QED BY <2>1 DEF SharesInHand
<1>8. CASE UNCHANGED qosVars
  BY <1>8 DEF SharesInHand, Enforcing, Worth, qosVars, priorityVars
<1>9. QED BY <1>5, <1>6, <1>7, <1>8 DEF Next

\* Whatever the apps, their classes, the users and the totals they ask for, the
\* shares of an undisturbed enforcement exceed its own total by their rounding at
\* most, and every policy made of them has a rate.
THEOREM SharesFitTotal == Spec => []SharesFitTheTotal
<1>1. Init => SharesInHand
  BY IdleTask DEF Init, HostInit, PriorityInit, SharesInHand, Enforcing
<1>2. QosInv /\ SharesInHand /\ [Next]_qosVars => SharesInHand'
  BY InHandNext
<1>3. QosInv /\ SharesInHand => SharesFitTheTotal
  <2> SUFFICES ASSUME QosInv, SharesInHand, settled # 0
               PROVE  /\ 2 * MapThenSumSet(LAMBDA a : active[a].share, DOMAIN active)
                            <= 2 * settled + Cardinality(DOMAIN active)
                      /\ \A p \in appPolicies : p.rate > 0
    BY DEF SharesFitTheTotal
  <2>1. PICK map \in PriorityMap : active = Shares(map, settled)
    BY DEF SharesInHand, Worth
  <2>2. settled \in Nat \ {0}
    BY DEF SharesInHand, Worth
  <2>3. /\ \A a \in DOMAIN active : active[a].share \in Nat
        /\ 2 * SumOf(active, DOMAIN active) <= 2 * settled + Cardinality(DOMAIN active)
    BY <2>1, <2>2, SharesFit
  <2>4. ASSUME NEW p \in appPolicies
        PROVE  p.rate > 0
    <3>1. PICK slot \in Slots(DOMAIN active) : p = PolicyOf(slot, active)
      BY DEF QosInv, EnforcerInv, SettledIsEnforced
    <3>2. slot[1] \in DOMAIN active
      BY DEF Slots
    <3>3. p.rate = RateOf(active[slot[1]])
      BY <3>1 DEF PolicyOf
    <3>4. QED BY <2>3, <3>2, <3>3 DEF RateOf
  <2>5. SumOf(active, DOMAIN active) = MapThenSumSet(LAMBDA a : active[a].share, DOMAIN active)
    BY DEF SumOf
  <2>6. QED BY <2>3, <2>4, <2>5
<1>4. QED BY <1>1, <1>2, <1>3, QosInvariant, PTL DEF Spec

=============================================================================
