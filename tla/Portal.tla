------------------------------- MODULE Portal -------------------------------
(***************************************************************************)
(* The customer portal: the routers billing, tickets, lstm_control,        *)
(* profile and admin_portal of server/routers over the tables of           *)
(* server/db.py.  A handler runs its statements on the event loop and      *)
(* commits once, so a request is one step.                                 *)
(*                                                                         *)
(* A handler trusts the claims of a token: no table need hold its subject, *)
(* and no foreign key asks for one.  Rows that only readers tell apart     *)
(* (invoices, sites, the texts of a ticket or a profile) are left out, and *)
(* so are the seeded tickets and inactive configurations.                  *)
(***************************************************************************)
EXTENDS Naturals, FiniteSets, FiniteSetsExt

CONSTANTS
    Subject,        \* subjects of tokens with a role that require_user accepts
    Admin,          \* subjects of tokens with the role SUPER_ADMIN
    AppUser,        \* ids of app_users
    Plan,           \* PLANS: a function from plan ids to monthly prices
    SubId,          \* ids of subscriptions, a uuid each
    TicketId,       \* ids of tickets, a uuid each
    ModelId,        \* ids of LSTM configurations
    SeedSubs,       \* the seeded rows of subscriptions, one for each customer
    SeedModel       \* the seeded configuration that is active

ASSUME AdminAssumption == Admin \subseteq Subject
ASSUME UserAssumption == IsFiniteSet(Subject \cup AppUser)
ASSUME PlanAssumption ==
    IsFiniteSet(DOMAIN Plan) /\ \A plan \in DOMAIN Plan : Plan[plan] \in Nat
ASSUME SeedModelAssumption == SeedModel \in ModelId

VARIABLES
    subscriptions,  \* rows of subscriptions
    tickets,        \* rows of support_tickets
    models          \* is_active of the rows of lstm_model_configs

portalVars == <<subscriptions, tickets, models>>

Subscription == [id : SubId, user : Subject \cup AppUser, plan : DOMAIN Plan,
                 status : {"active", "cancelled"}]

Nobody == "nobody"
TicketStatus == {"open", "in_progress", "resolved"}
Ticket == [id : TicketId, user : Subject, status : TicketStatus,
           resolvedBy : Admin \cup {Nobody}]

ASSUME SeedSubsAssumption ==
    /\ SeedSubs \subseteq Subscription
    /\ \A s, t \in SeedSubs : s.user = t.user \/ s.id = t.id => s = t

PortalTypeOK ==
    /\ subscriptions \subseteq Subscription
    /\ tickets \subseteq Ticket
    /\ models \subseteq [id : ModelId, active : BOOLEAN]

-----------------------------------------------------------------------------

PortalInit ==
    /\ subscriptions = SeedSubs
    /\ tickets = {}
    /\ models = {[id |-> SeedModel, active |-> TRUE]}

ActiveOf(rows, user) == {s \in rows : s.user = user /\ s.status = "active"}

Cancelled(user) ==
    {IF s \in ActiveOf(subscriptions, user) THEN [s EXCEPT !.status = "cancelled"] ELSE s :
        s \in subscriptions}

\* Faulty variant: the plan in force is not cancelled.
UpgradeWithoutCancel(user, plan, id) ==
    /\ \A s \in subscriptions : s.id # id
    /\ subscriptions' = subscriptions \cup
          {[id |-> id, user |-> user, plan |-> plan, status |-> "active"]}
    /\ UNCHANGED <<tickets, models>>

Upgrade(user, plan, id) ==
    /\ \A s \in subscriptions : s.id # id
    /\ subscriptions' = Cancelled(user) \cup
          {[id |-> id, user |-> user, plan |-> plan, status |-> "active"]}
    /\ UNCHANGED <<tickets, models>>

CancelSubscription(user) ==
    /\ subscriptions' = Cancelled(user)
    /\ UNCHANGED <<tickets, models>>

CreateTicket(user, id) ==
    /\ \A t \in tickets : t.id # id
    /\ tickets' = tickets \cup
          {[id |-> id, user |-> user, status |-> "open", resolvedBy |-> Nobody]}
    /\ UNCHANGED <<subscriptions, models>>

\* Any answer names its author as resolved_by, whatever status it leaves.
RespondTicket(admin, t, status) ==
    /\ tickets' = (tickets \ {t}) \cup {[t EXCEPT !.status = status, !.resolvedBy = admin]}
    /\ UNCHANGED <<subscriptions, models>>

CreateModel(id) ==
    /\ \A m \in models : m.id # id
    /\ models' = models \cup {[id |-> id, active |-> FALSE]}
    /\ UNCHANGED <<subscriptions, tickets>>

\* Deactivate all, activate one; an unknown id is answered 404 before that.
ActivateModel(id) ==
    /\ \E m \in models : m.id = id
    /\ models' = {[m EXCEPT !.active = (m.id = id)] : m \in models}
    /\ UNCHANGED <<subscriptions, tickets>>

PortalNext ==
    \/ \E user \in Subject, plan \in DOMAIN Plan, id \in SubId : Upgrade(user, plan, id)
    \/ \E user \in Subject : CancelSubscription(user)
    \/ \E user \in Subject, id \in TicketId : CreateTicket(user, id)
    \/ \E admin \in Admin, t \in tickets, status \in TicketStatus :
          RespondTicket(admin, t, status)
    \/ \E id \in ModelId : CreateModel(id)
    \/ \E id \in ModelId : ActivateModel(id)

PortalSpec == PortalInit /\ [][PortalNext]_portalVars

-----------------------------------------------------------------------------
\* Readers.

PriceOf(s) == Plan[s.plan]

\* The subscription an account is shown on its billing and profile pages: one
\* active row (the latest, were there several), or none.
Shown(user) == {CHOOSE s \in ActiveOf(subscriptions, user) : TRUE}
ShownPrice(user) ==
    IF ActiveOf(subscriptions, user) = {} THEN 0 ELSE MapThenSumSet(PriceOf, Shown(user))

\* total_mrr of the revenue page and mrr of the platform overview.
MonthlyRevenue ==
    MapThenSumSet(PriceOf, {s \in subscriptions : s.status = "active"})

\* The revenue page's by_plan.
RevenueOf(plan) ==
    MapThenSumSet(PriceOf, {s \in subscriptions : s.status = "active" /\ s.plan = plan})

\* The configurations a retraining or a change of hyperparameters without a
\* model id may pick.
ActiveModels == {m \in models : m.active}

-----------------------------------------------------------------------------
\* Properties.

\* However upgrades and cancellations follow each other, a customer has at most
\* one plan in force.
OnePlanEach ==
    \A s, t \in subscriptions :
        s.user = t.user /\ s.status = "active" /\ t.status = "active" => s = t

\* The revenue the administrator is shown is what the accounts are shown to
\* pay, in all and plan by plan: no row is counted for a plan its owner has
\* left, none is missing.
RevenueIsWhatIsShown ==
    /\ MonthlyRevenue = MapThenSumSet(ShownPrice, Subject \cup AppUser)
    /\ MonthlyRevenue = MapThenSumSet(RevenueOf, DOMAIN Plan)

\* Exactly one configuration is active, whatever ids are activated, so a
\* retraining or a change of hyperparameters always finds its target.
OneActiveModel == Cardinality(ActiveModels) = 1

=============================================================================
