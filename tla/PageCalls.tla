----------------------------- MODULE PageCalls ------------------------------
(***************************************************************************)
(* The calls a web page has under way (frontend/src/services/api.ts and    *)
(* utils/apiClient.ts).  Calls are independent of each other: they reach   *)
(* the server, and their answers the page, in any order.  A call may be    *)
(* lost, and a call the page has given up (the axios client's after ten    *)
(* seconds) may still be carried out.                                      *)
(*                                                                         *)
(* A slot stands for one call under way.  Timers poll in slots of their    *)
(* own.  The redirection after a 401 ends the page and is left out.        *)
(***************************************************************************)
EXTENDS Naturals, FiniteSets, Sequences

CONSTANTS
    UserSlot,       \* bound: calls under way that users and their answers make
    PollSlot,       \* bound: calls under way that timers make
    MaxFailures     \* bound: calls that fail in one behaviour

ASSUME SlotAssumption ==
    UserSlot \subseteq Nat /\ PollSlot \subseteq Nat /\ UserSlot \cap PollSlot = {}

VARIABLES
    calls,          \* the call in each slot
    failures,       \* history: the calls that have failed
    mounted         \* the effects of the page's first rendering have run

callVars == <<calls, failures, mounted>>

Slot == UserSlot \cup PollSlot

NoCall == [stage |-> "none"]

\* `arg` is a record, By(...) for a call that carries nothing.
By(whom) == [by |-> whom]

Request(op, arg) == [op |-> op, arg |-> arg, stage |-> "sent"]

CallsInit ==
    /\ calls = [s \in Slot |-> NoCall]
    /\ failures = 0
    /\ mounted = FALSE

Under(s, op, stages) == calls[s].stage \in stages /\ calls[s].op = op

\* The free slot that comes first; which one a call has does not matter.
FirstFree(s) ==
    LET like == IF s \in UserSlot THEN UserSlot ELSE PollSlot
    IN  /\ calls[s] = NoCall
        /\ \A other \in like : other < s => calls[other] # NoCall

\* A page sends a call, and no other changes.
Sends(s, op, arg) ==
    /\ FirstFree(s)
    /\ calls' = [calls EXCEPT ![s] = Request(op, arg)]
    /\ UNCHANGED <<failures, mounted>>

NoSends == UNCHANGED callVars

\* The server's side: a call that is there for `op`, and its end.  The answer
\* to a call given up reaches nobody.
Serving(s, op) == Under(s, op, {"sent", "abandoned"})

Replies(s, ok, answer) ==
    /\ calls' = [calls EXCEPT ![s] =
          IF @.stage = "abandoned" THEN NoCall
          ELSE [op |-> @.op, arg |-> @.arg, stage |-> "answered", ok |-> ok, answer |-> answer]]
    /\ UNCHANGED <<failures, mounted>>

\* The promise is resolved: the page goes on, with another call or none.
Resolving(s, op) == Under(s, op, {"answered"}) /\ calls[s].ok

GoesOn(s, next) ==
    /\ calls' = [calls EXCEPT ![s] = next]
    /\ UNCHANGED <<failures, mounted>>

\* The promise is rejected: an error status; or a call that is lost on its way
\* or on the way back, or given up.
Refused(s, op) == Under(s, op, {"answered"}) /\ ~calls[s].ok

Lost(s, op) == Under(s, op, {"sent", "answered"}) /\ failures < MaxFailures

RejectsInto(s, op, next) ==
    /\ UNCHANGED mounted
    /\ \/ /\ Refused(s, op)
          /\ calls' = [calls EXCEPT ![s] = next]
          /\ UNCHANGED failures
       \/ /\ Lost(s, op)
          /\ failures' = failures + 1
          /\ \/ calls' = [calls EXCEPT ![s] = next]
             \/ /\ calls[s].stage = "sent" /\ next = NoCall
                /\ calls' = [calls EXCEPT ![s].stage = "abandoned"]

Rejects(s, op) == RejectsInto(s, op, NoCall)

Mounts(s, op) ==
    /\ ~mounted
    /\ mounted' = TRUE
    /\ FirstFree(s)
    /\ calls' = [calls EXCEPT ![s] = Request(op, By("mount"))]
    /\ UNCHANGED failures

=============================================================================
