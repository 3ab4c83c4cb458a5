---------------------------- MODULE DigitalTwin ----------------------------
(***************************************************************************)
(* services/digital-twin: one loop reads the stream of validation requests *)
(* behind its own cursor, builds the virtual network of each request, runs *)
(* Batfish and then pings on it, and stores a report.  The cursor is local *)
(* to the process: after a crash the stream is read from its start.        *)
(*                                                                         *)
(* A request is its place in the stream; those after MaxRequests are not   *)
(* followed.  What Batfish and the pings find is external: any outcome.    *)
(* The producers of this repository write JSON; the stream is open to      *)
(* others, whose requests may be malformed.                                *)
(***************************************************************************)
EXTENDS Naturals

CONSTANTS
    MaxRequests,    \* bound: requests of the stream that are followed
    MaxTroubles     \* bound: crashes, malformed requests, and calls that go wrong

ASSUME TwinBounds == MaxRequests \in Nat /\ MaxTroubles \in Nat

VARIABLES
    requests,       \* how many entries the stream sandbox:requests has
    lastId,         \* the cursor of the loop, 0 before the first entry
    busy,           \* the entry at the cursor is being validated
    reports,        \* sandbox:report:<id>, NoReport where there is none
    malformed,      \* entries whose traffic_classes or topology_override is not JSON
    refused,        \* entries whose report the store did not take
    troubles        \* bookkeeping of MaxTroubles

twinLoop == <<lastId, busy>>
twinVars == <<requests, malformed, twinLoop, reports, refused>>

Followed == 1..MaxRequests
NoReport == "none"
Verdicts == {"pass", "fail", "error"}

DigitalTwinInit ==
    /\ requests = 0
    /\ lastId = 0 /\ busy = FALSE
    /\ reports = [i \in Followed |-> NoReport]
    /\ malformed = {} /\ refused = {} /\ troubles = 0

Trouble == troubles < MaxTroubles /\ troubles' = troubles + 1

\* Another service adds a request to the stream.
Submitted == IF requests < MaxRequests THEN requests + 1 ELSE requests

\* The gateway's /validate: add a request and answer "pending".
ValidateInSandbox ==
    /\ requests < MaxRequests
    /\ requests' = Submitted
    /\ UNCHANGED <<malformed, twinLoop, reports, refused, troubles>>

\* A request that is written to the stream by hand.
ForeignRequest ==
    /\ requests < MaxRequests
    /\ Trouble
    /\ requests' = Submitted
    /\ malformed' = malformed \cup {requests'}
    /\ UNCHANGED <<twinLoop, reports, refused>>

\* Faulty variant: the cursor goes to the end of the batch that was read.
ReadBatch ==
    /\ ~busy /\ lastId < requests
    /\ lastId' = requests /\ busy' = TRUE
    /\ UNCHANGED <<requests, malformed, reports, refused, troubles>>

\* The cursor moves to an entry before the entry is handled.
ReadRequest ==
    /\ ~busy /\ lastId < requests
    /\ lastId' = lastId + 1 /\ busy' = TRUE
    /\ UNCHANGED <<requests, malformed, reports, refused, troubles>>

\* The validation and the report of what it finds.  "error": the network cannot
\* be built, Batfish raises, or the store refuses a first report; "fail": a loop,
\* a violated policy, lost pings.  pingAll runs to its end, the limit of 3
\* seconds around it cannot cut it off.  When the store refuses the error report
\* too, the loop goes on behind the entry.
Validate ==
    /\ busy /\ lastId \notin malformed
    /\ busy' = FALSE
    /\ \/ /\ \E v \in Verdicts : reports' = [reports EXCEPT ![lastId] = v]
          /\ UNCHANGED <<refused, troubles>>
       \/ /\ Trouble
          /\ refused' = refused \cup {lastId}
          /\ UNCHANGED reports
    /\ UNCHANGED <<requests, malformed, lastId>>

\* The decision is made up outside of the inner try: the error ends the round,
\* and the next one reads behind the entry, which gets no report.
PassOver ==
    /\ busy /\ lastId \in malformed
    /\ busy' = FALSE
    /\ UNCHANGED <<requests, malformed, lastId, reports, refused, troubles>>

TwinCrash ==
    /\ Trouble
    /\ lastId' = 0 /\ busy' = FALSE
    /\ UNCHANGED <<requests, malformed, reports, refused>>

-----------------------------------------------------------------------------

TwinLoop == ReadRequest \/ Validate \/ PassOver

\* Every well-formed request in the stream is answered in the end with a report,
\* though the process crashes in between and malformed ones come before it,
\* unless the store refused a report of it.
RequestsAreAnswered ==
    \A i \in Followed :
        requests >= i ~> reports[i] # NoReport \/ i \in refused \cup malformed

=============================================================================
