------------------------------ MODULE AuditLog ------------------------------
(***************************************************************************)
(* server/audit.py: the bounded log whose entries are chained by checksums *)
(* and the check of that chain.  log_event is called from the event loop   *)
(* only, so each call is one step.                                         *)
(*                                                                         *)
(* A SHA-256 digest is taken to be injective: the checksum of an entry is  *)
(* the sequence of everything hashed so far.  An entry's fields are one    *)
(* value, its event; its uuid is its place in that sequence.               *)
(***************************************************************************)
EXTENDS Naturals, Sequences

CONSTANTS
    Event,          \* what callers log: type, actor and details
    MaxLog,         \* maxlen of the deque (10000 in the code)
    MaxLogged       \* bound: entries written by one process

ASSUME MaxLogAssumption == MaxLog \in Nat \ {0}
ASSUME MaxLoggedAssumption == MaxLogged \in Nat

VARIABLES
    log,            \* _audit_log, the oldest entry first
    lastChecksum,   \* _last_checksum
    logged          \* history: what this process has logged, evicted or not

auditVars == <<log, lastChecksum, logged>>

Checksums == Seq(Event)
AuditEntry == [event : Event, prev : Checksums, checksum : Checksums]

Genesis == <<>>

ComputeChecksum(event, prev) == Append(prev, event)

AuditTypeOK ==
    /\ log \in Seq(AuditEntry)
    /\ Len(log) <= MaxLog
    /\ lastChecksum \in Checksums
    /\ logged \in Seq(Event)

-----------------------------------------------------------------------------

AuditInit == log = <<>> /\ lastChecksum = Genesis /\ logged = <<>>

\* append to a deque of length MaxLog drops its head.
Push(entry) ==
    IF Len(log) = MaxLog THEN Append(Tail(log), entry) ELSE Append(log, entry)

\* Faulty variant: the chain is not carried on.
LogEventUnchained(event) ==
    /\ Len(logged) < MaxLogged
    /\ log' = Push([event |-> event, prev |-> lastChecksum,
                    checksum |-> ComputeChecksum(event, lastChecksum)])
    /\ logged' = Append(logged, event)
    /\ UNCHANGED lastChecksum

LogEvent(event) ==
    LET checksum == ComputeChecksum(event, lastChecksum)
    IN  /\ Len(logged) < MaxLogged
        /\ log' = Push([event |-> event, prev |-> lastChecksum, checksum |-> checksum])
        /\ lastChecksum' = checksum
        /\ logged' = Append(logged, event)

\* A restart starts an empty log with the server's own entry.
AuditRestart(event) ==
    LET checksum == ComputeChecksum(event, Genesis)
    IN  /\ log' = <<[event |-> event, prev |-> Genesis, checksum |-> checksum]>>
        /\ lastChecksum' = checksum
        /\ logged' = <<event>>

-----------------------------------------------------------------------------
\* Readers.

PrevChecksum(entries, i) == IF i = 1 THEN Genesis ELSE entries[i - 1].checksum

\* The places verify_integrity reports: the recomputed checksum differs, or
\* the entry does not name its predecessor.
Errors(entries) ==
    {i \in 1..Len(entries) :
        \/ entries[i].checksum #
               ComputeChecksum(entries[i].event, PrevChecksum(entries, i))
        \/ entries[i].prev # PrevChecksum(entries, i)}

-----------------------------------------------------------------------------
\* Properties.

\* The log holds the last entries of this process, in order: nothing a restart
\* or the eviction leaves is older, doubled or out of place.
LogIsSuffix ==
    /\ lastChecksum = logged
    /\ Len(log) <= Len(logged)
    /\ \A i \in 1..Len(log) :
          LET n == Len(logged) - Len(log) + i
          IN  log[i] = [event |-> logged[n],
                        prev |-> SubSeq(logged, 1, n - 1),
                        checksum |-> SubSeq(logged, 1, n)]

\* verify_integrity starts from "genesis" whatever has been evicted: an intact
\* log is reported as broken exactly when it has lost its oldest entry to its
\* bound, and then at the first entry only.
AlarmMeansEviction ==
    Errors(log) = IF Len(logged) > MaxLog THEN {1} ELSE {}

=============================================================================
