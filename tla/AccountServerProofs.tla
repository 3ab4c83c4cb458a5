------------------------ MODULE AccountServerProofs ------------------------
(***************************************************************************)
(* The records of people, for any accounts, customers, bounds and lengths  *)
(* of the log.  Each property is an invariant of its own part of the       *)
(* state; the other parts leave it alone.                                  *)
(***************************************************************************)
EXTENDS AccountServer, Sums, SequenceTheorems, FiniteSetTheorems, TLAPS

-----------------------------------------------------------------------------
\* The audit log.

\* The log keeps as much of what was logged as it has room for.
AuditInv ==
    /\ AuditTypeOK
    /\ LogIsSuffix
    /\ Len(log) = IF Len(logged) > MaxLog THEN MaxLog ELSE Len(logged)

\* The beginnings of a sequence, before and after an element is appended.
LEMMA Beginnings ==
    ASSUME NEW s \in Seq(Event), NEW e \in Event
    PROVE  /\ SubSeq(s, 1, 0) = <<>>
           /\ \A n \in 0..Len(s) : /\ SubSeq(s, 1, n) \in Seq(Event)
                                   /\ Len(SubSeq(s, 1, n)) = n
                                   /\ SubSeq(Append(s, e), 1, n) = SubSeq(s, 1, n)
           /\ SubSeq(s, 1, Len(s)) = s
           /\ SubSeq(Append(s, e), 1, Len(s) + 1) = Append(s, e)
           /\ \A n \in 1..Len(s) : Append(SubSeq(s, 1, n - 1), s[n]) = SubSeq(s, 1, n)
<1>1. SubSeq(s, 1, 0) = <<>>
  BY SubSeqEmpty
<1>2. ASSUME NEW t \in Seq(Event), NEW n \in 0..Len(t)
      PROVE  /\ SubSeq(t, 1, n) \in Seq(Event) /\ Len(SubSeq(t, 1, n)) = n
             /\ \A i \in 1..n : SubSeq(t, 1, n)[i] = t[i]
  <2>1. n \in Int /\ Len(t) \in Nat /\ \A i \in 1..n : t[i] \in Event
    OBVIOUS
  <2>2. QED BY <2>1, SubSeqProperties
<1>3. /\ Append(s, e) \in Seq(Event) /\ Len(Append(s, e)) = Len(s) + 1 /\ Len(s) \in Nat
      /\ \A i \in 1..Len(s) : Append(s, e)[i] = s[i]
      /\ Append(s, e)[Len(s) + 1] = e
  BY AppendProperties
<1>4. ASSUME NEW t \in Seq(Event) PROVE SubSeq(t, 1, Len(t)) = t
  BY <1>2, SeqEqual
<1>5. ASSUME NEW n \in 0..Len(s) PROVE SubSeq(Append(s, e), 1, n) = SubSeq(s, 1, n)
  <2>1. n \in 0..Len(Append(s, e)) /\ \A i \in 1..n : i \in 1..Len(s)
    BY <1>3
  <2>2. \A i \in 1..n : SubSeq(Append(s, e), 1, n)[i] = SubSeq(s, 1, n)[i]
    BY <1>2, <1>3, <2>1
  <2>3. QED BY <1>2, <1>3, <2>1, <2>2, SeqEqual
<1>6. ASSUME NEW n \in 1..Len(s) PROVE Append(SubSeq(s, 1, n - 1), s[n]) = SubSeq(s, 1, n)
  <2> DEFINE u == SubSeq(s, 1, n - 1)
  <2>1. n - 1 \in 0..Len(s) /\ n \in 0..Len(s) /\ s[n] \in Event
    OBVIOUS
  <2>2. u \in Seq(Event) /\ Len(u) = n - 1 /\ \A i \in 1..n - 1 : u[i] = s[i]
    BY <1>2, <2>1
  <2> HIDE DEF u
  <2>3. /\ Append(u, s[n]) \in Seq(Event) /\ Len(Append(u, s[n])) = n
        /\ \A i \in 1..n - 1 : Append(u, s[n])[i] = s[i]
        /\ Append(u, s[n])[n] = s[n]
    BY <2>1, <2>2, AppendProperties
  <2>4. SubSeq(s, 1, n) \in Seq(Event) /\ Len(SubSeq(s, 1, n)) = n
        /\ \A i \in 1..n : SubSeq(s, 1, n)[i] = s[i]
    BY <1>2, <2>1
  <2>5. \A i \in 1..n : Append(u, s[n])[i] = SubSeq(s, 1, n)[i]
    BY <2>3, <2>4
  <2>6. Append(u, s[n]) = SubSeq(s, 1, n)
    BY <2>3, <2>4, <2>5, SeqEqual
  <2>7. QED BY <2>6 DEF u
<1>7. SubSeq(Append(s, e), 1, Len(s) + 1) = Append(s, e)
  BY <1>3, <1>4
<1>8. QED BY <1>1, <1>2, <1>4, <1>5, <1>6, <1>7

\* The entry of the n-th event.
EntryAt(n) == [event |-> logged[n], prev |-> SubSeq(logged, 1, n - 1),
               checksum |-> SubSeq(logged, 1, n)]

\* The entries of the log are those of the last events.
LEMMA Entries ==
    ASSUME AuditInv
    PROVE  /\ log \in Seq(AuditEntry) /\ Len(log) <= MaxLog /\ logged \in Seq(Event)
           /\ lastChecksum = logged /\ Len(log) <= Len(logged)
           /\ Len(log) \in Nat /\ Len(logged) \in Nat /\ MaxLog \in Nat \ {0}
           /\ \A i \in 1..Len(log) : log[i] = EntryAt(Len(logged) - Len(log) + i)
<1>1. /\ log \in Seq(AuditEntry) /\ Len(log) <= MaxLog /\ logged \in Seq(Event)
      /\ lastChecksum = logged /\ Len(log) <= Len(logged)
  BY DEF AuditInv, AuditTypeOK, LogIsSuffix
<1>2. \A i \in 1..Len(log) : log[i] = EntryAt(Len(logged) - Len(log) + i)
  BY Zenon DEF AuditInv, LogIsSuffix, EntryAt
<1>3. Len(log) \in Nat /\ Len(logged) \in Nat
  BY <1>1
<1>4. QED BY <1>1, <1>2, <1>3, MaxLogAssumption

\* An event is logged.
LEMMA LogEventStep ==
    ASSUME AuditInv, NEW event \in Event, LogEvent(event)
    PROVE  AuditInv'
<1> DEFINE entry == [event |-> event, prev |-> lastChecksum,
                     checksum |-> ComputeChecksum(event, lastChecksum)]
           full == Len(log) = MaxLog
           old == IF full THEN Tail(log) ELSE log
           shift == IF full THEN 1 ELSE 0
           first == Len(logged) - Len(log)
<1>1. /\ log \in Seq(AuditEntry) /\ Len(log) <= MaxLog /\ logged \in Seq(Event)
      /\ lastChecksum = logged /\ Len(log) <= Len(logged)
      /\ Len(log) \in Nat /\ Len(logged) \in Nat /\ MaxLog \in Nat \ {0}
      /\ first \in Nat /\ first + Len(log) = Len(logged)
      /\ \A i \in 1..Len(log) : log[i] = EntryAt(first + i)
  <2>1. first \in Nat /\ first + Len(log) = Len(logged)
    BY Entries
  <2>2. QED BY <2>1, Entries
<1> HIDE DEF first
<1>2. /\ logged' = Append(logged, event) /\ lastChecksum' = logged'
      /\ log' = Append(old, entry)
  BY <1>1 DEF LogEvent, ComputeChecksum, Push
<1>3. /\ logged' \in Seq(Event) /\ Len(logged') = Len(logged) + 1
      /\ \A i \in 1..Len(logged) : logged'[i] = logged[i]
      /\ logged'[Len(logged) + 1] = event
  BY <1>1, <1>2, AppendProperties
<1>4. entry \in AuditEntry
  BY <1>1, <1>2, <1>3 DEF AuditEntry, Checksums, ComputeChecksum
<1>5. /\ old \in Seq(AuditEntry) /\ Len(old) = Len(log) - shift
      /\ \A i \in 1..Len(old) : old[i] = log[i + shift]
  <2>1. CASE full
    <3>1. log # <<>>
      BY <1>1, <2>1
    <3>2. QED BY <1>1, <2>1, <3>1, HeadTailProperties
  <2>2. CASE ~full
    BY <1>1, <2>2
  <2>3. QED BY <2>1, <2>2
<1>6. entry = [event |-> logged'[Len(logged) + 1], prev |-> SubSeq(logged', 1, Len(logged)),
               checksum |-> SubSeq(logged', 1, Len(logged) + 1)]
  <2>1. SubSeq(logged', 1, Len(logged)) = SubSeq(logged, 1, Len(logged))
    BY <1>1, <1>2, Beginnings
  <2>2. SubSeq(logged, 1, Len(logged)) = logged
    BY <1>1, Beginnings
  <2>3. SubSeq(logged', 1, Len(logged) + 1) = logged'
    BY <1>1, <1>2, Beginnings
  <2>4. ComputeChecksum(event, lastChecksum) = logged'
    BY <1>1, <1>2 DEF ComputeChecksum
  <2>5. QED BY <1>1, <1>3, <2>1, <2>2, <2>3, <2>4
<1>0. shift \in {0, 1} /\ (shift = 1 <=> Len(log) = MaxLog)
  OBVIOUS
<1> HIDE DEF entry, old, shift
<1>7. /\ log' \in Seq(AuditEntry) /\ Len(log') = Len(old) + 1
      /\ \A i \in 1..Len(old) : log'[i] = old[i]
      /\ log'[Len(old) + 1] = entry
  BY <1>2, <1>4, <1>5, AppendProperties
<1>8. ASSUME NEW i \in 1..Len(log')
      PROVE  LET n == Len(logged') - Len(log') + i
             IN  log'[i] = [event |-> logged'[n], prev |-> SubSeq(logged', 1, n - 1),
                            checksum |-> SubSeq(logged', 1, n)]
  <2> DEFINE n == Len(logged') - Len(log') + i
  <2>1. Len(log') = Len(log) - shift + 1 /\ Len(old) = Len(log) - shift /\ Len(old) \in Nat
    BY <1>0, <1>1, <1>5, <1>7
  <2>2. n = first + shift + i /\ n \in Nat
    <3>1. Len(logged') - Len(log') = first + shift
      BY <1>0, <1>1, <1>3, <2>1
    <3>2. i \in Nat
      OBVIOUS
    <3>3. (Len(logged') - Len(log')) + i = (first + shift) + i
      BY <3>1
    <3>4. n = (first + shift) + i
      BY <3>3
    <3> HIDE DEF n
    <3>5. first \in Nat /\ shift \in Nat
      BY <1>0, <1>1
    <3>6. QED BY <3>2, <3>4, <3>5
  <2> HIDE DEF n
  <2>3. CASE i = Len(old) + 1
    <3>1. n = Len(logged) + 1
      <4>1. n = first + shift + ((Len(log) - shift) + 1)
        BY <2>1, <2>2, <2>3
      <4>2. first \in Nat /\ Len(log) \in Nat /\ first + Len(log) = Len(logged) /\ shift \in Nat
        BY <1>0, <1>1
      <4>3. QED BY <4>1, <4>2
    <3>2. n - 1 = Len(logged)
      BY <1>1, <3>1
    <3>3. log'[i] = [event |-> logged'[n], prev |-> SubSeq(logged', 1, n - 1),
                     checksum |-> SubSeq(logged', 1, n)]
      BY <1>6, <1>7, <2>3, <3>1, <3>2
    <3>4. QED BY <3>3 DEF n
  <2>4. CASE i # Len(old) + 1
    <3>1. i \in 1..Len(old) /\ i + shift \in 1..Len(log)
      BY <1>0, <1>1, <2>1, <2>4
    <3>2. log'[i] = EntryAt(n)
      <4>1. log'[i] = log[i + shift]
        BY <1>5, <1>7, <3>1
      <4>2. log[i + shift] = EntryAt(first + (i + shift))
        BY <1>1, <3>1
      <4>3. first + (i + shift) = n
        BY <1>0, <1>1, <2>2
      <4>4. QED BY <4>1, <4>2, <4>3
    <3>3. n \in 1..Len(logged) /\ n - 1 \in 0..Len(logged) /\ n \in 0..Len(logged)
      BY <1>0, <1>1, <2>2, <3>1
    <3>4. /\ SubSeq(logged', 1, n - 1) = SubSeq(logged, 1, n - 1)
          /\ SubSeq(logged', 1, n) = SubSeq(logged, 1, n)
          /\ logged'[n] = logged[n]
      BY <1>1, <1>2, <1>3, <3>3, Beginnings
    <3>5. log'[i] = [event |-> logged'[n], prev |-> SubSeq(logged', 1, n - 1),
                     checksum |-> SubSeq(logged', 1, n)]
      BY <3>2, <3>4 DEF EntryAt
    <3>6. QED BY <3>5 DEF n
  <2>5. QED BY <2>3, <2>4
<1>9. Len(log') <= MaxLog /\ Len(log') <= Len(logged')
  BY <1>0, <1>1, <1>3, <1>5, <1>7
<1>10. Len(log') = IF Len(logged') > MaxLog THEN MaxLog ELSE Len(logged')
  <2>1. Len(log) = IF Len(logged) > MaxLog THEN MaxLog ELSE Len(logged)
    BY DEF AuditInv
  <2>2. Len(log') = Len(log) - shift + 1 /\ Len(logged') = Len(logged) + 1
    BY <1>3, <1>5, <1>7
  <2>3. Len(log) \in Nat /\ Len(logged) \in Nat /\ MaxLog \in Nat \ {0}
        /\ Len(log) <= MaxLog /\ Len(log) <= Len(logged)
    BY <1>1
  <2>4. CASE shift = 1
    BY <1>0, <2>1, <2>2, <2>3, <2>4
  <2>5. CASE shift = 0
    BY <1>0, <2>1, <2>2, <2>3, <2>5
  <2>6. QED BY <1>0, <2>4, <2>5
<1>11. AuditTypeOK'
  BY <1>2, <1>3, <1>7, <1>9 DEF AuditTypeOK, Checksums
<1>12. LogIsSuffix'
  BY <1>2, <1>8, <1>9 DEF LogIsSuffix
<1>13. QED BY <1>10, <1>11, <1>12 DEF AuditInv

\* The log of one event.
LEMMA OneEntry ==
    ASSUME NEW event \in Event
    PROVE  /\ <<event>> \in Seq(Event) /\ Len(<<event>>) = 1
           /\ ComputeChecksum(event, Genesis) = <<event>>
           /\ SubSeq(<<event>>, 1, 0) = <<>> /\ SubSeq(<<event>>, 1, 1) = <<event>>
<1>1. <<event>> \in Seq(Event) /\ Len(<<event>>) = 1
  OBVIOUS
<1>2. ComputeChecksum(event, Genesis) = <<event>>
  BY DEF ComputeChecksum, Genesis
<1>3. SubSeq(<<event>>, 1, 0) = <<>> /\ SubSeq(<<event>>, 1, Len(<<event>>)) = <<event>>
  BY <1>1, Beginnings
<1>4. QED BY <1>1, <1>2, <1>3

\* The log as the server's first entry leaves it.
FirstEntry(event) ==
    /\ log = <<[event |-> event, prev |-> Genesis,
                checksum |-> ComputeChecksum(event, Genesis)]>>
    /\ lastChecksum = ComputeChecksum(event, Genesis)
    /\ logged = <<event>>

LEMMA AuditStart == FirstEntry(Started) => AuditInv
<1> DEFINE event == Started
<1> SUFFICES ASSUME FirstEntry(Started) PROVE AuditInv
  OBVIOUS
<1> USE DEF FirstEntry
<1> HIDE DEF event
<1>0. event \in Event /\ FirstEntry(event)
  BY EventAssumption DEF event
<1>1. /\ <<event>> \in Seq(Event) /\ Len(logged) = 1 /\ logged[1] = event
      /\ lastChecksum = logged
      /\ SubSeq(logged, 1, 0) = <<>> /\ SubSeq(logged, 1, 1) = logged
  BY <1>0, OneEntry
<1>2. log = <<[event |-> event, prev |-> <<>>, checksum |-> logged]>> /\ Len(log) = 1
  BY <1>0, <1>1 DEF Genesis
<1>3. [event |-> event, prev |-> <<>>, checksum |-> logged] \in AuditEntry
  BY <1>0, <1>1 DEF AuditEntry, Checksums
<1>4. AuditTypeOK
  BY <1>1, <1>2, <1>3, MaxLogAssumption DEF AuditTypeOK, Checksums
<1>5. LogIsSuffix
  <2> SUFFICES ASSUME NEW i \in 1..Len(log)
               PROVE  log[i] = [event |-> logged[Len(logged) - Len(log) + i],
                                prev |-> SubSeq(logged, 1, Len(logged) - Len(log) + i - 1),
                                checksum |-> SubSeq(logged, 1, Len(logged) - Len(log) + i)]
    BY <1>1, <1>2 DEF LogIsSuffix
  <2>1. i = 1 /\ Len(logged) - Len(log) + i = 1 /\ Len(logged) - Len(log) + i - 1 = 0
    BY <1>1, <1>2
  <2>2. QED BY <1>1, <1>2, <2>1
<1>6. QED BY <1>1, <1>2, <1>4, <1>5, MaxLogAssumption DEF AuditInv

\* What verify_integrity finds in a log that is a suffix.
LEMMA AlarmFollows ==
    ASSUME AuditInv
    PROVE  AlarmMeansEviction
<1> DEFINE first == Len(logged) - Len(log)
<1>1. /\ log \in Seq(AuditEntry) /\ logged \in Seq(Event)
      /\ Len(log) \in Nat /\ Len(logged) \in Nat /\ MaxLog \in Nat \ {0}
      /\ first \in Nat /\ first + Len(log) = Len(logged)
      /\ \A i \in 1..Len(log) : log[i] = EntryAt(first + i)
      /\ Len(log) = IF Len(logged) > MaxLog THEN MaxLog ELSE Len(logged)
  <2>1. first \in Nat /\ first + Len(log) = Len(logged)
    BY Entries
  <2>2. Len(log) = IF Len(logged) > MaxLog THEN MaxLog ELSE Len(logged)
    BY DEF AuditInv
  <2>3. QED BY <2>1, <2>2, Entries
<1> HIDE DEF first
<1>2. ASSUME NEW i \in 1..Len(log)
      PROVE  /\ log[i].event = logged[first + i]
             /\ log[i].prev = SubSeq(logged, 1, (first + i) - 1)
             /\ log[i].checksum = SubSeq(logged, 1, first + i)
             /\ Append(log[i].prev, log[i].event) = log[i].checksum
             /\ Len(log[i].prev) = (first + i) - 1 /\ log[i].prev \in Seq(Event)
  <2>1. log[i] = EntryAt(first + i)
    BY <1>1
  <2>2. /\ log[i].event = logged[first + i]
        /\ log[i].prev = SubSeq(logged, 1, (first + i) - 1)
        /\ log[i].checksum = SubSeq(logged, 1, first + i)
    <3>1. \A n : EntryAt(n).event = logged[n] /\ EntryAt(n).prev = SubSeq(logged, 1, n - 1)
                 /\ EntryAt(n).checksum = SubSeq(logged, 1, n)
      BY DEF EntryAt
    <3>2. QED BY <2>1, <3>1, Zenon
  <2>3. first + i \in 1..Len(logged) /\ (first + i) - 1 \in 0..Len(logged)
    BY <1>1
  <2>4. logged[first + i] \in Event
    BY <1>1, <2>3
  <2>5. Append(SubSeq(logged, 1, (first + i) - 1), logged[first + i]) = SubSeq(logged, 1, first + i)
    BY <1>1, <2>3, <2>4, Beginnings
  <2>6. /\ SubSeq(logged, 1, (first + i) - 1) \in Seq(Event)
        /\ Len(SubSeq(logged, 1, (first + i) - 1)) = (first + i) - 1
    BY <1>1, <2>3, <2>4, Beginnings
  <2>7. QED BY <2>2, <2>5, <2>6
<1>3. ASSUME NEW i \in 1..Len(log), i # 1
      PROVE  PrevChecksum(log, i) = log[i].prev
  <2>1. i - 1 \in 1..Len(log) /\ first + (i - 1) = (first + i) - 1
    BY <1>1, <1>3
  <2>2. log[i - 1].checksum = SubSeq(logged, 1, (first + i) - 1)
    BY <1>2, <2>1
  <2>3. QED BY <1>2, <1>3, <2>2 DEF PrevChecksum
<1>4. \A i \in 1..Len(log) : i # 1 => i \notin Errors(log)
  BY <1>2, <1>3 DEF Errors, ComputeChecksum
<1>5. CASE Len(logged) > MaxLog
  <2>1. 1 \in 1..Len(log) /\ first > 0
    BY <1>1, <1>5
  <2>2. Len(log[1].prev) # 0
    BY <1>1, <1>2, <2>1
  <2>3. log[1].prev # <<>>
    BY <2>2
  <2>4. 1 \in Errors(log)
    BY <2>1, <2>3 DEF Errors, PrevChecksum, Genesis
  <2>5. Errors(log) \subseteq 1..Len(log)
    BY DEF Errors
  <2>6. Errors(log) = {1}
    BY <1>4, <2>4, <2>5
  <2>7. QED BY <1>5, <2>6 DEF AlarmMeansEviction
<1>6. CASE ~(Len(logged) > MaxLog)
  <2>1. first = 0
    BY <1>1, <1>6
  <2>2. ASSUME 1 \in 1..Len(log) PROVE 1 \notin Errors(log)
    <3>1. log[1].prev = <<>>
      BY <1>1, <1>2, <2>1, <2>2
    <3>2. QED BY <1>2, <2>2, <3>1 DEF Errors, PrevChecksum, Genesis, ComputeChecksum
  <2>3. Errors(log) \subseteq 1..Len(log)
    BY DEF Errors
  <2>4. Errors(log) = {}
    BY <1>4, <2>2, <2>3
  <2>5. QED BY <1>6, <2>4 DEF AlarmMeansEviction
<1>7. QED BY <1>5, <1>6

-----------------------------------------------------------------------------
\* Accounts and rows.

LEMMA SomeAccount == NoAccount \notin Account
BY DEF NoAccount, Account, ValidRoles

LEMMA NewAccountType ==
    ASSUME NEW role \in ValidRoles
    PROVE  /\ NewAccount(role) \in Account /\ NewAccount(role).role = role
           /\ NewAccount(role).failed = 0 /\ NewAccount(role).lockedAt = Unset
BY DEF NewAccount, Account, Unset

\* An account whose lock agrees with its counter.
Agrees(account) ==
    /\ account \in Account
    /\ account.failed <= MaxFailedAttempts
    /\ account.lockedAt # Unset <=> account.failed = MaxFailedAttempts

LEMMA NewAgrees ==
    ASSUME NEW role \in ValidRoles
    PROVE  Agrees(NewAccount(role)) /\ NewAccount(role).role = role
<1>1. MaxFailedAttempts \in Nat \ {0}
  BY FailedAssumption
<1>2. QED BY <1>1, NewAccountType DEF Agrees

\* What an attempt makes of an account that agrees.
LEMMA AttemptAgrees ==
    ASSUME now \in Nat, now # 0, NEW account, Agrees(account), NEW open, open = Unlocked(account)
    PROVE  /\ Agrees([open EXCEPT !.failed = 0]) /\ [open EXCEPT !.failed = 0].role = account.role
           /\ Agrees(WrongPassword(open)) /\ WrongPassword(open).role = account.role
<1>1. account \in Account /\ account.role \in ValidRoles
  BY DEF Agrees, Account
<1>2. open \in Account /\ open.role = account.role /\ open.lockedAt = Unset
      /\ open.failed < MaxFailedAttempts
  <2>1. CASE account.lockedAt # Unset
    <3>1. open = NewAccount(account.role)
      BY <2>1 DEF Unlocked
    <3>2. QED BY <1>1, <3>1, NewAccountType, FailedAssumption
  <2>2. CASE account.lockedAt = Unset
    <3>1. open = account
      BY <2>2 DEF Unlocked
    <3>2. account.failed \in Nat /\ account.failed <= MaxFailedAttempts
          /\ account.failed # MaxFailedAttempts
      BY <1>1, <2>2 DEF Agrees, Account
    <3>3. QED BY <1>1, <2>2, <3>1, <3>2, FailedAssumption
  <2>3. QED BY <2>1, <2>2
<1>3. open.failed \in Nat
  BY <1>2 DEF Account
<1>4. Agrees([open EXCEPT !.failed = 0]) /\ [open EXCEPT !.failed = 0].role = account.role
  <2> DEFINE fresh == [open EXCEPT !.failed = 0]
  <2>1. fresh \in Account /\ fresh.failed = 0 /\ fresh.lockedAt = Unset /\ fresh.role = account.role
    BY <1>2 DEF Account
  <2> HIDE DEF fresh
  <2>2. Agrees(fresh)
    BY <2>1, FailedAssumption DEF Agrees
  <2>3. QED BY <2>1, <2>2 DEF fresh
<1>5. Agrees(WrongPassword(open)) /\ WrongPassword(open).role = account.role
  <2> DEFINE wrong == WrongPassword(open)
             more == open.failed + 1
             at == IF open.failed + 1 >= MaxFailedAttempts THEN now ELSE Unset
  <2>1. at \in Nat /\ (at # Unset <=> open.failed + 1 >= MaxFailedAttempts)
    BY DEF Unset
  <2>2. wrong = [open EXCEPT !.failed = more, !.lockedAt = at]
    BY <1>2 DEF WrongPassword, Account
  <2>6. more \in Nat
    BY <1>3
  <2> HIDE DEF wrong, at, more
  <2>3. wrong \in Account /\ wrong.failed = more /\ wrong.lockedAt = at
        /\ wrong.role = account.role
    BY <1>2, <2>1, <2>2, <2>6 DEF Account
  <2>4. Agrees(wrong)
    BY <1>2, <1>3, <2>1, <2>3, FailedAssumption DEF Agrees, more
  <2>5. QED BY <2>3, <2>4 DEF wrong
<1>6. QED BY <1>4, <1>5

\* The part of the invariant that is about the memory store, account by account.
Sound(e, account) ==
    account # NoAccount =>
        /\ Agrees(account)
        /\ account.role # "SUPER_ADMIN"
        /\ account.role \in PrivilegedRoles => e \in DOMAIN Seed /\ account.role = Seed[e]

AllSound(store) == store \in [Email -> Account \cup {NoAccount}] /\ \A e \in Email : Sound(e, store[e])

\* No account is SUPER_ADMIN: that role is never seeded, and only a SUPER_ADMIN
\* grants it.
AccountsInv ==
    /\ AllSound(accounts)
    /\ now \in Nat /\ now # 0
    /\ rows \in [DbUser -> Row]
    /\ RowLockMeansFailures

LEMMA AccountsInvTells ==
    ASSUME AccountsInv
    PROVE  AccountsTypeOK /\ LockMeansFailures /\ PrivilegeStaysSeeded
<1>1. AccountsTypeOK
  BY DEF AccountsInv, AllSound, AccountsTypeOK
<1>2. \A e \in Users : Sound(e, accounts[e]) /\ accounts[e] # NoAccount
  BY DEF AccountsInv, AllSound, Users
<1>3. LockMeansFailures
  BY <1>2 DEF LockMeansFailures, Sound, Agrees
<1>4. PrivilegeStaysSeeded
  BY <1>2 DEF PrivilegeStaysSeeded, Sound
<1>5. QED BY <1>1, <1>3, <1>4

LEMMA SeedsAreSound == AllSound(SeededUsers)
<1>1. ASSUME NEW e \in Email
      PROVE  SeededUsers[e] \in Account \cup {NoAccount} /\ Sound(e, SeededUsers[e])
  <2>1. CASE e \in DOMAIN Seed
    <3>1. SeededUsers[e] = NewAccount(Seed[e]) /\ Seed[e] \in ValidRoles \ {"SUPER_ADMIN"}
      BY <2>1, RoleAssumption DEF SeededUsers
    <3>2. Agrees(SeededUsers[e]) /\ SeededUsers[e].role = Seed[e]
      BY <3>1, NewAgrees
    <3>3. QED BY <2>1, <3>1, <3>2 DEF Sound, Agrees
  <2>2. CASE e \notin DOMAIN Seed
    BY <2>2 DEF SeededUsers, Sound
  <2>3. QED BY <2>1, <2>2
<1>2. SeededUsers = [e \in Email |-> SeededUsers[e]]
  BY DEF SeededUsers
<1>3. SeededUsers \in [Email -> Account \cup {NoAccount}]
  BY <1>1, <1>2
<1>4. QED BY <1>1, <1>3 DEF AllSound

\* One account changes.
LEMMA OneAccountChanges ==
    ASSUME AllSound(accounts), NEW e \in Email, NEW account \in Account, Sound(e, account),
           accounts' = [accounts EXCEPT ![e] = account]
    PROVE  AllSound(accounts')
<1>1. accounts' \in [Email -> Account \cup {NoAccount}]
  BY DEF AllSound
<1>2. \A f \in Email : accounts'[f] = IF f = e THEN account ELSE accounts[f]
  BY DEF AllSound
<1>3. QED BY <1>1, <1>2, Zenon DEF AllSound

\* What a step leaves alone.
LEMMA AuditStays == ASSUME AuditInv, UNCHANGED auditVars PROVE AuditInv'
BY DEF AuditInv, auditVars, AuditTypeOK, LogIsSuffix

LEMMA RowsStay == ASSUME RowLockMeansFailures, UNCHANGED rows PROVE RowLockMeansFailures'
BY DEF RowLockMeansFailures

LEMMA LoginStep ==
    ASSUME AuditInv, AccountsInv, NEW e \in Email, NEW right \in BOOLEAN, Login(e, right)
    PROVE  AuditInv' /\ AccountsInv'
<1> DEFINE account == Unlocked(accounts[e])
           opened == [account EXCEPT !.failed = 0]
           shut == WrongPassword(account)
<1>1. /\ AllSound(accounts) /\ now \in Nat /\ now # 0 /\ rows \in [DbUser -> Row]
      /\ RowLockMeansFailures /\ logged \in Seq(Event)
  BY DEF AccountsInv, AuditInv, AuditTypeOK
<1>2. e \in Users /\ ~IsLocked(accounts[e]) /\ accounts[e] # NoAccount
      /\ UNCHANGED <<rows, now>>
  BY DEF Login, Users
<1>3. Sound(e, accounts[e]) /\ Agrees(accounts[e])
  BY <1>1, <1>2 DEF AllSound, Sound
<1>4. Agrees(opened) /\ opened.role = accounts[e].role /\ Agrees(shut) /\ shut.role = accounts[e].role
  BY <1>1, <1>3, AttemptAgrees
<1>5. \/ right = TRUE /\ accounts' = [accounts EXCEPT ![e] = opened] /\ LogEvent(LoggedIn(e))
      \/ right = FALSE /\ accounts' = [accounts EXCEPT ![e] = shut] /\ UNCHANGED auditVars
  BY DEF Login
<1> HIDE DEF opened, shut
<1>6. Sound(e, opened) /\ Sound(e, shut) /\ opened \in Account /\ shut \in Account
  BY <1>2, <1>3, <1>4 DEF Sound, Agrees
<1>7. AllSound(accounts')
  <2>1. CASE accounts' = [accounts EXCEPT ![e] = opened]
    BY <2>1, <1>1, <1>6, OneAccountChanges
  <2>2. CASE accounts' = [accounts EXCEPT ![e] = shut]
    BY <2>2, <1>1, <1>6, OneAccountChanges
  <2>3. QED BY <2>1, <2>2, <1>5
<1>8. AccountsInv'
  BY <1>1, <1>2, <1>7, RowsStay DEF AccountsInv
<1>9. LoggedIn(e) \in Event
  BY EventAssumption
<1>10. AuditInv'
  <2>1. CASE LogEvent(LoggedIn(e))
    BY <2>1, <1>9, LogEventStep
  <2>2. CASE UNCHANGED auditVars
    BY <2>2, AuditStays
  <2>3. QED BY <1>5, <2>1, <2>2
<1>11. QED BY <1>8, <1>10

\* Steps that leave the log alone.
LEMMA QuietStep ==
    ASSUME AuditInv, AccountsInv, UNCHANGED auditVars,
           AllSound(accounts'), now' \in Nat, now' # 0,
           (rows \in [DbUser -> Row])', RowLockMeansFailures'
    PROVE  AuditInv' /\ AccountsInv'
<1>1. AccountsInv'
  BY DEF AccountsInv
<1>2. QED BY <1>1, AuditStays

LEMMA LoginV2Step ==
    ASSUME AuditInv, AccountsInv, NEW u \in DbUser, NEW right \in BOOLEAN, LoginV2(u, right)
    PROVE  AuditInv' /\ AccountsInv'
<1> DEFINE failed == IF right THEN 0 ELSE rows[u].failed + 1
           until == IF ~right /\ rows[u].failed + 1 >= MaxFailedAttempts
                    THEN now + LockoutDuration ELSE Unset
<1>1. /\ AllSound(accounts) /\ now \in Nat /\ now # 0 /\ rows \in [DbUser -> Row]
      /\ RowLockMeansFailures
  BY DEF AccountsInv
<1>2. /\ UNCHANGED <<accounts, now, auditVars>>
      /\ rows' = [rows EXCEPT ![u].failed = IF right THEN 0 ELSE @ + 1, ![u].lockedUntil = until]
  BY DEF LoginV2
<1>3. rows[u] \in Row /\ rows[u].failed \in Nat
  BY <1>1 DEF Row
<1>4. failed \in Nat /\ until \in Nat /\ (until # Unset <=> failed >= MaxFailedAttempts)
  <2>1. CASE right = TRUE
    BY <2>1, FailedAssumption DEF Unset
  <2>2. CASE right = FALSE
    BY <2>2, <1>1, <1>3, LockoutAssumption DEF Unset
  <2>3. QED BY <2>1, <2>2
<1>5. /\ rows' \in [DbUser -> Row] /\ rows'[u].failed = failed /\ rows'[u].lockedUntil = until
      /\ \A v \in DbUser : v # u => rows'[v] = rows[v]
  <2> HIDE DEF until
  <2>1. rows' = [rows EXCEPT ![u] = [rows[u] EXCEPT !.failed = failed, !.lockedUntil = until]]
    BY <1>1, <1>2, <1>3 DEF Row
  <2> HIDE DEF failed
  <2>2. [rows[u] EXCEPT !.failed = failed, !.lockedUntil = until] \in Row
    BY <1>3, <1>4 DEF Row
  <2>3. /\ [rows[u] EXCEPT !.failed = failed, !.lockedUntil = until].failed = failed
        /\ [rows[u] EXCEPT !.failed = failed, !.lockedUntil = until].lockedUntil = until
    BY <1>3 DEF Row
  <2>4. QED BY <1>1, <2>1, <2>2, <2>3
<1>6. RowLockMeansFailures'
  BY <1>1, <1>4, <1>5 DEF RowLockMeansFailures
<1>7. QED BY <1>1, <1>2, <1>5, <1>6, QuietStep

LEMMA RegisterStep ==
    ASSUME AuditInv, AccountsInv, NEW caller \in Email, NEW e \in Email, NEW role \in Role,
           Register(caller, e, role)
    PROVE  AuditInv' /\ AccountsInv'
<1>1. /\ AllSound(accounts) /\ logged \in Seq(Event)
      /\ now \in Nat /\ now # 0 /\ rows \in [DbUser -> Row] /\ RowLockMeansFailures
  BY DEF AccountsInv, AuditInv, AuditTypeOK
<1>2. /\ caller \in Users /\ accounts[caller].role \in PrivilegedRoles
      /\ role \in PrivilegedRoles => accounts[caller].role = "SUPER_ADMIN"
      /\ role \in ValidRoles /\ e \notin Users
      /\ accounts' = [accounts EXCEPT ![e] = NewAccount(role)]
      /\ LogEvent(Registered(e, caller))
      /\ UNCHANGED <<rows, now>>
  BY DEF Register
<1>3. accounts[caller].role # "SUPER_ADMIN"
  BY <1>1, <1>2 DEF AllSound, Sound, Users
<1>4. role \notin PrivilegedRoles
  BY <1>2, <1>3
<1>5. Agrees(NewAccount(role)) /\ NewAccount(role).role = role /\ NewAccount(role) \in Account
  BY <1>2, NewAgrees, NewAccountType
<1>6. Sound(e, NewAccount(role))
  BY <1>4, <1>5 DEF Sound, PrivilegedRoles
<1>7. AllSound(accounts')
  BY <1>1, <1>2, <1>5, <1>6, OneAccountChanges
<1>8. AccountsInv'
  BY <1>1, <1>2, <1>7, RowsStay DEF AccountsInv
<1>9. Registered(e, caller) \in Event
  BY EventAssumption
<1>10. AuditInv'
  BY <1>2, <1>9, LogEventStep
<1>11. QED BY <1>8, <1>10

LEMMA UnlockUserStep ==
    ASSUME AuditInv, AccountsInv, NEW e \in Email, UnlockUser(e)
    PROVE  AuditInv' /\ AccountsInv'
<1> DEFINE account == NewAccount(accounts[e].role)
<1>1. /\ AllSound(accounts) /\ now \in Nat /\ now # 0 /\ rows \in [DbUser -> Row]
      /\ RowLockMeansFailures
  BY DEF AccountsInv
<1>2. e \in Users /\ accounts[e] # NoAccount /\ accounts' = [accounts EXCEPT ![e] = account]
      /\ UNCHANGED <<rows, now, auditVars>>
  BY <1>1 DEF UnlockUser, Users, AllSound
<1>3. Sound(e, accounts[e]) /\ accounts[e].role \in ValidRoles
  BY <1>1, <1>2 DEF AllSound, Sound, Agrees, Account
<1>4. Agrees(account) /\ account.role = accounts[e].role /\ account \in Account
  BY <1>3, NewAgrees, NewAccountType
<1>5. Sound(e, account)
  BY <1>2, <1>3, <1>4 DEF Sound
<1>6. AllSound(accounts')
  BY <1>1, <1>2, <1>4, <1>5, OneAccountChanges
<1>7. (rows \in [DbUser -> Row])' /\ now' \in Nat /\ now' # 0
  BY <1>1, <1>2
<1>8. QED BY <1>1, <1>2, <1>6, <1>7, RowsStay, QuietStep

LEMMA SetActiveStep ==
    ASSUME AuditInv, AccountsInv, NEW u \in DbUser, NEW active \in BOOLEAN, SetActive(u, active)
    PROVE  AuditInv' /\ AccountsInv'
<1>1. /\ AllSound(accounts) /\ now \in Nat /\ now # 0 /\ rows \in [DbUser -> Row]
      /\ RowLockMeansFailures
  BY DEF AccountsInv
<1>2. UNCHANGED <<accounts, now, auditVars>> /\ rows' = [rows EXCEPT ![u].active = active]
  BY DEF SetActive
<1>3. /\ rows' \in [DbUser -> Row]
      /\ \A v \in DbUser : /\ rows'[v].failed = rows[v].failed
                           /\ rows'[v].lockedUntil = rows[v].lockedUntil
  <2>1. rows[u] \in Row
    BY <1>1
  <2>2. rows' = [rows EXCEPT ![u] = [rows[u] EXCEPT !.active = active]]
    BY <1>1, <1>2
  <2>3. /\ [rows[u] EXCEPT !.active = active] \in Row
        /\ [rows[u] EXCEPT !.active = active].failed = rows[u].failed
        /\ [rows[u] EXCEPT !.active = active].lockedUntil = rows[u].lockedUntil
    BY <2>1 DEF Row
  <2>4. QED BY <1>1, <2>2, <2>3
<1>4. RowLockMeansFailures'
  BY <1>1, <1>3 DEF RowLockMeansFailures
<1>5. QED BY <1>1, <1>2, <1>3, <1>4, QuietStep

LEMMA TickStep ==
    ASSUME AuditInv, AccountsInv, Tick
    PROVE  AuditInv' /\ AccountsInv'
<1>1. /\ AllSound(accounts) /\ now \in Nat /\ now # 0 /\ rows \in [DbUser -> Row]
      /\ RowLockMeansFailures
  BY DEF AccountsInv
<1>2. UNCHANGED <<accounts, rows, auditVars>> /\ now' = now + 1
  BY DEF Tick
<1>3. now' \in Nat /\ now' # 0 /\ (rows \in [DbUser -> Row])' /\ AllSound(accounts')
  BY <1>1, <1>2
<1>4. QED BY <1>1, <1>2, <1>3, RowsStay, QuietStep

LEMMA RestartStep ==
    ASSUME AuditInv, AccountsInv, AccountsRestart
    PROVE  AuditInv' /\ AccountsInv'
<1>1. /\ AllSound(accounts) /\ now \in Nat /\ now # 0 /\ rows \in [DbUser -> Row]
      /\ RowLockMeansFailures /\ logged \in Seq(Event)
  BY DEF AccountsInv, AuditInv, AuditTypeOK
<1>2. accounts' = SeededUsers /\ AuditRestart(Started) /\ UNCHANGED <<rows, now>>
  BY DEF AccountsRestart
<1>3. AllSound(accounts')
  BY <1>2, SeedsAreSound
<1>4. AccountsInv'
  BY <1>1, <1>2, <1>3, RowsStay DEF AccountsInv
<1>5. Started \in Event
  BY EventAssumption
<1>6. AuditInv'
  <2>1. FirstEntry(Started)'
    BY <1>2 DEF AuditRestart, FirstEntry
  <2>2. FirstEntry(Started)' => AuditInv'
    BY AuditStart, PTL
  <2>3. QED BY <2>1, <2>2
<1>7. QED BY <1>4, <1>6

LEMMA AccountsStep ==
    ASSUME AuditInv, AccountsInv, AccountsNext
    PROVE  AuditInv' /\ AccountsInv'
BY TickStep, LoginStep, LoginV2Step, RegisterStep, UnlockUserStep, SetActiveStep, RestartStep
   DEF AccountsNext

-----------------------------------------------------------------------------
\* The portal.

\* One plan each, and one active configuration, whose ids tell them apart.
PortalInv ==
    /\ PortalTypeOK
    /\ OnePlanEach
    /\ \A m, n \in models : m.id = n.id => m = n
    /\ \E id \in ModelId : ActiveModels = {[id |-> id, active |-> TRUE]}

LEMMA CancelledHasNone ==
    ASSUME PortalInv, NEW user
    PROVE  /\ Cancelled(user) \subseteq Subscription
           /\ \A s \in Cancelled(user) : s.status = "active" => s \in subscriptions /\ s.user # user
<1>1. ASSUME NEW s \in subscriptions
      PROVE  LET c == IF s \in ActiveOf(subscriptions, user)
                      THEN [s EXCEPT !.status = "cancelled"] ELSE s
             IN  c \in Subscription /\ (c.status = "active" => c = s /\ s.user # user)
  <2>1. s \in Subscription
    BY DEF PortalInv, PortalTypeOK
  <2>2. CASE s \in ActiveOf(subscriptions, user)
    BY <2>1, <2>2 DEF Subscription
  <2>3. CASE s \notin ActiveOf(subscriptions, user)
    BY <2>1, <2>3 DEF ActiveOf
  <2>4. QED BY <2>2, <2>3
<1>2. \A c \in Cancelled(user) :
          c \in Subscription /\ (c.status = "active" => c \in subscriptions /\ c.user # user)
  <2> SUFFICES ASSUME NEW c \in Cancelled(user)
               PROVE  c \in Subscription /\ (c.status = "active" => c \in subscriptions /\ c.user # user)
    OBVIOUS
  <2>1. PICK s \in subscriptions : c = IF s \in ActiveOf(subscriptions, user)
                                       THEN [s EXCEPT !.status = "cancelled"] ELSE s
    BY DEF Cancelled
  <2>2. QED BY <1>1, <2>1
<1>3. QED BY <1>2

LEMMA PlansStep ==
    ASSUME PortalInv, PortalTypeOK', OnePlanEach', UNCHANGED models
    PROVE  PortalInv'
BY DEF PortalInv, ActiveModels

LEMMA UpgradeStep ==
    ASSUME PortalInv, NEW user \in Subject, NEW plan \in DOMAIN Plan, NEW id \in SubId,
           Upgrade(user, plan, id)
    PROVE  PortalInv'
<1> DEFINE new == [id |-> id, user |-> user, plan |-> plan, status |-> "active"]
<1>1. subscriptions' = Cancelled(user) \cup {new} /\ UNCHANGED <<tickets, models>>
  BY DEF Upgrade
<1>2. new \in Subscription /\ new.user = user
  BY DEF Subscription
<1> HIDE DEF new
<1>3. PortalTypeOK'
  BY <1>1, <1>2, CancelledHasNone DEF PortalInv, PortalTypeOK
<1>4. OnePlanEach'
  <2> SUFFICES ASSUME NEW s \in subscriptions', NEW t \in subscriptions', s.user = t.user,
                      s.status = "active", t.status = "active"
               PROVE  s = t
    BY DEF OnePlanEach
  <2>1. CASE s.user = user
    BY <2>1, <1>1, CancelledHasNone
  <2>2. CASE s.user # user
    <3>1. s \in subscriptions /\ t \in subscriptions
      BY <2>2, <1>1, <1>2, CancelledHasNone
    <3>2. QED BY <3>1 DEF PortalInv, OnePlanEach
  <2>3. QED BY <2>1, <2>2
<1>5. QED BY <1>1, <1>3, <1>4, PlansStep

LEMMA CancelStep ==
    ASSUME PortalInv, NEW user \in Subject, CancelSubscription(user)
    PROVE  PortalInv'
<1>1. subscriptions' = Cancelled(user) /\ UNCHANGED <<tickets, models>>
  BY DEF CancelSubscription
<1>2. PortalTypeOK'
  BY <1>1, CancelledHasNone DEF PortalInv, PortalTypeOK
<1>3. OnePlanEach'
  BY <1>1, CancelledHasNone DEF PortalInv, OnePlanEach
<1>4. QED BY <1>1, <1>2, <1>3, PlansStep

LEMMA TicketStep ==
    ASSUME PortalInv,
           \/ \E user \in Subject, id \in TicketId : CreateTicket(user, id)
           \/ \E admin \in Admin, t \in tickets, status \in TicketStatus :
                 RespondTicket(admin, t, status)
    PROVE  PortalInv'
<1>1. UNCHANGED <<subscriptions, models>>
  BY DEF CreateTicket, RespondTicket
<1>2. tickets' \subseteq Ticket
  <2>1. ASSUME NEW user \in Subject, NEW id \in TicketId, CreateTicket(user, id)
        PROVE  tickets' \subseteq Ticket
    <3>1. [id |-> id, user |-> user, status |-> "open", resolvedBy |-> Nobody] \in Ticket
      BY DEF Ticket, TicketStatus
    <3>2. QED BY <2>1, <3>1 DEF CreateTicket, PortalInv, PortalTypeOK
  <2>2. ASSUME NEW admin \in Admin, NEW t \in tickets, NEW status \in TicketStatus,
               RespondTicket(admin, t, status)
        PROVE  tickets' \subseteq Ticket
    <3>1. t \in Ticket
      BY DEF PortalInv, PortalTypeOK
    <3>2. [t EXCEPT !.status = status, !.resolvedBy = admin] \in Ticket
      BY <3>1 DEF Ticket
    <3>3. QED BY <2>2, <3>2 DEF RespondTicket, PortalInv, PortalTypeOK
  <2>3. QED BY <2>1, <2>2
<1>3. PortalTypeOK' /\ OnePlanEach'
  BY <1>1, <1>2 DEF PortalInv, PortalTypeOK, OnePlanEach
<1>4. QED BY <1>1, <1>3, PlansStep

LEMMA CreateModelStep ==
    ASSUME PortalInv, NEW id \in ModelId, CreateModel(id)
    PROVE  PortalInv'
<1> DEFINE new == [id |-> id, active |-> FALSE]
<1>1. /\ \A m \in models : m.id # id
      /\ models' = models \cup {new} /\ UNCHANGED <<subscriptions, tickets>>
  BY DEF CreateModel
<1>2. new.id = id /\ new.active = FALSE /\ new \in [id : ModelId, active : BOOLEAN]
  OBVIOUS
<1> HIDE DEF new
<1>3. PortalTypeOK' /\ OnePlanEach'
  BY <1>1, <1>2 DEF PortalInv, PortalTypeOK, OnePlanEach
<1>4. \A m, n \in models' : m.id = n.id => m = n
  BY <1>1, <1>2 DEF PortalInv
<1>5. ActiveModels' = ActiveModels
  BY <1>1, <1>2 DEF ActiveModels
<1>6. QED BY <1>3, <1>4, <1>5 DEF PortalInv

LEMMA ActivateModelStep ==
    ASSUME PortalInv, NEW id \in ModelId, ActivateModel(id)
    PROVE  PortalInv'
<1> DEFINE after(m) == [m EXCEPT !.active = (m.id = id)]
<1>1. /\ \E m \in models : m.id = id
      /\ models' = {after(m) : m \in models} /\ UNCHANGED <<subscriptions, tickets>>
  BY DEF ActivateModel
<1>2. ASSUME NEW m \in models
      PROVE  /\ after(m) \in [id : ModelId, active : BOOLEAN] /\ after(m).id = m.id
             /\ m.id = id => after(m) = [id |-> id, active |-> TRUE]
             /\ m.id # id => after(m).active = FALSE
  <2>1. m \in [id : ModelId, active : BOOLEAN]
    BY DEF PortalInv, PortalTypeOK
  <2>2. after(m) = [id |-> m.id, active |-> (m.id = id)]
    BY <2>1
  <2>3. CASE m.id = id
    BY <2>1, <2>2, <2>3
  <2>4. CASE m.id # id
    BY <2>1, <2>2, <2>4
  <2>5. QED BY <2>3, <2>4
<1> HIDE DEF after
<1>3. PortalTypeOK' /\ OnePlanEach'
  <2>1. models' \subseteq [id : ModelId, active : BOOLEAN]
    BY <1>1, <1>2
  <2>2. QED BY <1>1, <2>1 DEF PortalInv, PortalTypeOK, OnePlanEach
<1>4. \A m, n \in models' : m.id = n.id => m = n
  <2> SUFFICES ASSUME NEW m \in models, NEW n \in models, after(m).id = after(n).id
               PROVE  after(m) = after(n)
    BY <1>1
  <2>1. m.id = n.id
    BY <1>2
  <2>2. QED BY <2>1 DEF PortalInv
<1>5. ActiveModels' = {[id |-> id, active |-> TRUE]}
  <2>1. \A m \in models' : m.active => m = [id |-> id, active |-> TRUE]
    BY <1>1, <1>2
  <2>2. [id |-> id, active |-> TRUE] \in models'
    BY <1>1, <1>2
  <2>3. ActiveModels' = {m \in models' : m.active}
    BY DEF ActiveModels
  <2>4. [id |-> id, active |-> TRUE].active
    OBVIOUS
  <2>5. \A m : m \in ActiveModels' <=> m = [id |-> id, active |-> TRUE]
    BY <2>1, <2>2, <2>3, <2>4, Zenon
  <2>6. QED BY <2>5
<1>6. QED BY <1>3, <1>4, <1>5 DEF PortalInv

LEMMA PortalStep ==
    ASSUME PortalInv, PortalNext
    PROVE  PortalInv'
BY UpgradeStep, CancelStep, TicketStep, CreateModelStep, ActivateModelStep DEF PortalNext

-----------------------------------------------------------------------------
\* The revenue, as units to count.

LEMMA PricesAreUnits ==
    ASSUME NEW S, IsFiniteSet(S), NEW price,
           \A s \in S : price[s] = PriceOf(s) /\ price[s] \in Nat
    PROVE  MapThenSumSet(PriceOf, S) = Cardinality(Units(price, S))
<1> DEFINE sum == CHOOSE it : AddsUp(it, price, S)
           adds(it) == it = [s \in SUBSET S |->
                               IF s = {} THEN 0
                               ELSE PriceOf(CHOOSE e \in s : TRUE)
                                       + it[s \ {CHOOSE e \in s : TRUE}]]
<1>1. sum[S] = Cardinality(Units(price, S))
  BY SumsAreUnits
<1>2. MapThenSumSet(PriceOf, S) = (CHOOSE it : adds(it))[S]
  BY DEF MapThenSumSet, MapThenFoldSet
<1>3. \A it : adds(it) <=> AddsUp(it, price, S)
  <2>1. \A s \in SUBSET S :
           s # {} => price[CHOOSE e \in s : TRUE] = PriceOf(CHOOSE e \in s : TRUE)
    OBVIOUS
  <2>2. QED BY <2>1 DEF AddsUp
<1> HIDE DEF adds
<1>4. (CHOOSE it : adds(it)) = sum
  BY <1>3
<1>5. QED BY <1>1, <1>2, <1>4

LEMMA ShownAreUnits ==
    ASSUME NEW S, IsFiniteSet(S), NEW shown,
           \A u \in S : shown[u] = ShownPrice(u) /\ shown[u] \in Nat
    PROVE  MapThenSumSet(ShownPrice, S) = Cardinality(Units(shown, S))
<1> DEFINE sum == CHOOSE it : AddsUp(it, shown, S)
           adds(it) == it = [s \in SUBSET S |->
                               IF s = {} THEN 0
                               ELSE ShownPrice(CHOOSE e \in s : TRUE)
                                       + it[s \ {CHOOSE e \in s : TRUE}]]
<1>1. sum[S] = Cardinality(Units(shown, S))
  BY SumsAreUnits
<1>2. MapThenSumSet(ShownPrice, S) = (CHOOSE it : adds(it))[S]
  BY DEF MapThenSumSet, MapThenFoldSet
<1>3. \A it : adds(it) <=> AddsUp(it, shown, S)
  <2>1. \A s \in SUBSET S :
           s # {} => shown[CHOOSE e \in s : TRUE] = ShownPrice(CHOOSE e \in s : TRUE)
    OBVIOUS
  <2>2. QED BY <2>1 DEF AddsUp
<1> HIDE DEF adds
<1>4. (CHOOSE it : adds(it)) = sum
  BY <1>3
<1>5. QED BY <1>1, <1>2, <1>4

LEMMA RevenuesAreUnits ==
    ASSUME NEW S, IsFiniteSet(S), NEW revenue,
           \A plan \in S : revenue[plan] = RevenueOf(plan) /\ revenue[plan] \in Nat
    PROVE  MapThenSumSet(RevenueOf, S) = Cardinality(Units(revenue, S))
<1> DEFINE sum == CHOOSE it : AddsUp(it, revenue, S)
           adds(it) == it = [s \in SUBSET S |->
                               IF s = {} THEN 0
                               ELSE RevenueOf(CHOOSE e \in s : TRUE)
                                       + it[s \ {CHOOSE e \in s : TRUE}]]
<1>1. sum[S] = Cardinality(Units(revenue, S))
  BY SumsAreUnits
<1>2. MapThenSumSet(RevenueOf, S) = (CHOOSE it : adds(it))[S]
  BY DEF MapThenSumSet, MapThenFoldSet
<1>3. \A it : adds(it) <=> AddsUp(it, revenue, S)
  <2>1. \A s \in SUBSET S :
           s # {} => revenue[CHOOSE e \in s : TRUE] = RevenueOf(CHOOSE e \in s : TRUE)
    OBVIOUS
  <2>2. QED BY <2>1 DEF AddsUp
<1> HIDE DEF adds
<1>4. (CHOOSE it : adds(it)) = sum
  BY <1>3
<1>5. QED BY <1>1, <1>2, <1>4

\* The rows in force, grouped by their users and by their plans.  A user has
\* one such row at most, so its price is the sum of the user's group.
LEMMA RevenueAddsUp ==
    ASSUME PortalTypeOK, OnePlanEach
    PROVE  RevenueIsWhatIsShown
<1> DEFINE users == Subject \cup AppUser
           inForce == {s \in subscriptions : s.status = "active"}
           price == [s \in inForce |-> PriceOf(s)]
           owner == [s \in inForce |-> s.user]
           plan == [s \in inForce |-> s.plan]
           shown == [u \in users |-> ShownPrice(u)]
           revenue == [p \in DOMAIN Plan |-> RevenueOf(p)]
<1>1. \A s \in inForce : /\ owner[s] = s.user /\ owner[s] \in users
                      /\ plan[s] = s.plan /\ plan[s] \in DOMAIN Plan
                      /\ price[s] = PriceOf(s) /\ price[s] \in Nat
  BY PlanAssumption DEF PortalTypeOK, Subscription, PriceOf
<1>2. \A s, r \in inForce : owner[s] = owner[r] => s = r
  BY DEF OnePlanEach
<1>3. IsFiniteSet(inForce)
  <2>1. owner \in [inForce -> users]
    BY <1>1
  <2> HIDE DEF inForce, owner
  <2>2. owner \in Injection(inForce, users)
    BY <1>2, <2>1 DEF Injection, IsInjective
  <2>3. QED BY <2>2, UserAssumption, FS_Injection
<1>4. ASSUME NEW u \in users
      PROVE  shown[u] = Cardinality(Units(price, {s \in inForce : owner[s] = u}))
  <2> DEFINE its == {s \in inForce : owner[s] = u}
  <2>1. its = ActiveOf(subscriptions, u)
    BY DEF ActiveOf
  <2>2. CASE its = {}
    <3>1. shown[u] = 0
      BY <2>1, <2>2 DEF ShownPrice
    <3>2. Units(price, its) = {}
      BY <2>2 DEF Units
    <3>3. QED BY <3>1, <3>2, FS_EmptySet
  <2>3. CASE its # {}
    <3>1. PICK s \in inForce : owner[s] = u
      BY <2>3
    <3>2. its = {s}
      BY <1>2, <3>1
    <3>3. Shown(u) = {s} /\ ShownPrice(u) = MapThenSumSet(PriceOf, {s})
      BY <2>1, <2>3, <3>2 DEF Shown, ShownPrice
    <3>4. IsFiniteSet({s}) /\ \A r \in {s} : price[r] = PriceOf(r) /\ price[r] \in Nat
      BY <1>1, FS_Singleton
    <3> HIDE DEF price
    <3>5. MapThenSumSet(PriceOf, {s}) = Cardinality(Units(price, {s}))
      BY <3>4, PricesAreUnits
    <3>6. QED BY <3>2, <3>3, <3>5
  <2>4. QED BY <2>2, <2>3
<1>5. ASSUME NEW p \in DOMAIN Plan
      PROVE  revenue[p] = Cardinality(Units(price, {s \in inForce : plan[s] = p}))
  <2> DEFINE its == {s \in inForce : plan[s] = p}
  <2>1. RevenueOf(p) = MapThenSumSet(PriceOf, its)
    <3>1. its = {s \in subscriptions : s.status = "active" /\ s.plan = p}
      OBVIOUS
    <3>2. QED BY <3>1 DEF RevenueOf
  <2>2. IsFiniteSet(its) /\ \A r \in its : price[r] = PriceOf(r) /\ price[r] \in Nat
    BY <1>1, <1>3, FS_Subset
  <2> HIDE DEF price, its
  <2>3. MapThenSumSet(PriceOf, its) = Cardinality(Units(price, its))
    BY <2>2, PricesAreUnits
  <2>4. QED BY <2>1, <2>3 DEF its
<1>6. MonthlyRevenue = Cardinality(Units(price, inForce))
  <2>1. MonthlyRevenue = MapThenSumSet(PriceOf, inForce)
    BY DEF MonthlyRevenue
  <2> HIDE DEF price, inForce
  <2>2. QED BY <1>1, <1>3, <2>1, PricesAreUnits
<1>7. IsFiniteSet(users) /\ IsFiniteSet(DOMAIN Plan)
  BY UserAssumption, PlanAssumption
<1>8. /\ \A u \in users : shown[u] = ShownPrice(u)
      /\ \A p \in DOMAIN Plan : revenue[p] = RevenueOf(p)
  OBVIOUS
<1> HIDE DEF users, inForce, price, owner, plan, shown, revenue
<1>9. /\ \A u \in users : shown[u] \in Nat
      /\ Cardinality(Units(price, inForce)) = Cardinality(Units(shown, users))
  <2>1. Grouped(inForce, price, users, owner, shown)
    BY <1>1, <1>4 DEF Grouped
  <2>2. QED BY <1>3, <1>7, <2>1, SumsByGroup
<1>10. /\ \A p \in DOMAIN Plan : revenue[p] \in Nat
       /\ Cardinality(Units(price, inForce)) = Cardinality(Units(revenue, DOMAIN Plan))
  <2>1. Grouped(inForce, price, DOMAIN Plan, plan, revenue)
    BY <1>1, <1>5 DEF Grouped
  <2>2. QED BY <1>3, <1>7, <2>1, SumsByGroup
<1>11. MapThenSumSet(ShownPrice, users) = Cardinality(Units(shown, users))
  BY <1>7, <1>8, <1>9, ShownAreUnits
<1>12. MapThenSumSet(RevenueOf, DOMAIN Plan) = Cardinality(Units(revenue, DOMAIN Plan))
  BY <1>7, <1>8, <1>10, RevenuesAreUnits
<1>13. QED BY <1>6, <1>9, <1>10, <1>11, <1>12 DEF RevenueIsWhatIsShown, users

-----------------------------------------------------------------------------
\* The theorems.

ServerInv == AuditInv /\ AccountsInv /\ PortalInv

LEMMA ServerStarts == ServerInit => ServerInv
<1> SUFFICES ASSUME ServerInit PROVE ServerInv
  OBVIOUS
<1>1. AuditInv
  BY AuditStart DEF ServerInit, FirstEntry
<1>2. AccountsInv
  <2>1. accounts = SeededUsers /\ now = 1
        /\ rows = [u \in DbUser |-> [failed |-> 0, lockedUntil |-> Unset, active |-> TRUE]]
    BY DEF ServerInit, AccountsInit
  <2>2. rows \in [DbUser -> Row]
    BY <2>1 DEF Row, Unset
  <2>3. \A u \in DbUser : rows[u].failed = 0 /\ rows[u].lockedUntil = Unset
    BY <2>1
  <2>4. RowLockMeansFailures
    BY <2>3, FailedAssumption DEF RowLockMeansFailures
  <2>5. AllSound(accounts)
    BY <2>1, SeedsAreSound
  <2>6. now \in Nat /\ now # 0
    BY <2>1
  <2>7. QED BY <2>2, <2>4, <2>5, <2>6 DEF AccountsInv
<1>3. PortalInv
  <2>1. subscriptions = SeedSubs /\ tickets = {} /\ models = {[id |-> SeedModel, active |-> TRUE]}
    BY DEF ServerInit, PortalInit
  <2>2. PortalTypeOK
    BY <2>1, SeedSubsAssumption, SeedModelAssumption DEF PortalTypeOK
  <2>3. OnePlanEach
    BY <2>1, SeedSubsAssumption DEF OnePlanEach
  <2>4. ActiveModels = {[id |-> SeedModel, active |-> TRUE]}
    BY <2>1 DEF ActiveModels
  <2>5. QED BY <2>1, <2>2, <2>3, <2>4, SeedModelAssumption DEF PortalInv
<1>4. QED BY <1>1, <1>2, <1>3 DEF ServerInv

LEMMA PortalStays == ASSUME PortalInv, UNCHANGED portalVars PROVE PortalInv'
BY DEF PortalInv, portalVars, PortalTypeOK, OnePlanEach, ActiveModels

LEMMA AccountsStay == ASSUME AccountsInv, UNCHANGED accountVars PROVE AccountsInv'
BY RowsStay DEF AccountsInv, accountVars

LEMMA ServerStep == ServerInv /\ [ServerNext]_serverVars => ServerInv'
<1> SUFFICES ASSUME ServerInv, [ServerNext]_serverVars
             PROVE  ServerInv'
  OBVIOUS
<1>1. CASE AccountsNext /\ UNCHANGED portalVars
  BY <1>1, AccountsStep, PortalStays DEF ServerInv
<1>2. CASE PortalNext /\ UNCHANGED <<accountVars, auditVars>>
  BY <1>2, PortalStep, AccountsStay, AuditStays DEF ServerInv
<1>3. CASE UNCHANGED serverVars
  <2>1. UNCHANGED <<accountVars, auditVars, portalVars>>
    BY <1>3 DEF serverVars
  <2>2. QED BY <2>1, PortalStays, AccountsStay, AuditStays DEF ServerInv
<1>4. QED BY <1>1, <1>2, <1>3 DEF ServerNext

LEMMA ServerInvariance == ServerSpec => []ServerInv
BY ServerStarts, ServerStep, PTL DEF ServerSpec

\* The records are well typed, in every part.
THEOREM ServerTypeCorrect == ServerSpec => [](AuditTypeOK /\ AccountsTypeOK /\ PortalTypeOK)
<1>1. ServerInv => AuditTypeOK /\ AccountsTypeOK /\ PortalTypeOK
  BY AccountsInvTells DEF ServerInv, AuditInv, PortalInv
<1>2. QED BY <1>1, ServerInvariance, PTL

\* The log is the last part of what this process has logged, chained from where
\* it was cut, through evictions and restarts.
THEOREM LogKeepsItsTail == ServerSpec => []LogIsSuffix
<1>1. ServerInv => LogIsSuffix
  BY DEF ServerInv, AuditInv
<1>2. QED BY <1>1, ServerInvariance, PTL

\* verify_integrity reports an intact log exactly when it has evicted an entry,
\* and then its first entry, for a log of any length.
THEOREM AlarmsAreEvictions == ServerSpec => []AlarmMeansEviction
<1>1. ServerInv => AlarmMeansEviction
  BY AlarmFollows DEF ServerInv
<1>2. QED BY <1>1, ServerInvariance, PTL

\* In the memory store a lock is a full counter, whatever came between.
THEOREM LocksAreCounted == ServerSpec => []LockMeansFailures
<1>1. ServerInv => LockMeansFailures
  BY AccountsInvTells DEF ServerInv
<1>2. QED BY <1>1, ServerInvariance, PTL

\* No sequence of registrations adds a privileged account to the seeded ones.
THEOREM PrivilegeIsSeeded == ServerSpec => []PrivilegeStaysSeeded
<1>1. ServerInv => PrivilegeStaysSeeded
  BY AccountsInvTells DEF ServerInv
<1>2. QED BY <1>1, ServerInvariance, PTL

\* In app_users, too, a lock comes with a full counter, and a full counter with
\* a lock: after it has expired, one more wrong password locks again.
THEOREM RowLocksAreCounted == ServerSpec => []RowLockMeansFailures
<1>1. ServerInv => RowLockMeansFailures
  BY DEF ServerInv, AccountsInv
<1>2. QED BY <1>1, ServerInvariance, PTL

\* A customer has at most one plan in force.
THEOREM OnePlanAtATime == ServerSpec => []OnePlanEach
<1>1. ServerInv => OnePlanEach
  BY DEF ServerInv, PortalInv
<1>2. QED BY <1>1, ServerInvariance, PTL

\* The revenue pages add up to what the accounts are shown to pay, in all and
\* plan by plan, whatever the plans, their prices and the customers.
THEOREM RevenueAgrees == ServerSpec => []RevenueIsWhatIsShown
<1>1. ServerInv => RevenueIsWhatIsShown
  BY RevenueAddsUp DEF ServerInv, PortalInv
<1>2. QED BY <1>1, ServerInvariance, PTL

\* There is always one active configuration.
THEOREM OneModelIsActive == ServerSpec => []OneActiveModel
<1>1. ServerInv => OneActiveModel
  BY FS_Singleton DEF ServerInv, PortalInv, OneActiveModel
<1>2. QED BY <1>1, ServerInvariance, PTL

=============================================================================
