---------------------- MODULE NotificationOutboxProofs ----------------------
(***************************************************************************)
(* Proofs that the safety properties of NotificationOutbox hold for every  *)
(* set of orders and processes, any length of the outbox and any number of *)
(* faults.                                                                 *)
(***************************************************************************)
EXTENDS NotificationOutbox, SequenceTheorems, FiniteSetTheorems, TLAPS

-----------------------------------------------------------------------------
(* Rows *)

LEMMA OutboxType ==
  ASSUME TypeOK
  PROVE  /\ Len(outbox) \in Nat /\ Ids \subseteq 1..MaxRows /\ Ids \subseteq Nat
         /\ outbox \in [Ids -> Row]
  BY BoundsAssumption, LenProperties DEF TypeOK, Ids

LEMMA NewRowType ==
  ASSUME NEW o \in Orders, NEW s \in OrderStatus, NEW a \in {"user", "admin"}
  PROVE  NewRow(o, s, a) \in Row
  BY BoundsAssumption DEF NewRow, Row

\* A row nobody has claimed yet.
Fresh(r) ==
  /\ r.claim = Nobody /\ ~r.stale /\ r.due /\ ~r.delivered /\ ~r.abandoned
  /\ r.attempts = 0

\* What enqueue_status_notifications stores: fresh rows.
LEMMA RowsOfFresh ==
  ASSUME NEW o \in Orders, NEW s \in OrderStatus
  PROVE  /\ RowsOf(o, s) \in Seq(Row)
         /\ \A i \in 1..Len(RowsOf(o, s)) : Fresh(RowsOf(o, s)[i])
<1> DEFINE first == IF s \in UserStatuses THEN <<NewRow(o, s, "user")>> ELSE << >>
           second == IF s \in AdminStatuses \/ (s = "completed" /\ o \in Large)
                       THEN <<NewRow(o, s, "admin")>> ELSE << >>
<1>1. NewRow(o, s, "user") \in Row /\ NewRow(o, s, "admin") \in Row
  BY NewRowType
<1>2. Fresh(NewRow(o, s, "user")) /\ Fresh(NewRow(o, s, "admin"))
  BY DEF Fresh, NewRow
<1>3. /\ first \in Seq(Row) /\ \A i \in 1..Len(first) : Fresh(first[i])
      /\ second \in Seq(Row) /\ \A i \in 1..Len(second) : Fresh(second[i])
  BY <1>1, <1>2
<1>4. RowsOf(o, s) = first \o second
  BY DEF RowsOf
<1> HIDE DEF first, second
<1>5. /\ RowsOf(o, s) \in Seq(Row)
      /\ Len(RowsOf(o, s)) = Len(first) + Len(second)
      /\ \A i \in 1..Len(first) + Len(second) :
           RowsOf(o, s)[i] = IF i <= Len(first) THEN first[i] ELSE second[i - Len(first)]
  BY <1>3, <1>4, ConcatProperties
<1>6. Len(first) \in Nat /\ Len(second) \in Nat
  BY <1>3, LenProperties
<1>7. ASSUME NEW i \in 1..Len(first) + Len(second)
      PROVE  Fresh(RowsOf(o, s)[i])
  BY <1>3, <1>5, <1>6, <1>7
<1> QED
  BY <1>5, <1>7

\* The outbox grows by fresh rows only.
Grows ==
  /\ outbox' \in Seq(Row) /\ Len(outbox') <= MaxRows
  /\ Len(outbox') \in Nat /\ Len(outbox) <= Len(outbox')
  /\ \A n \in Ids : outbox'[n] = outbox[n]
  /\ \A n \in Ids' \ Ids : Fresh(outbox'[n])

LEMMA Appended ==
  ASSUME TypeOK, NEW rows \in Seq(Row), \A i \in 1..Len(rows) : Fresh(rows[i]),
         Len(outbox \o rows) <= MaxRows, outbox' = outbox \o rows
  PROVE  Grows
<1>1. /\ outbox' \in Seq(Row) /\ Len(outbox') = Len(outbox) + Len(rows)
      /\ \A i \in 1..Len(outbox) + Len(rows) :
           outbox'[i] = IF i <= Len(outbox) THEN outbox[i] ELSE rows[i - Len(outbox)]
  BY ConcatProperties DEF TypeOK
<1>2. Len(outbox) \in Nat /\ Len(rows) \in Nat
  BY LenProperties DEF TypeOK
<1>3. ASSUME NEW n \in Ids' \ Ids
      PROVE  Fresh(outbox'[n])
  <2>1. n - Len(outbox) \in 1..Len(rows) /\ n \in 1..Len(outbox) + Len(rows) /\ ~(n <= Len(outbox))
    BY <1>1, <1>2, <1>3 DEF Ids
  <2> QED
    BY <1>1, <2>1
<1> QED
  BY <1>1, <1>2, <1>3 DEF Grows, Ids

LEMMA TransitionGrows ==
  ASSUME TypeOK, NEW o \in Orders, Transition(o) \/ Resend(o)
  PROVE  Grows
<1>1. CASE Transition(o)
  <2>1. PICK s \in Statuses : Len(outbox \o RowsOf(o, s)) <= MaxRows /\ outbox' = outbox \o RowsOf(o, s)
    BY <1>1 DEF Transition
  <2> QED
    BY <2>1, SubsetAssumption, RowsOfFresh, Appended
<1>2. CASE Resend(o)
  <2> DEFINE r == NewRow(o, status[o], "user")
  <2>1. r \in Row /\ Fresh(r)
    BY NewRowType DEF TypeOK, Fresh, NewRow
  <2>2. outbox' = outbox \o <<r>> /\ Len(outbox \o <<r>>) <= MaxRows
    <3> HIDE DEF r
    <3>1. outbox' = Append(outbox, r) /\ Len(outbox) < MaxRows
      BY <1>2 DEF Resend, r
    <3> QED
      BY <2>1, <3>1, BoundsAssumption DEF TypeOK
  <2> HIDE DEF r
  <2>3. <<r>> \in Seq(Row) /\ \A i \in 1..Len(<<r>>) : Fresh(<<r>>[i])
    BY <2>1
  <2> QED
    BY <2>2, <2>3, Appended
<1> QED
  BY <1>1, <1>2

\* One row changes.
LEMMA RowSet ==
  ASSUME TypeOK, NEW n \in Ids, NEW r \in Row, outbox' = [outbox EXCEPT ![n] = r]
  PROVE  /\ outbox' \in Seq(Row) /\ Len(outbox') = Len(outbox) /\ Ids' = Ids
         /\ outbox'[n] = r /\ \A k \in Ids \ {n} : outbox'[k] = outbox[k]
  BY ExceptSeq DEF TypeOK, Ids

\* Many rows change at once.
LEMMA RowsSet ==
  ASSUME TypeOK, outbox' \in [Ids -> Row]
  PROVE  outbox' \in Seq(Row) /\ Len(outbox') = Len(outbox) /\ Ids' = Ids
<1>1. Len(outbox) \in Nat
  BY OutboxType
<1>2. outbox' \in [1..Len(outbox) -> Row]
  BY DEF Ids
<1>3. outbox' \in Seq(Row) /\ Len(outbox') = Len(outbox)
  BY <1>1, <1>2
<1> QED
  BY <1>3 DEF Ids

LEMMA LapsedType ==
  ASSUME NEW r \in Row
  PROVE  LET new == [r EXCEPT !.stale = TRUE] IN
         /\ new \in Row /\ new.stale /\ new.order = r.order /\ new.status = r.status
         /\ new.audience = r.audience /\ new.attempts = r.attempts /\ new.claim = r.claim
         /\ new.due = r.due /\ new.delivered = r.delivered /\ new.abandoned = r.abandoned
  BY DEF Row

LEMMA DueType ==
  ASSUME NEW r \in Row
  PROVE  LET new == [r EXCEPT !.due = TRUE] IN
         /\ new \in Row /\ new.due /\ new.order = r.order /\ new.status = r.status
         /\ new.audience = r.audience /\ new.attempts = r.attempts /\ new.claim = r.claim
         /\ new.stale = r.stale /\ new.delivered = r.delivered /\ new.abandoned = r.abandoned
  BY DEF Row

LEMMA ClaimedType ==
  ASSUME NEW r \in Row, NEW p \in Processes
  PROVE  LET new == [r EXCEPT !.claim = p, !.stale = FALSE] IN
         /\ new \in Row /\ new.claim = p /\ ~new.stale /\ new.order = r.order
         /\ new.status = r.status /\ new.audience = r.audience /\ new.attempts = r.attempts
         /\ new.due = r.due /\ new.delivered = r.delivered /\ new.abandoned = r.abandoned
  BY DEF Row

\* What finish_notification makes of a row that is claimed and has no outcome.
LEMMA FinishedType ==
  ASSUME NEW r \in Row, NEW ok \in BOOLEAN,
         ~r.delivered, ~r.abandoned, r.attempts < RetryLimit, r.due
  PROVE  LET new == Finished(r, ok) IN
         /\ new \in Row /\ new.claim = Nobody /\ ~new.stale
         /\ new.order = r.order /\ new.status = r.status /\ new.audience = r.audience
         /\ IF ok THEN new.delivered /\ ~new.abandoned /\ new.attempts < RetryLimit /\ new.due
                  ELSE ~new.delivered
         /\ IF new.abandoned THEN new.attempts = RetryLimit /\ new.due
                             ELSE new.attempts < RetryLimit
<1> DEFINE free == [r EXCEPT !.claim = Nobody, !.stale = FALSE]
<1>1. /\ free \in Row /\ free.claim = Nobody /\ ~free.stale /\ free.order = r.order
      /\ free.status = r.status /\ free.audience = r.audience /\ free.attempts = r.attempts
      /\ free.due = r.due /\ free.delivered = r.delivered /\ free.abandoned = r.abandoned
  BY DEF Row
<1>2. r.attempts \in Nat /\ r.attempts + 1 \in 0..RetryLimit
  BY BoundsAssumption DEF Row
<1> HIDE DEF free
<1>3. CASE ok
  <2>1. Finished(r, ok) = [free EXCEPT !.delivered = TRUE]
    BY <1>3 DEF Finished, free
  <2> QED
    BY <1>1, <1>3, <2>1 DEF Row
<1>4. CASE ~ok /\ r.attempts + 1 >= RetryLimit
  <2>1. Finished(r, ok) = [free EXCEPT !.attempts = r.attempts + 1, !.abandoned = TRUE]
    BY <1>4 DEF Finished, free
  <2>2. r.attempts + 1 = RetryLimit
    BY <1>2, <1>4, BoundsAssumption
  <2>3. [free EXCEPT !.attempts = r.attempts + 1, !.abandoned = TRUE] \in Row
    BY <1>1, <1>2 DEF Row
  <2> QED
    BY ZenonT(60), <1>1, <1>4, <2>1, <2>2, <2>3 DEF Row
<1>5. CASE ~ok /\ ~(r.attempts + 1 >= RetryLimit)
  <2>1. Finished(r, ok) = [free EXCEPT !.attempts = r.attempts + 1, !.due = FALSE]
    BY <1>5 DEF Finished, free
  <2>2. [free EXCEPT !.attempts = r.attempts + 1, !.due = FALSE] \in Row
    BY <1>1, <1>2 DEF Row
  <2>3. r.attempts + 1 < RetryLimit
    BY <1>2, <1>5, BoundsAssumption
  <2> QED
    BY <1>1, <1>5, <2>1, <2>2, <2>3 DEF Row
<1> QED
  BY <1>3, <1>4, <1>5

-----------------------------------------------------------------------------
(* Steps *)

LEMMA PollerSet ==
  ASSUME TypeOK, NEW p \in Processes, NEW new \in Poller, Set(p, new)
  PROVE  /\ poller' \in [Processes -> Poller] /\ poller'[p] = new
         /\ \A q \in Processes \ {p} : poller'[q] = poller[q]
  BY DEF TypeOK, Set

LEMMA WaitingType ==
  /\ Down \in Poller /\ Down.batch = {} /\ Waiting \in Poller
  /\ Waiting.pc = "idle" /\ Waiting.batch = {} /\ Waiting # Down
<1>1. Down \in Poller /\ Down.pc = "down" /\ Down.batch = {}
  BY DEF Down, Poller
<1>2. Waiting \in Poller /\ Waiting.pc = "idle" /\ Waiting.batch = {}
  BY <1>1 DEF Waiting, Poller
<1> QED
  BY <1>1, <1>2

\* A batch is taken from below.
LEMMA OldestProperties ==
  ASSUME TypeOK, NEW ids \in SUBSET Ids
  PROVE  /\ Oldest(ids) \subseteq ids
         /\ \A n \in Oldest(ids), k \in ids : k < n => k \in Oldest(ids)
<1>1. ids \subseteq Nat /\ IsFiniteSet(ids)
  <2>1. IsFiniteSet(Ids) /\ Ids \subseteq Nat
    BY OutboxType, FS_Interval DEF Ids
  <2> QED
    BY <2>1, FS_Subset
<1>2. ASSUME NEW n \in Oldest(ids), NEW k \in ids, k < n
      PROVE  k \in Oldest(ids)
  <2> DEFINE below(m) == {j \in ids : j < m}
  <2>1. IsFiniteSet(below(n)) /\ IsFiniteSet(below(k))
    BY <1>1, FS_Subset
  <2>2. below(k) \in SUBSET below(n)
    <3>1. n \in Nat /\ k \in Nat
      BY <1>1 DEF Oldest
    <3>2. ASSUME NEW j \in ids, j < k PROVE j < n
      BY <1>1, <1>2, <3>1, <3>2
    <3> QED
      BY <3>2
  <2>3. Cardinality(below(k)) <= Cardinality(below(n))
    BY <2>1, <2>2, FS_Subset
  <2>4. Cardinality(below(k)) \in Nat /\ Cardinality(below(n)) \in Nat
    BY <2>1, FS_CardinalityType
  <2>5. Cardinality(below(n)) < Batch
    BY DEF Oldest
  <2> QED
    BY <2>3, <2>4, <2>5, BoundsAssumption DEF Oldest
<1> QED
  BY <1>2 DEF Oldest

LEMMA Claims ==
  ASSUME TypeOK, NEW p \in Processes, Claim(p),
         NEW ids, ids = Oldest({n \in Ids : Claimable(n)})
  PROVE  /\ ids \subseteq Ids /\ \A n \in ids : Claimable(n)
         /\ outbox' \in Seq(Row) /\ Len(outbox') = Len(outbox) /\ Ids' = Ids
         /\ \A n \in ids :
              /\ outbox'[n].claim = p /\ ~outbox'[n].stale
              /\ outbox'[n].order = outbox[n].order /\ outbox'[n].status = outbox[n].status
              /\ outbox'[n].audience = outbox[n].audience
              /\ outbox'[n].attempts = outbox[n].attempts /\ outbox'[n].due = outbox[n].due
              /\ outbox'[n].delivered = outbox[n].delivered
              /\ outbox'[n].abandoned = outbox[n].abandoned
         /\ \A n \in Ids \ ids : outbox'[n] = outbox[n]
         /\ poller' \in [Processes -> Poller]
         /\ poller'[p].pc = "send"
         /\ poller'[p].batch = {[id |-> n, edit |-> outbox[n].order \in stored] : n \in ids}
         /\ \A q \in Processes \ {p} : poller'[q] = poller[q]
<1>1. ids \subseteq {n \in Ids : Claimable(n)}
  BY OldestProperties
<1>2. outbox \in [Ids -> Row] /\ Ids \subseteq 1..MaxRows
  BY OutboxType
<1>3. outbox' = [n \in Ids |->
         IF n \in ids THEN [outbox[n] EXCEPT !.claim = p, !.stale = FALSE] ELSE outbox[n]]
  BY DEF Claim
<1>4. \A n \in Ids : [outbox[n] EXCEPT !.claim = p, !.stale = FALSE] \in Row
  BY <1>2, ClaimedType
<1>5. outbox' \in [Ids -> Row]
  BY <1>2, <1>3, <1>4
<1>6. \A n \in ids :
         /\ outbox'[n].claim = p /\ ~outbox'[n].stale
         /\ outbox'[n].order = outbox[n].order /\ outbox'[n].status = outbox[n].status
         /\ outbox'[n].audience = outbox[n].audience
         /\ outbox'[n].attempts = outbox[n].attempts /\ outbox'[n].due = outbox[n].due
         /\ outbox'[n].delivered = outbox[n].delivered
         /\ outbox'[n].abandoned = outbox[n].abandoned
  <2> SUFFICES ASSUME NEW n \in ids
               PROVE  /\ outbox'[n].claim = p /\ ~outbox'[n].stale
                      /\ outbox'[n].order = outbox[n].order
                      /\ outbox'[n].status = outbox[n].status
                      /\ outbox'[n].audience = outbox[n].audience
                      /\ outbox'[n].attempts = outbox[n].attempts
                      /\ outbox'[n].due = outbox[n].due
                      /\ outbox'[n].delivered = outbox[n].delivered
                      /\ outbox'[n].abandoned = outbox[n].abandoned
    OBVIOUS
  <2> DEFINE new == [outbox[n] EXCEPT !.claim = p, !.stale = FALSE]
  <2>1. outbox[n] \in Row /\ outbox'[n] = new
    BY <1>1, <1>2, <1>3
  <2>2. /\ new.claim = p /\ ~new.stale
        /\ new.order = outbox[n].order /\ new.status = outbox[n].status
        /\ new.audience = outbox[n].audience /\ new.attempts = outbox[n].attempts
        /\ new.due = outbox[n].due /\ new.delivered = outbox[n].delivered
        /\ new.abandoned = outbox[n].abandoned
    BY ZenonT(60), <2>1, ClaimedType
  <2> HIDE DEF new
  <2> QED
    BY <2>1, <2>2
<1> DEFINE batch == {[id |-> n, edit |-> outbox[n].order \in stored] : n \in ids}
           new == [pc |-> "send", ok |-> FALSE, batch |-> batch]
<1>7. batch \subseteq Claimed
  <2>1. ASSUME NEW n \in ids
        PROVE  [id |-> n, edit |-> outbox[n].order \in stored] \in Claimed
    <3>1. n \in 1..MaxRows /\ (outbox[n].order \in stored) \in BOOLEAN
      BY <1>1, <1>2
    <3> QED
      BY <3>1 DEF Claimed
  <2> QED
    BY <2>1
<1>8. Set(p, new)
  BY DEF Claim
<1> HIDE DEF batch
<1>9. new \in Poller
  BY <1>7 DEF Poller
<1>10. new.pc = "send" /\ new.batch = batch
  OBVIOUS
<1> HIDE DEF new
<1>11. /\ poller' \in [Processes -> Poller] /\ poller'[p] = new
       /\ \A q \in Processes \ {p} : poller'[q] = poller[q]
  BY <1>8, <1>9, PollerSet
<1>12. outbox' \in Seq(Row) /\ Len(outbox') = Len(outbox) /\ Ids' = Ids
  BY <1>5, RowsSet
<1> QED
  BY <1>1, <1>3, <1>6, <1>10, <1>11, <1>12 DEF batch

LEMMA Sends ==
  ASSUME TypeOK, Inv, NEW p \in Processes, Send(p)
  PROVE  \E c \in poller[p].batch, reaches \in BOOLEAN, ok \in BOOLEAN :
           /\ poller[p].pc = "send" /\ Turn(p, c) /\ c.id \in Ids /\ (ok => reaches)
           /\ outbox[c.id] \in Row
           /\ told' = IF reaches THEN told \union {c.id} ELSE told
           /\ repeated' = IF reaches /\ c.id \in told \ troubled
                            THEN repeated \union {c.id} ELSE repeated
           /\ message' = IF reaches /\ outbox[c.id].audience = "user" /\ c.edit
                           THEN [message EXCEPT ![outbox[c.id].order] = Text(outbox[c.id].status)]
                           ELSE message
           /\ poller' \in [Processes -> Poller]
           /\ poller'[p].pc = "finish" /\ poller'[p].ok = ok
           /\ poller'[p].batch = poller[p].batch
           /\ \A q \in Processes \ {p} : poller'[q] = poller[q]
<1>1. PICK c \in poller[p].batch, reaches \in BOOLEAN, ok \in BOOLEAN :
        /\ Turn(p, c) /\ Answers(reaches, ok)
        /\ told' = IF reaches THEN told \union {c.id} ELSE told
        /\ repeated' = IF reaches /\ c.id \in told \ troubled
                         THEN repeated \union {c.id} ELSE repeated
        /\ message' = IF reaches /\ outbox[c.id].audience = "user" /\ c.edit
                        THEN [message EXCEPT ![outbox[c.id].order] = Text(outbox[c.id].status)]
                        ELSE message
        /\ Set(p, [poller[p] EXCEPT !.pc = "finish", !.ok = ok])
  BY ZenonT(60) DEF Send
<1>2. poller[p] \in Poller /\ poller[p].pc = "send"
  BY DEF TypeOK, Send
<1>3. c.id \in Ids
  BY DEF Inv, BatchFits
<1>4. outbox[c.id] \in Row
  BY <1>3, OutboxType
<1> DEFINE new == [poller[p] EXCEPT !.pc = "finish", !.ok = ok]
<1>5. /\ new \in Poller /\ new.pc = "finish" /\ new.ok = ok /\ new.batch = poller[p].batch
  BY <1>2 DEF Poller
<1>6. Set(p, new)
  BY <1>1
<1> HIDE DEF new
<1>7. /\ poller' \in [Processes -> Poller] /\ poller'[p] = new
      /\ \A q \in Processes \ {p} : poller'[q] = poller[q]
  BY <1>5, <1>6, PollerSet
<1>8. /\ poller'[p].pc = "finish" /\ poller'[p].ok = ok /\ poller'[p].batch = poller[p].batch
  BY <1>5, <1>7
<1>9. ok => reaches
  BY <1>1 DEF Answers
<1> QED
  BY <1>1, <1>2, <1>3, <1>4, <1>7, <1>8, <1>9

LEMMA RestType ==
  ASSUME NEW p \in Processes, poller[p] \in Poller, NEW c \in poller[p].batch
  PROVE  /\ Rest(p, c) \in Poller /\ Rest(p, c).pc \in {"idle", "send"}
         /\ Rest(p, c).batch = poller[p].batch \ {c}
<1>1. CASE poller[p].batch = {c}
  BY <1>1, WaitingType DEF Rest
<1>2. CASE poller[p].batch # {c}
  <2>1. Rest(p, c) = [pc |-> "send", ok |-> FALSE, batch |-> poller[p].batch \ {c}]
    BY <1>2 DEF Rest
  <2> QED
    BY <2>1 DEF Poller
<1> QED
  BY <1>1, <1>2

LEMMA Finishes ==
  ASSUME TypeOK, Inv, NEW p \in Processes, Finish(p)
  PROVE  \E c \in poller[p].batch :
           /\ poller[p].pc = "finish" /\ Turn(p, c) /\ c.id \in Ids
           /\ IF Holds(p, c.id)
                THEN /\ outbox' \in Seq(Row) /\ Len(outbox') = Len(outbox) /\ Ids' = Ids
                     /\ outbox'[c.id] = Finished(outbox[c.id], poller[p].ok)
                     /\ outbox'[c.id] \in Row
                     /\ \A k \in Ids \ {c.id} : outbox'[k] = outbox[k]
                ELSE outbox' = outbox
           /\ troubled' = IF Holds(p, c.id) /\ ~poller[p].ok
                            THEN troubled \union {c.id} ELSE troubled
           /\ poller' \in [Processes -> Poller]
           /\ poller'[p].pc \in {"idle", "send"} /\ poller'[p].batch = poller[p].batch \ {c}
           /\ \A q \in Processes \ {p} : poller'[q] = poller[q]
<1>1. PICK c \in poller[p].batch :
        /\ Turn(p, c)
        /\ outbox' = IF Holds(p, c.id)
                       THEN [outbox EXCEPT ![c.id] = Finished(outbox[c.id], poller[p].ok)]
                       ELSE outbox
        /\ troubled' = IF Holds(p, c.id) /\ ~poller[p].ok
                         THEN troubled \union {c.id} ELSE troubled
        /\ Set(p, Rest(p, c))
  BY DEF Finish
<1>2. poller[p] \in Poller /\ poller[p].pc = "finish" /\ poller[p].ok \in BOOLEAN
  BY DEF TypeOK, Finish, Poller
<1>3. c.id \in Ids
  BY DEF Inv, BatchFits
<1>4. outbox[c.id] \in Row
  BY <1>3, OutboxType
<1>5. /\ poller' \in [Processes -> Poller]
      /\ poller'[p].pc \in {"idle", "send"} /\ poller'[p].batch = poller[p].batch \ {c}
      /\ \A q \in Processes \ {p} : poller'[q] = poller[q]
  BY <1>1, <1>2, RestType, PollerSet
<1>6. ASSUME Holds(p, c.id)
      PROVE  /\ outbox' \in Seq(Row) /\ Len(outbox') = Len(outbox) /\ Ids' = Ids
             /\ outbox'[c.id] = Finished(outbox[c.id], poller[p].ok)
             /\ outbox'[c.id] \in Row
             /\ \A k \in Ids \ {c.id} : outbox'[k] = outbox[k]
  <2>1. RowFits(c.id) /\ outbox[c.id].claim # Nobody
    BY <1>3, <1>6, NobodyAssumption DEF Inv, Holds
  <2>2. ~outbox[c.id].delivered /\ ~outbox[c.id].abandoned
         /\ outbox[c.id].attempts < RetryLimit /\ outbox[c.id].due
    BY <2>1 DEF RowFits
  <2>3. Finished(outbox[c.id], poller[p].ok) \in Row
    BY <1>2, <1>4, <2>2, FinishedType
  <2>4. outbox' = [outbox EXCEPT ![c.id] = Finished(outbox[c.id], poller[p].ok)]
    BY <1>1, <1>6
  <2> QED
    BY <1>3, <2>3, <2>4, RowSet
<1> QED
  BY <1>1, <1>2, <1>3, <1>5, <1>6

-----------------------------------------------------------------------------
(* Type correctness *)

LEMMA TypeInit == Init => TypeOK
  BY WaitingType, BoundsAssumption, NobodyAssumption
  DEF Init, TypeOK, First, OrderStatus, Texts

LEMMA TypeStep ==
  ASSUME TypeOK, Inv, [Next]_vars
  PROVE  TypeOK'
<1>1. ASSUME NEW o \in Orders, Transition(o) \/ Resend(o)
      PROVE  TypeOK'
  <2>1. Grows
    BY <1>1, TransitionGrows
  <2>2. status' \in [Orders -> OrderStatus]
    BY <1>1, SubsetAssumption DEF TypeOK, Transition, Resend
  <2> QED
    BY <1>1, <2>1, <2>2 DEF TypeOK, Transition, Resend, Grows
<1>2. ASSUME NEW o \in Orders, StoreMessage(o)
      PROVE  TypeOK'
  BY <1>2 DEF TypeOK, StoreMessage, Texts
<1>3. ASSUME NEW n \in 1..MaxRows, ClaimLapses(n) \/ BackoffEnds(n)
      PROVE  TypeOK'
  <2>1. n \in Ids /\ outbox[n] \in Row
    BY <1>3, OutboxType DEF ClaimLapses, BackoffEnds
  <2>2. PICK r \in Row : outbox' = [outbox EXCEPT ![n] = r]
    BY <1>3, <2>1, LapsedType, DueType DEF ClaimLapses, BackoffEnds
  <2>3. outbox' \in Seq(Row) /\ Len(outbox') = Len(outbox)
    BY <2>1, <2>2, RowSet
  <2> QED
    BY <1>3, <2>3 DEF TypeOK, ClaimLapses, BackoffEnds
<1>4. ASSUME NEW p \in Processes, Start(p) \/ Stops(p) \/ FinishFails(p)
      PROVE  TypeOK'
  <2>1. poller' \in [Processes -> Poller]
    BY <1>4, WaitingType, PollerSet DEF Start, Stops, FinishFails
  <2>2. faults' \in 0..MaxFaults /\ lock' \in Processes \union {Nobody}
    BY <1>4, BoundsAssumption DEF TypeOK, Start, Stops, FinishFails, Fault
  <2> QED
    BY <1>4, <2>1, <2>2 DEF TypeOK, Start, Stops, FinishFails
<1>5. ASSUME LockIsLost PROVE TypeOK'
  BY <1>5, BoundsAssumption DEF TypeOK, LockIsLost, Fault
<1>6. ASSUME NEW p \in Processes, Claim(p)
      PROVE  TypeOK'
  <2>1. outbox' \in Seq(Row) /\ Len(outbox') = Len(outbox) /\ poller' \in [Processes -> Poller]
    BY <1>6, Claims
  <2> QED
    BY <1>6, <2>1 DEF TypeOK, Claim
<1>7. ASSUME NEW p \in Processes, Send(p)
      PROVE  TypeOK'
  <2>1. PICK c \in poller[p].batch, reaches \in BOOLEAN, ok \in BOOLEAN :
          /\ c.id \in Ids /\ outbox[c.id] \in Row
          /\ told' = IF reaches THEN told \union {c.id} ELSE told
          /\ repeated' = IF reaches /\ c.id \in told \ troubled
                           THEN repeated \union {c.id} ELSE repeated
          /\ message' = IF reaches /\ outbox[c.id].audience = "user" /\ c.edit
                          THEN [message EXCEPT ![outbox[c.id].order] = Text(outbox[c.id].status)]
                          ELSE message
          /\ poller' \in [Processes -> Poller]
    BY <1>7, Sends
  <2>2. c.id \in 1..MaxRows
    BY <2>1, OutboxType
  <2>3. Text(outbox[c.id].status) \in Texts
    BY <2>1 DEF Texts, Row
  <2>4. message' \in [Orders -> Texts]
    BY <2>1, <2>3 DEF TypeOK
  <2>5. told' \subseteq 1..MaxRows /\ repeated' \subseteq 1..MaxRows
    BY <2>1, <2>2 DEF TypeOK
  <2> QED
    BY <1>7, <2>1, <2>4, <2>5 DEF TypeOK, Send
<1>8. ASSUME NEW p \in Processes, Finish(p)
      PROVE  TypeOK'
  <2>1. PICK c \in poller[p].batch :
          /\ c.id \in Ids
          /\ outbox' = outbox \/ (outbox' \in Seq(Row) /\ Len(outbox') = Len(outbox))
          /\ troubled' \in {troubled, troubled \union {c.id}}
          /\ poller' \in [Processes -> Poller]
    BY <1>8, Finishes
  <2>2. c.id \in 1..MaxRows
    BY <2>1, OutboxType
  <2> QED
    BY <1>8, <2>1, <2>2 DEF TypeOK, Finish
<1>9. CASE UNCHANGED vars
  BY <1>9 DEF TypeOK, vars
<1> QED
  BY <1>1, <1>2, <1>3, <1>4, <1>5, <1>6, <1>7, <1>8, <1>9 DEF Next

-----------------------------------------------------------------------------
(* The inductive invariant *)

LEMMA InvInit == Init => Inv
<1> SUFFICES ASSUME Init PROVE Inv
  OBVIOUS
<1>1. Ids = {}
  BY DEF Init, Ids
<1>2. ASSUME NEW p \in Processes PROVE poller[p].batch = {}
  BY WaitingType DEF Init
<1> QED
  BY <1>1, <1>2 DEF Init, Inv, BatchFits

\* New rows change nothing for the others.
LEMMA GrowsInv ==
  ASSUME TypeOK, Inv, Grows, UNCHANGED <<told, troubled, repeated, poller>>
  PROVE  Inv'
<1>1. Ids \subseteq Ids'
  BY OutboxType DEF Grows, Ids
<1>2. ASSUME NEW n \in Ids'
      PROVE  RowFits(n)'
  <2>1. CASE n \in Ids
    <3>1. outbox'[n] = outbox[n] /\ RowFits(n)
      BY <2>1 DEF Grows, Inv
    <3> QED
      BY <3>1 DEF RowFits
  <2>2. CASE n \notin Ids
    <3>1. Fresh(outbox'[n]) /\ n \notin told
      BY <1>2, <2>2 DEF Grows, Inv
    <3> QED
      BY <3>1, BoundsAssumption DEF Fresh, RowFits
  <2> QED
    BY <2>1, <2>2
<1>3. ASSUME NEW p \in Processes
      PROVE  BatchFits(p)'
  <2>1. BatchFits(p)
    BY DEF Inv
  <2>2. \A c \in poller[p].batch : c.id \in Ids /\ outbox'[c.id] = outbox[c.id]
    BY <2>1 DEF BatchFits, Grows
  <2> QED
    BY <1>1, <2>1, <2>2 DEF BatchFits, Turn
<1> QED
  BY <1>1, <1>2, <1>3 DEF Inv

\* A batch is the same, or nothing is left of it.
LEMMA PollersInv ==
  ASSUME Inv, UNCHANGED <<outbox, told, troubled, repeated>>,
         \A p \in Processes : poller'[p] = poller[p] \/ poller'[p].batch = {}
  PROVE  Inv'
<1>1. Ids' = Ids /\ \A n \in Ids : RowFits(n)'
  BY DEF Inv, Ids, RowFits
<1>2. ASSUME NEW p \in Processes
      PROVE  BatchFits(p)'
  <2>1. CASE poller'[p] = poller[p]
    BY <1>1, <2>1 DEF Inv, BatchFits, Turn
  <2>2. CASE poller'[p].batch = {}
    BY <2>2 DEF BatchFits
  <2> QED
    BY <2>1, <2>2
<1> QED
  BY <1>1, <1>2 DEF Inv

\* Time makes a claim stale, which is trouble, and a row due.
LEMMA ClockInv ==
  ASSUME TypeOK, Inv, NEW n \in 1..MaxRows, ClaimLapses(n) \/ BackoffEnds(n)
  PROVE  Inv'
<1>1. n \in Ids /\ outbox[n] \in Row /\ RowFits(n)
  BY OutboxType DEF ClaimLapses, BackoffEnds, Inv
<1>2. /\ Ids' = Ids /\ \A k \in Ids \ {n} : outbox'[k] = outbox[k]
      /\ outbox'[n].claim = outbox[n].claim /\ outbox'[n].attempts = outbox[n].attempts
      /\ outbox'[n].delivered = outbox[n].delivered
      /\ outbox'[n].abandoned = outbox[n].abandoned
      /\ outbox[n].due => outbox'[n].due
      /\ outbox'[n].stale => n \in troubled'
      /\ troubled \subseteq troubled' /\ troubled' \subseteq troubled \union {n}
  <2>1. CASE ClaimLapses(n)
    <3> DEFINE r == [outbox[n] EXCEPT !.stale = TRUE]
    <3>1. /\ r \in Row /\ r.claim = outbox[n].claim /\ r.attempts = outbox[n].attempts
          /\ r.delivered = outbox[n].delivered /\ r.abandoned = outbox[n].abandoned
          /\ r.due = outbox[n].due
      BY <1>1, LapsedType
    <3>2. outbox' = [outbox EXCEPT ![n] = r]
      BY <2>1 DEF ClaimLapses
    <3> HIDE DEF r
    <3>3. Ids' = Ids /\ outbox'[n] = r /\ \A k \in Ids \ {n} : outbox'[k] = outbox[k]
      BY <1>1, <3>1, <3>2, RowSet
    <3> QED
      BY <2>1, <3>1, <3>3 DEF ClaimLapses
  <2>2. CASE BackoffEnds(n)
    <3> DEFINE r == [outbox[n] EXCEPT !.due = TRUE]
    <3>1. /\ r \in Row /\ r.claim = outbox[n].claim /\ r.attempts = outbox[n].attempts
          /\ r.delivered = outbox[n].delivered /\ r.abandoned = outbox[n].abandoned
          /\ r.due /\ r.stale = outbox[n].stale
      BY <1>1, DueType
    <3>2. outbox' = [outbox EXCEPT ![n] = r]
      BY <2>2 DEF BackoffEnds
    <3> HIDE DEF r
    <3>3. Ids' = Ids /\ outbox'[n] = r /\ \A k \in Ids \ {n} : outbox'[k] = outbox[k]
      BY <1>1, <3>1, <3>2, RowSet
    <3> QED
      BY <1>1, <2>2, <3>1, <3>3 DEF BackoffEnds, RowFits
  <2> QED
    BY <2>1, <2>2
<1>3. UNCHANGED <<told, repeated, poller>>
  BY DEF ClaimLapses, BackoffEnds
<1>4. ASSUME NEW k \in Ids
      PROVE  RowFits(k)'
  <2>1. CASE k = n
    BY <1>1, <1>2, <1>3, <2>1 DEF RowFits
  <2>2. CASE k # n
    <3>1. outbox'[k] = outbox[k] /\ RowFits(k)
      BY <1>2, <2>2 DEF Inv
    <3> QED
      BY <1>2, <1>3, <3>1 DEF RowFits
  <2> QED
    BY <2>1, <2>2
<1>5. \A k \in Ids : outbox'[k].claim = outbox[k].claim
  BY <1>2
<1>6. ASSUME NEW p \in Processes
      PROVE  BatchFits(p)'
  BY <1>2, <1>3, <1>5 DEF Inv, BatchFits, Turn
<1> QED
  BY <1>1, <1>2, <1>3, <1>4, <1>6 DEF Inv

\* A row that can be claimed is in no batch, or its claim went stale.
LEMMA ClaimInv ==
  ASSUME TypeOK, Inv, NEW p \in Processes, Claim(p)
  PROVE  Inv'
<1> PICK ids : ids = Oldest({n \in Ids : Claimable(n)})
  OBVIOUS
<1>1. /\ ids \subseteq Ids /\ \A n \in ids : Claimable(n)
      /\ Ids' = Ids
      /\ \A n \in ids :
           /\ outbox'[n].claim = p /\ ~outbox'[n].stale
           /\ outbox'[n].attempts = outbox[n].attempts /\ outbox'[n].due = outbox[n].due
           /\ outbox'[n].delivered = outbox[n].delivered
           /\ outbox'[n].abandoned = outbox[n].abandoned
      /\ \A n \in Ids \ ids : outbox'[n] = outbox[n]
      /\ poller'[p].pc = "send"
      /\ poller'[p].batch = {[id |-> n, edit |-> outbox[n].order \in stored] : n \in ids}
      /\ \A q \in Processes \ {p} : poller'[q] = poller[q]
  BY Claims
<1>2. UNCHANGED <<told, troubled, repeated>>
  BY DEF Claim
<1>3. ASSUME NEW n \in ids
      PROVE  RowFits(n)' /\ (n \in told => n \in troubled) /\ (n \notin troubled => outbox[n].claim = Nobody)
  <2>1. RowFits(n) /\ Claimable(n)
    BY <1>1 DEF Inv
  <2> QED
    BY <1>1, <1>2, <2>1, NobodyAssumption DEF RowFits, Claimable
<1>4. ASSUME NEW n \in Ids \ ids
      PROVE  RowFits(n)'
  <2>1. RowFits(n) /\ outbox'[n] = outbox[n]
    BY <1>1 DEF Inv
  <2> QED
    BY <1>2, <2>1 DEF RowFits
<1>5. BatchFits(p)'
  <2>1. ASSUME NEW c \in poller'[p].batch
        PROVE  c.id \in ids /\ c = [id |-> c.id, edit |-> outbox[c.id].order \in stored]
    BY <1>1
  <2> QED
    BY <1>1, <1>2, <1>3, <2>1 DEF BatchFits
<1>6. ASSUME NEW q \in Processes \ {p}
      PROVE  BatchFits(q)'
  <2>1. BatchFits(q) /\ poller'[q] = poller[q]
    BY <1>1 DEF Inv
  <2>2. ASSUME NEW c \in poller[q].batch, c.id \notin troubled
        PROVE  outbox'[c.id].claim = q
    <3>1. c.id \in Ids /\ outbox[c.id].claim = q
      BY <2>1, <2>2 DEF BatchFits
    <3>2. c.id \notin ids
      BY <1>3, <2>2, <3>1, NobodyAssumption
    <3> QED
      BY <1>1, <3>1, <3>2
  <2> QED
    BY <1>1, <1>2, <2>1, <2>2 DEF BatchFits, Turn
<1> QED
  BY <1>1, <1>2, <1>3, <1>4, <1>5, <1>6 DEF Inv

\* The row whose turn it is was not told before, unless it had trouble.
LEMMA SendInv ==
  ASSUME TypeOK, Inv, NEW p \in Processes, Send(p)
  PROVE  Inv'
<1>1. PICK c \in poller[p].batch, reaches \in BOOLEAN, ok \in BOOLEAN :
        /\ poller[p].pc = "send" /\ Turn(p, c) /\ c.id \in Ids /\ (ok => reaches)
        /\ told' = IF reaches THEN told \union {c.id} ELSE told
        /\ repeated' = IF reaches /\ c.id \in told \ troubled
                         THEN repeated \union {c.id} ELSE repeated
        /\ poller'[p].pc = "finish" /\ poller'[p].ok = ok
        /\ poller'[p].batch = poller[p].batch
        /\ \A q \in Processes \ {p} : poller'[q] = poller[q]
  BY Sends
<1>2. UNCHANGED <<outbox, troubled>> /\ Ids' = Ids
  BY DEF Send, Ids
<1>3. BatchFits(p) /\ RowFits(c.id)
  BY <1>1 DEF Inv
<1>4. (c.id \in told => c.id \in troubled) /\ (c.id \notin troubled => outbox[c.id].claim = p)
  BY <1>1, <1>3 DEF BatchFits
<1>5. told \subseteq told' /\ told' \subseteq told \union {c.id} /\ (ok => c.id \in told')
  BY <1>1
<1>6. repeated' = {} /\ told' \subseteq Ids
  BY <1>1, <1>4, <1>5 DEF Inv
<1>7. ASSUME NEW n \in Ids
      PROVE  RowFits(n)'
  <2>1. RowFits(n)
    BY DEF Inv
  <2> QED
    BY <1>2, <1>4, <1>5, <2>1, NobodyAssumption DEF RowFits
<1>8. BatchFits(p)'
  <2>1. ASSUME NEW d \in poller[p].batch
        PROVE  (d.id = c.id => d = c) /\ (Turn(p, d)' <=> Turn(p, d)) /\ (Turn(p, d) => d.id = c.id)
    <3>1. Turn(p, d) => d.id <= c.id /\ c.id <= d.id
      BY <1>1 DEF Turn
    <3>2. d.id \in Nat /\ c.id \in Nat
      BY <1>1, <1>3, OutboxType DEF BatchFits
    <3> QED
      BY <1>1, <1>3, <3>1, <3>2 DEF BatchFits, Turn
  <2> QED
    BY <1>1, <1>2, <1>3, <1>5, <2>1 DEF BatchFits
<1>9. ASSUME NEW q \in Processes \ {p}
      PROVE  BatchFits(q)'
  <2>1. BatchFits(q) /\ poller'[q] = poller[q]
    BY <1>1 DEF Inv
  <2>2. \A d \in poller[q].batch : d.id = c.id => d.id \in troubled
    BY <1>4, <2>1 DEF BatchFits
  <2> QED
    BY <1>2, <1>5, <2>1, <2>2 DEF BatchFits, Turn
<1> QED
  BY <1>2, <1>6, <1>7, <1>8, <1>9 DEF Inv

\* The outcome is stored by the process that has the claim, and the row leaves its
\* batch; a row in another batch has had trouble.
LEMMA FinishInv ==
  ASSUME TypeOK, Inv, NEW p \in Processes, Finish(p)
  PROVE  Inv'
<1>1. PICK c \in poller[p].batch :
        /\ poller[p].pc = "finish" /\ Turn(p, c) /\ c.id \in Ids
        /\ IF Holds(p, c.id)
             THEN /\ Ids' = Ids
                  /\ outbox'[c.id] = Finished(outbox[c.id], poller[p].ok)
                  /\ \A k \in Ids \ {c.id} : outbox'[k] = outbox[k]
             ELSE outbox' = outbox
        /\ troubled' = IF Holds(p, c.id) /\ ~poller[p].ok
                         THEN troubled \union {c.id} ELSE troubled
        /\ poller'[p].pc \in {"idle", "send"} /\ poller'[p].batch = poller[p].batch \ {c}
        /\ \A q \in Processes \ {p} : poller'[q] = poller[q]
  BY Finishes
<1>2. UNCHANGED <<told, repeated>>
  BY DEF Finish
<1>3. Ids' = Ids /\ \A k \in Ids \ {c.id} : outbox'[k] = outbox[k]
  BY <1>1 DEF Ids
<1>4. BatchFits(p) /\ RowFits(c.id) /\ outbox[c.id] \in Row /\ poller[p].ok \in BOOLEAN
  BY <1>1, OutboxType DEF Inv, TypeOK, Poller
<1>5. troubled \subseteq troubled' /\ troubled' \subseteq Ids
  BY <1>1 DEF Inv
<1>6. RowFits(c.id)'
  <2>1. CASE Holds(p, c.id)
    <3>1. /\ ~outbox[c.id].delivered /\ ~outbox[c.id].abandoned
          /\ outbox[c.id].attempts < RetryLimit /\ outbox[c.id].due
      BY <1>4, <2>1, NobodyAssumption DEF RowFits, Holds
    <3> DEFINE r == Finished(outbox[c.id], poller[p].ok)
    <3>2. /\ r.claim = Nobody /\ ~r.stale
          /\ IF poller[p].ok
               THEN r.delivered /\ ~r.abandoned /\ r.attempts < RetryLimit /\ r.due
               ELSE ~r.delivered
          /\ IF r.abandoned THEN r.attempts = RetryLimit /\ r.due
                            ELSE r.attempts < RetryLimit
      BY <1>4, <3>1, FinishedType
    <3>3. outbox'[c.id] = r
      BY <1>1, <2>1
    <3> HIDE DEF r
    <3>4. poller[p].ok => c.id \in told
      BY <1>1, <1>4 DEF BatchFits
    <3>5. ~poller[p].ok => c.id \in troubled'
      BY <1>1, <2>1
    <3> QED
      BY <1>2, <3>2, <3>3, <3>4, <3>5 DEF RowFits
  <2>2. CASE ~Holds(p, c.id)
    BY <1>1, <1>2, <1>4, <2>2 DEF RowFits
  <2> QED
    BY <2>1, <2>2
<1>7. ASSUME NEW n \in Ids \ {c.id}
      PROVE  RowFits(n)'
  <2>1. RowFits(n) /\ outbox'[n] = outbox[n]
    BY <1>3 DEF Inv
  <2> QED
    BY <1>2, <1>5, <2>1 DEF RowFits
<1>8. BatchFits(p)'
  <2>1. ASSUME NEW d \in poller[p].batch \ {c}
        PROVE  d.id # c.id /\ d.id \in Ids /\ ~Turn(p, d)
    <3>1. Turn(p, d) => d.id <= c.id /\ c.id <= d.id
      BY <1>1 DEF Turn
    <3>2. d.id # c.id /\ d.id \in Ids
      BY <1>4 DEF BatchFits
    <3>3. d.id \in Nat /\ c.id \in Nat
      BY <1>1, <3>2, OutboxType
    <3> QED
      BY <3>1, <3>2, <3>3
  <2>2. ASSUME NEW d \in poller[p].batch \ {c}
        PROVE  /\ d.id \notin troubled' => outbox'[d.id].claim = p
               /\ d.id \in told => d.id \in troubled'
    BY <1>3, <1>4, <1>5, <2>1, <2>2 DEF BatchFits
  <2> QED
    BY <1>1, <1>2, <1>3, <1>4, <2>1, <2>2 DEF BatchFits
<1>9. ASSUME NEW q \in Processes \ {p}
      PROVE  BatchFits(q)'
  <2>1. BatchFits(q) /\ poller'[q] = poller[q]
    BY <1>1 DEF Inv
  <2>2. ASSUME NEW d \in poller[q].batch, d.id \notin troubled'
        PROVE  outbox'[d.id].claim = q
    <3>1. outbox[d.id].claim = q /\ d.id \in Ids
      BY <1>5, <2>1, <2>2 DEF BatchFits
    <3>2. CASE d.id = c.id
      BY <1>1, <3>1, <3>2 DEF Holds
    <3>3. CASE d.id # c.id
      BY <1>3, <3>1, <3>3
    <3> QED
      BY <3>2, <3>3
  <2> QED
    BY <1>2, <1>3, <1>5, <2>1, <2>2 DEF BatchFits, Turn
<1> QED
  BY <1>2, <1>3, <1>5, <1>6, <1>7, <1>8, <1>9 DEF Inv

LEMMA InvStep ==
  ASSUME TypeOK, Inv, [Next]_vars
  PROVE  Inv'
<1>1. ASSUME NEW o \in Orders, Transition(o) \/ Resend(o) \/ StoreMessage(o)
      PROVE  Inv'
  BY <1>1, TransitionGrows, GrowsInv, PollersInv DEF Transition, Resend, StoreMessage
<1>2. ASSUME NEW p \in Processes, Start(p) \/ Stops(p) \/ FinishFails(p)
      PROVE  Inv'
  <2>1. \A q \in Processes : poller'[q] = poller[q] \/ poller'[q].batch = {}
    BY <1>2, WaitingType, PollerSet DEF Start, Stops, FinishFails
  <2> QED
    BY <1>2, <2>1, PollersInv DEF Start, Stops, FinishFails
<1>3. CASE LockIsLost \/ UNCHANGED vars
  BY <1>3, PollersInv DEF LockIsLost, vars
<1> QED
  BY <1>1, <1>2, <1>3, ClockInv, ClaimInv, SendInv, FinishInv DEF Next

-----------------------------------------------------------------------------
(* Theorems *)

\* The types and the inductive invariant of the outbox.
THEOREM InvariantHolds == Spec => [](TypeOK /\ Inv)
<1>1. Init => TypeOK /\ Inv
  BY TypeInit, InvInit
<1>2. TypeOK /\ Inv /\ [Next]_vars => TypeOK' /\ Inv'
  BY TypeStep, InvStep
<1> QED
  BY <1>1, <1>2, PTL DEF Spec

\* Nobody is told the same thing twice without a failed attempt or a stale claim
\* (claim_notifications, ProcessLock).
THEOREM RepeatedAfterFault == Spec => []RepeatedOnlyAfterFault
<1>1. Inv => RepeatedOnlyAfterFault
  BY DEF Inv, RepeatedOnlyAfterFault
<1> QED
  BY <1>1, InvariantHolds, PTL

\* A delivered row was told, an abandoned one used up its attempts
\* (finish_notification).
THEOREM OutcomeEarned == Spec => []OutcomeIsEarned
<1>1. Inv => OutcomeIsEarned
  BY DEF Inv, OutcomeIsEarned, RowFits
<1> QED
  BY <1>1, InvariantHolds, PTL

LEMMA OutcomeStep ==
  ASSUME TypeOK, Inv, [Next]_vars, NEW n \in Ids,
         outbox[n].delivered \/ outbox[n].abandoned
  PROVE  outbox'[n] = outbox[n]
<1>1. outbox[n].claim = Nobody /\ outbox[n].due
  BY DEF Inv, RowFits
<1>2. ASSUME NEW o \in Orders, Transition(o) \/ Resend(o)
      PROVE  outbox'[n] = outbox[n]
  BY <1>2, TransitionGrows DEF Grows
<1>3. ASSUME NEW k \in 1..MaxRows, ClaimLapses(k) \/ BackoffEnds(k)
      PROVE  outbox'[n] = outbox[n]
  <2>1. k # n /\ k \in Ids /\ outbox[k] \in Row
    BY <1>1, <1>3, OutboxType DEF ClaimLapses, BackoffEnds
  <2>2. PICK r \in Row : outbox' = [outbox EXCEPT ![k] = r]
    BY <1>3, <2>1, LapsedType, DueType DEF ClaimLapses, BackoffEnds
  <2> QED
    BY <2>1, <2>2, RowSet
<1>4. ASSUME NEW p \in Processes, Claim(p)
      PROVE  outbox'[n] = outbox[n]
  <2> PICK ids : ids = Oldest({k \in Ids : Claimable(k)})
    OBVIOUS
  <2>1. /\ \A k \in ids : Claimable(k)
        /\ \A k \in Ids \ ids : outbox'[k] = outbox[k]
    BY <1>4, Claims
  <2> QED
    BY <2>1 DEF Claimable
<1>5. ASSUME NEW p \in Processes, Finish(p)
      PROVE  outbox'[n] = outbox[n]
  <2>1. PICK c \in poller[p].batch :
          IF Holds(p, c.id) THEN \A k \in Ids \ {c.id} : outbox'[k] = outbox[k]
                            ELSE outbox' = outbox
    BY <1>5, Finishes
  <2>2. Holds(p, c.id) => c.id # n
    BY <1>1, NobodyAssumption DEF Holds
  <2> QED
    BY <2>1, <2>2
<1>6. ASSUME UNCHANGED outbox
      PROVE  outbox'[n] = outbox[n]
  BY <1>6
<1> QED
  BY <1>2, <1>3, <1>4, <1>5, <1>6
  DEF Next, StoreMessage, Start, Stops, Send, FinishFails, LockIsLost, vars

\* No step changes a row that was delivered or given up (finish_notification,
\* claim_notifications).
THEOREM OutcomeFinal == Spec => OutcomeIsFinal
<1>1. TypeOK /\ Inv /\ [Next]_vars =>
        [\A n \in Ids : outbox[n].delivered \/ outbox[n].abandoned =>
           outbox'[n] = outbox[n]]_vars
  BY OutcomeStep
<1> QED
  BY <1>1, InvariantHolds, PTL DEF Spec, OutcomeIsFinal

-----------------------------------------------------------------------------
(* The customer message *)

LEMMA FirstType == First \in Processes /\ First # Nobody
  BY NobodyAssumption DEF First

LEMMA CurrentInit == Init => CurrentInv
<1> SUFFICES ASSUME Init PROVE CurrentInv
  OBVIOUS
<1>1. Ids = {} /\ \A o \in Orders : Mine(o) = {}
  BY DEF Init, Ids, Mine
<1>2. poller[First].batch = {} /\ Batched = {}
  BY FirstType, WaitingType DEF Init, Batched
<1>3. OnlyFirst
  BY <1>1 DEF Init, OnlyFirst
<1>4. EditsFit
  BY <1>2 DEF EditsFit
<1>5. \A o \in Orders : ToldInOrder(o)
  BY <1>1 DEF Init, ToldInOrder
<1> QED
  BY <1>3, <1>4, <1>5 DEF CurrentInv

\* What the other rows of an order and their batch were before.
LEMMA GrowsCurrent ==
  ASSUME TypeOK, Inv, CurrentInv, faults = 0, Grows,
         UNCHANGED <<stored, message, told, troubled, lock, poller>>
  PROVE  CurrentInv'
<1>1. OnlyFirst /\ EditsFit /\ First \in Processes
  BY FirstType DEF CurrentInv
<1>2. /\ Batched' = Batched /\ Batched \subseteq Ids /\ told \subseteq Ids
      /\ troubled \subseteq Ids /\ Ids \subseteq Ids'
      /\ \A n \in Ids : outbox'[n] = outbox[n]
  BY <1>1, OutboxType DEF Grows, Inv, BatchFits, Batched, Ids
<1>3. OnlyFirst'
  <2>1. ASSUME NEW n \in Ids' \ troubled
        PROVE  IF outbox'[n].claim = Nobody THEN outbox'[n].due /\ ~outbox'[n].abandoned
                                            ELSE n \in Batched
    BY <1>1, <1>2, <2>1 DEF OnlyFirst, Grows, Fresh
  <2> QED
    BY <1>1, <1>2, <2>1 DEF OnlyFirst
<1>4. EditsFit'
  <2>1. \A c \in poller[First].batch : outbox'[c.id] = outbox[c.id]
    BY <1>2 DEF Batched
  <2> QED
    BY <1>1, <2>1 DEF EditsFit
<1>5. ASSUME NEW o \in Orders, Mine(o)' \intersect troubled' = {}
      PROVE  ToldInOrder(o)'
  <2>1. \A n \in Ids : n \in Mine(o)' <=> n \in Mine(o)
    BY <1>2 DEF Mine
  <2>2. ToldInOrder(o)
    BY <1>2, <1>5, <2>1 DEF CurrentInv
  <2>3. \A n \in Mine(o)', k \in Mine(o)' : k < n => (n \in Ids => k \in Ids)
    BY OutboxType DEF Mine, Ids, Grows
  <2>4. \A n \in Mine(o)', k \in Mine(o)' : k < n =>
          /\ n \in told => k \in told
          /\ n \in Batched => k \in told \union Batched
    BY <1>2, <2>1, <2>2, <2>3 DEF ToldInOrder
  <2>5. Mine(o)' \intersect told = Mine(o) \intersect told
    BY <1>2, <2>1 DEF Mine
  <2>6. o \in stored /\ message[o] # "invoice" =>
          \E n \in Mine(o)' \intersect told :
            (\A k \in Mine(o)' \intersect told : k <= n) /\ message[o] = Text(outbox'[n].status)
    BY <1>2, <2>2, <2>5 DEF ToldInOrder
  <2> QED
    BY <1>2, <2>4, <2>6 DEF ToldInOrder
<1> QED
  BY <1>3, <1>4, <1>5 DEF CurrentInv

\* Trouble excuses an order, and time does nothing else.
LEMMA ClockCurrent ==
  ASSUME TypeOK, Inv, CurrentInv, faults = 0,
         NEW n \in 1..MaxRows, ClaimLapses(n) \/ BackoffEnds(n)
  PROVE  CurrentInv'
<1>1. OnlyFirst /\ EditsFit /\ First \in Processes
  BY FirstType DEF CurrentInv
<1>2. n \in Ids /\ outbox[n] \in Row
  BY OutboxType DEF ClaimLapses, BackoffEnds
<1>3. PICK r \in Row :
        /\ outbox' = [outbox EXCEPT ![n] = r]
        /\ r.order = outbox[n].order /\ r.status = outbox[n].status
        /\ r.audience = outbox[n].audience
        /\ r.claim = outbox[n].claim /\ r.abandoned = outbox[n].abandoned
        /\ r.due = outbox[n].due \/ r.due
  <2>1. CASE ClaimLapses(n)
    <3> DEFINE new == [outbox[n] EXCEPT !.stale = TRUE]
    <3>1. outbox' = [outbox EXCEPT ![n] = new]
      BY <2>1 DEF ClaimLapses
    <3>2. /\ new \in Row /\ new.order = outbox[n].order /\ new.status = outbox[n].status
          /\ new.audience = outbox[n].audience /\ new.claim = outbox[n].claim
          /\ new.abandoned = outbox[n].abandoned /\ new.due = outbox[n].due
      BY <1>2, LapsedType
    <3> HIDE DEF new
    <3> QED
      BY <3>1, <3>2
  <2>2. CASE BackoffEnds(n)
    <3> DEFINE new == [outbox[n] EXCEPT !.due = TRUE]
    <3>1. outbox' = [outbox EXCEPT ![n] = new]
      BY <2>2 DEF BackoffEnds
    <3>2. /\ new \in Row /\ new.order = outbox[n].order /\ new.status = outbox[n].status
          /\ new.audience = outbox[n].audience /\ new.claim = outbox[n].claim
          /\ new.abandoned = outbox[n].abandoned /\ new.due
      BY <1>2, DueType
    <3> HIDE DEF new
    <3> QED
      BY <3>1, <3>2
  <2> QED
    BY <2>1, <2>2
<1>4. Ids' = Ids /\ outbox'[n] = r /\ \A k \in Ids \ {n} : outbox'[k] = outbox[k]
  BY <1>2, <1>3, RowSet
<1>5. UNCHANGED <<stored, message, told, lock, poller>> /\ troubled \subseteq troubled'
  BY DEF ClaimLapses, BackoffEnds
<1>6. \A k \in Ids :
        /\ outbox'[k].order = outbox[k].order /\ outbox'[k].status = outbox[k].status
        /\ outbox'[k].audience = outbox[k].audience /\ outbox'[k].claim = outbox[k].claim
        /\ outbox'[k].abandoned = outbox[k].abandoned
        /\ outbox[k].due => outbox'[k].due
  BY <1>3, <1>4
<1>7. Batched' = Batched /\ Batched \subseteq Ids
  BY <1>1, <1>5 DEF Inv, BatchFits, Batched
<1>8. OnlyFirst'
  BY <1>1, <1>4, <1>5, <1>6, <1>7 DEF OnlyFirst
<1>9. EditsFit'
  <2>1. \A c \in poller[First].batch : outbox'[c.id].order = outbox[c.id].order
    BY <1>6, <1>7 DEF Batched
  <2> QED
    BY <1>1, <1>5, <2>1 DEF EditsFit
<1>10. ASSUME NEW o \in Orders, Mine(o)' \intersect troubled' = {}
       PROVE  ToldInOrder(o)'
  <2>1. Mine(o)' = Mine(o)
    BY <1>4, <1>6 DEF Mine
  <2>2. ToldInOrder(o)
    BY <1>5, <1>10, <2>1 DEF CurrentInv
  <2>3. \A k \in Mine(o) : outbox'[k].status = outbox[k].status
    BY <1>6 DEF Mine
  <2> QED
    BY <1>5, <1>7, <2>1, <2>2, <2>3 DEF ToldInOrder
<1> QED
  BY <1>8, <1>9, <1>10 DEF CurrentInv

\* The invoice replaces whatever the message showed.
LEMMA StoreCurrent ==
  ASSUME TypeOK, CurrentInv, faults = 0, NEW o \in Orders, StoreMessage(o)
  PROVE  CurrentInv'
<1>1. UNCHANGED <<outbox, told, troubled, lock, poller>>
  BY DEF StoreMessage
<1>2. /\ message'[o] = "invoice" /\ stored' = stored \union {o}
      /\ \A p \in Orders \ {o} : message'[p] = message[p]
  BY DEF StoreMessage, TypeOK
<1>3. OnlyFirst /\ EditsFit
  BY DEF CurrentInv
<1>4. Ids' = Ids /\ Batched' = Batched /\ \A p \in Orders : Mine(p)' = Mine(p)
  BY <1>1 DEF Ids, Batched, Mine
<1>5. OnlyFirst'
  BY <1>1, <1>3, <1>4 DEF OnlyFirst
<1>6. EditsFit'
  <2>1. ASSUME NEW q, q \in stored', message'[q] # "invoice"
        PROVE  q \in stored /\ message[q] # "invoice"
    BY <1>2, <2>1 DEF TypeOK
  <2> QED
    BY <1>1, <1>3, <2>1 DEF EditsFit
<1>7. ASSUME NEW q \in Orders, Mine(q)' \intersect troubled' = {}
      PROVE  ToldInOrder(q)'
  <2>1. ToldInOrder(q)
    BY <1>1, <1>4, <1>7 DEF CurrentInv
  <2>2. q \in stored' /\ message'[q] # "invoice" =>
          q \in stored /\ message'[q] = message[q]
    BY <1>2
  <2> QED
    BY <1>1, <1>4, <2>1, <2>2 DEF ToldInOrder
<1> QED
  BY <1>5, <1>6, <1>7 DEF CurrentInv

\* A claim takes every row before the ones it takes, unless they were told.
LEMMA ClaimCurrent ==
  ASSUME TypeOK, Inv, CurrentInv, faults = 0, NEW p \in Processes, Claim(p)
  PROVE  CurrentInv'
<1>1. OnlyFirst /\ First \in Processes
  BY FirstType DEF CurrentInv
<1>2. p = First /\ poller[First].batch = {} /\ Batched = {}
  BY <1>1, WaitingType DEF OnlyFirst, Claim, Batched
<1> PICK ids : ids = Oldest({n \in Ids : Claimable(n)})
  OBVIOUS
<1>3. /\ ids \subseteq Ids /\ \A n \in ids : Claimable(n)
      /\ Ids' = Ids
      /\ \A n \in ids :
           /\ outbox'[n].claim = First
           /\ outbox'[n].order = outbox[n].order /\ outbox'[n].status = outbox[n].status
           /\ outbox'[n].audience = outbox[n].audience
      /\ \A n \in Ids \ ids : outbox'[n] = outbox[n]
      /\ poller'[First].batch = {[id |-> n, edit |-> outbox[n].order \in stored] : n \in ids}
      /\ \A q \in Processes \ {First} : poller'[q] = poller[q]
  BY <1>2, Claims
<1>4. UNCHANGED <<stored, message, told, troubled, lock>>
  BY DEF Claim
<1>5. Batched' = ids
  <2> DEFINE claimed(n) == [id |-> n, edit |-> outbox[n].order \in stored]
  <2>1. Batched' = {c.id : c \in {claimed(n) : n \in ids}}
    BY <1>3 DEF Batched
  <2>2. \A n \in ids : claimed(n).id = n
    OBVIOUS
  <2> HIDE DEF claimed
  <2> QED
    BY <2>1, <2>2
<1>6. OnlyFirst'
  <2>1. ASSUME NEW n \in Ids \ troubled
        PROVE  IF outbox'[n].claim = Nobody THEN outbox'[n].due /\ ~outbox'[n].abandoned
                                            ELSE n \in ids
    <3>1. IF outbox[n].claim = Nobody THEN outbox[n].due /\ ~outbox[n].abandoned
                                      ELSE n \in Batched
      BY <1>1, <2>1 DEF OnlyFirst
    <3>2. CASE n \in ids
      BY <1>3, <3>2, FirstType
    <3>3. CASE n \notin ids
      <4>1. n \in Ids \ ids /\ outbox'[n] = outbox[n]
        BY <1>3, <2>1, <3>3
      <4> QED
        BY <1>2, <3>1, <4>1
    <3> QED
      BY <3>2, <3>3
  <2> QED
    BY <1>1, <1>3, <1>4, <1>5, <2>1 DEF OnlyFirst
<1>7. EditsFit'
  <2>1. ASSUME NEW c \in poller'[First].batch
        PROVE  /\ outbox'[c.id].order = outbox[c.id].order
               /\ c.edit = (outbox[c.id].order \in stored)
    BY <1>3
  <2> QED
    BY <1>4, <2>1 DEF EditsFit
<1>8. ASSUME NEW o \in Orders, Mine(o)' \intersect troubled' = {}
      PROVE  ToldInOrder(o)'
  <2>1. \A n \in Ids :
          /\ outbox'[n].order = outbox[n].order /\ outbox'[n].status = outbox[n].status
          /\ outbox'[n].audience = outbox[n].audience
    BY <1>3
  <2>2. Mine(o)' = Mine(o) /\ Mine(o) \subseteq Ids
    BY <1>3, <2>1 DEF Mine
  <2>3. ToldInOrder(o)
    BY <1>4, <1>8, <2>2 DEF CurrentInv
  <2>4. ASSUME NEW k \in Mine(o), k \notin told
        PROVE  k \in {n \in Ids : Claimable(n)}
    <3>1. k \in Ids \ troubled /\ RowFits(k)
      BY <1>4, <1>8, <2>2 DEF Inv
    <3>2. outbox[k].claim = Nobody /\ outbox[k].due /\ ~outbox[k].abandoned
      BY <1>1, <1>2, <3>1 DEF OnlyFirst
    <3> QED
      BY <2>4, <3>1, <3>2 DEF RowFits, Claimable
  <2>5. ASSUME NEW n \in Mine(o), NEW k \in Mine(o), k < n, n \in ids
        PROVE  k \in told \union ids
    BY <2>4, <2>5, OldestProperties
  <2> QED
    BY <1>4, <1>5, <2>1, <2>2, <2>3, <2>5 DEF ToldInOrder
<1> QED
  BY <1>6, <1>7, <1>8 DEF CurrentInv

\* The row whose turn it is comes after all the rows of its order that were told.
LEMMA SendCurrent ==
  ASSUME TypeOK, Inv, CurrentInv, faults = 0, NEW p \in Processes, Send(p)
  PROVE  CurrentInv'
<1>1. OnlyFirst /\ EditsFit /\ First \in Processes
  BY FirstType DEF CurrentInv
<1>2. p = First
  BY <1>1 DEF OnlyFirst, Send, Down
<1>3. PICK c \in poller[First].batch, reaches \in BOOLEAN, ok \in BOOLEAN :
        /\ poller[First].pc = "send" /\ Turn(First, c) /\ c.id \in Ids
        /\ outbox[c.id] \in Row
        /\ told' = IF reaches THEN told \union {c.id} ELSE told
        /\ message' = IF reaches /\ outbox[c.id].audience = "user" /\ c.edit
                        THEN [message EXCEPT ![outbox[c.id].order] = Text(outbox[c.id].status)]
                        ELSE message
        /\ poller'[First].batch = poller[First].batch
        /\ \A q \in Processes \ {First} : poller'[q] = poller[q]
  BY <1>2, Sends
<1>4. UNCHANGED <<outbox, stored, troubled, lock>>
  BY DEF Send
<1>5. Ids' = Ids /\ Batched' = Batched /\ Batched \subseteq Ids /\ Ids \subseteq Nat
  BY <1>1, <1>3, <1>4, OutboxType DEF Ids, Batched, Inv, BatchFits
<1>6. outbox[c.id].order \in Orders /\ message \in [Orders -> Texts]
  BY <1>3 DEF Row, TypeOK
<1>7. OnlyFirst'
  BY <1>1, <1>3, <1>4, <1>5 DEF OnlyFirst
<1>8. EditsFit'
  <2>1. ASSUME NEW d \in poller[First].batch,
               outbox[d.id].order \in stored, message'[outbox[d.id].order] # "invoice"
        PROVE  d.edit
    <3>1. CASE message'[outbox[d.id].order] = message[outbox[d.id].order]
      BY <1>1, <2>1, <3>1 DEF EditsFit
    <3>2. CASE message'[outbox[d.id].order] # message[outbox[d.id].order]
      <4>1. c.edit /\ outbox[d.id].order = outbox[c.id].order
        BY <1>3, <1>6, <3>2
      <4> QED
        BY <1>1, <1>3, <4>1 DEF EditsFit
    <3> QED
      BY <3>1, <3>2
  <2> QED
    BY <1>1, <1>3, <1>4, <2>1 DEF EditsFit
<1>9. ASSUME NEW o \in Orders, Mine(o)' \intersect troubled' = {}
      PROVE  ToldInOrder(o)'
  <2>1. Mine(o)' = Mine(o) /\ Mine(o) \subseteq Ids
    BY <1>4, <1>5 DEF Mine
  <2>2. ToldInOrder(o) /\ Mine(o) \intersect troubled = {}
    BY <1>4, <1>9, <2>1 DEF CurrentInv
  <2>3. ASSUME NEW k \in Mine(o), k < c.id, c.id \in Mine(o)
        PROVE  k \in told
    <3>1. c.id \in Batched
      BY <1>3 DEF Batched
    <3>2. k \in told \union Batched
      BY <2>2, <2>3, <3>1 DEF ToldInOrder
    <3>3. ASSUME k \in Batched PROVE FALSE
      <4>1. c.id <= k
        BY <1>3, <3>3 DEF Turn, Batched
      <4>2. c.id \in Nat /\ k \in Nat
        BY <1>3, <1>5, <2>1
      <4> QED
        BY <2>3, <4>1, <4>2
    <3> QED
      BY <3>2, <3>3
  <2>4. \A n \in Mine(o), k \in Mine(o) : k < n =>
          /\ n \in told' => k \in told'
          /\ n \in Batched => k \in told' \union Batched
    BY <1>3, <2>2, <2>3 DEF ToldInOrder
  <2>5. ASSUME o \in stored, message'[o] # "invoice"
        PROVE  \E n \in Mine(o) \intersect told' :
                 (\A k \in Mine(o) \intersect told' : k <= n) /\ message'[o] = Text(outbox[n].status)
    <3>1. CASE ~reaches \/ c.id \notin Mine(o)
      <4>1. message'[o] = message[o] /\ Mine(o) \intersect told' = Mine(o) \intersect told
        BY <1>3, <1>6, <3>1 DEF Mine
      <4> QED
        BY <2>2, <2>5, <4>1 DEF ToldInOrder
    <3>2. CASE reaches /\ c.id \in Mine(o)
      <4>1. outbox[c.id].order = o /\ outbox[c.id].audience = "user"
        BY <3>2 DEF Mine
      <4>2. c.edit
        <5>1. ~c.edit => message'[o] = message[o]
          BY <1>3
        <5> QED
          BY <1>1, <1>3, <2>5, <4>1, <5>1 DEF EditsFit
      <4>3. message'[o] = Text(outbox[c.id].status) /\ c.id \in told'
        BY <1>3, <1>6, <3>2, <4>1, <4>2
      <4>4. c.id \notin told
        <5>1. c.id \notin troubled
          BY <2>2, <3>2
        <5> QED
          BY <1>1, <1>3, <5>1 DEF Inv, BatchFits
      <4>5. ASSUME NEW k \in Mine(o) \intersect told'
            PROVE  k <= c.id
        <5>1. k \in Nat /\ c.id \in Nat
          BY <1>3, <1>5, <2>1
        <5>2. c.id < k => c.id \in told
          BY <1>3, <2>2, <3>2, <5>1 DEF ToldInOrder
        <5> QED
          BY <4>4, <5>1, <5>2
      <4> QED
        BY <3>2, <4>3, <4>5
    <3> QED
      BY <3>1, <3>2
  <2> QED
    BY <1>4, <1>5, <2>1, <2>4, <2>5 DEF ToldInOrder
<1> QED
  BY <1>7, <1>8, <1>9 DEF CurrentInv

\* A row without trouble leaves its batch told and delivered.
LEMMA FinishCurrent ==
  ASSUME TypeOK, Inv, CurrentInv, faults = 0, NEW p \in Processes, Finish(p)
  PROVE  CurrentInv'
<1>1. OnlyFirst /\ EditsFit /\ First \in Processes
  BY FirstType DEF CurrentInv
<1>2. p = First
  BY <1>1 DEF OnlyFirst, Finish, Down
<1>3. PICK c \in poller[First].batch :
        /\ poller[First].pc = "finish" /\ Turn(First, c) /\ c.id \in Ids
        /\ IF Holds(First, c.id)
             THEN /\ Ids' = Ids
                  /\ outbox'[c.id] = Finished(outbox[c.id], poller[First].ok)
                  /\ \A k \in Ids \ {c.id} : outbox'[k] = outbox[k]
             ELSE outbox' = outbox
        /\ troubled' = IF Holds(First, c.id) /\ ~poller[First].ok
                         THEN troubled \union {c.id} ELSE troubled
        /\ poller'[First].batch = poller[First].batch \ {c}
        /\ \A q \in Processes \ {First} : poller'[q] = poller[q]
  BY <1>2, Finishes
<1>4. UNCHANGED <<stored, message, told, lock>> /\ Ids' = Ids
       /\ \A k \in Ids \ {c.id} : outbox'[k] = outbox[k]
  BY <1>3 DEF Finish, Ids
<1>5. BatchFits(First) /\ RowFits(c.id) /\ outbox[c.id] \in Row
       /\ poller[First].ok \in BOOLEAN
  BY <1>1, <1>3, OutboxType DEF Inv, TypeOK, Poller
<1>6. Batched' = Batched \ {c.id} /\ Batched \subseteq Ids
  BY <1>3, <1>5 DEF Batched, BatchFits
<1>7. /\ outbox'[c.id].order = outbox[c.id].order /\ outbox'[c.id].status = outbox[c.id].status
      /\ outbox'[c.id].audience = outbox[c.id].audience
      /\ Holds(First, c.id) /\ poller[First].ok =>
           outbox'[c.id].claim = Nobody /\ outbox'[c.id].due /\ ~outbox'[c.id].abandoned
  <2>1. CASE Holds(First, c.id)
    <3>1. /\ ~outbox[c.id].delivered /\ ~outbox[c.id].abandoned
          /\ outbox[c.id].attempts < RetryLimit /\ outbox[c.id].due
      BY <1>5, <2>1, FirstType DEF RowFits, Holds
    <3> DEFINE r == Finished(outbox[c.id], poller[First].ok)
    <3>2. /\ r.order = outbox[c.id].order /\ r.status = outbox[c.id].status
          /\ r.audience = outbox[c.id].audience /\ r.claim = Nobody
          /\ poller[First].ok => r.due /\ ~r.abandoned
      BY <1>5, <3>1, FinishedType
    <3>3. outbox'[c.id] = r
      BY <1>3, <2>1
    <3> HIDE DEF r
    <3> QED
      BY <3>2, <3>3
  <2>2. CASE ~Holds(First, c.id)
    BY <1>3, <2>2
  <2> QED
    BY <2>1, <2>2
<1>8. ASSUME c.id \notin troubled'
      PROVE  Holds(First, c.id) /\ poller[First].ok /\ c.id \in told
  BY <1>3, <1>5, <1>8 DEF BatchFits, Holds
<1>9. troubled \subseteq troubled'
  BY <1>3
<1>10. OnlyFirst'
  <2>1. ASSUME NEW n \in Ids \ troubled'
        PROVE  IF outbox'[n].claim = Nobody THEN outbox'[n].due /\ ~outbox'[n].abandoned
                                            ELSE n \in Batched'
    <3>1. CASE n = c.id
      BY <1>7, <1>8, <2>1, <3>1
    <3>2. CASE n # c.id
      BY <1>1, <1>4, <1>6, <1>9, <2>1, <3>2 DEF OnlyFirst
    <3> QED
      BY <3>1, <3>2
  <2> QED
    BY <1>1, <1>3, <1>4, <2>1 DEF OnlyFirst
<1>11. \A n \in Ids :
         /\ outbox'[n].order = outbox[n].order /\ outbox'[n].status = outbox[n].status
         /\ outbox'[n].audience = outbox[n].audience
  BY <1>4, <1>7
<1>12. EditsFit'
  <2>1. \A d \in poller[First].batch : outbox'[d.id].order = outbox[d.id].order
    BY <1>6, <1>11 DEF Batched
  <2> QED
    BY <1>1, <1>3, <1>4, <2>1 DEF EditsFit
<1>13. ASSUME NEW o \in Orders, Mine(o)' \intersect troubled' = {}
       PROVE  ToldInOrder(o)'
  <2>1. Mine(o)' = Mine(o) /\ Mine(o) \subseteq Ids
    BY <1>4, <1>11 DEF Mine
  <2>2. ToldInOrder(o)
    BY <1>9, <1>13, <2>1 DEF CurrentInv
  <2>3. c.id \in Mine(o) => c.id \in told
    BY <1>8, <1>13, <2>1
  <2>4. \A k \in Mine(o) : outbox'[k].status = outbox[k].status
    BY <1>11, <2>1
  <2>5. \A n \in Mine(o), k \in Mine(o) : k < n =>
          (n \in Batched' => k \in told \union Batched')
    BY <1>6, <2>2, <2>3 DEF ToldInOrder
  <2> QED
    BY <1>4, <2>1, <2>2, <2>4, <2>5 DEF ToldInOrder
<1> QED
  BY <1>10, <1>12, <1>13 DEF CurrentInv

LEMMA CurrentStep ==
  ASSUME TypeOK, Inv, CurrentInv, [Next]_vars
  PROVE  CurrentInv'
<1> SUFFICES ASSUME faults' = 0 PROVE CurrentInv'
  BY DEF CurrentInv
<1>1. faults = 0 /\ ~Fault
  <2>1. UNCHANGED faults \/ Fault
    BY DEF Next, Transition, Resend, StoreMessage, ClaimLapses, BackoffEnds,
           Start, Stops, Claim, Send, Finish, FinishFails, LockIsLost, vars
  <2>2. faults \in Nat
    BY DEF TypeOK
  <2> QED
    BY <2>1, <2>2 DEF Fault
<1>2. OnlyFirst
  BY <1>1 DEF CurrentInv
<1>3. ASSUME NEW o \in Orders, Transition(o) \/ Resend(o)
      PROVE  CurrentInv'
  BY <1>1, <1>3, TransitionGrows, GrowsCurrent DEF Transition, Resend
<1>4. ASSUME NEW p \in Processes, Start(p)
      PROVE  FALSE
  BY <1>2, <1>4, FirstType DEF OnlyFirst, Start
<1>5. CASE UNCHANGED vars
  <2>1. /\ UNCHANGED <<outbox, stored, message, told, troubled, lock, poller, faults>>
        /\ Ids' = Ids /\ Batched' = Batched /\ \A o \in Orders : Mine(o)' = Mine(o)
    BY <1>5 DEF vars, Ids, Batched, Mine
  <2>2. OnlyFirst' /\ EditsFit'
    BY <1>1, <2>1 DEF CurrentInv, OnlyFirst, EditsFit
  <2>3. \A o \in Orders : ToldInOrder(o) => ToldInOrder(o)'
    BY <2>1 DEF ToldInOrder
  <2> QED
    BY <1>1, <2>1, <2>2, <2>3 DEF CurrentInv
<1> QED
  BY <1>1, <1>3, <1>4, <1>5, ClockCurrent, StoreCurrent, ClaimCurrent, SendCurrent,
     FinishCurrent
  DEF Next, Stops, FinishFails, LockIsLost

\* The customer message shows the last status once all its rows are delivered without
\* trouble (claim_notifications orders by id).
THEOREM MessageCurrent == Spec => []MessageIsCurrent
<1>1. Spec => []CurrentInv
  <2>1. TypeOK /\ Inv /\ CurrentInv /\ [Next]_vars => CurrentInv'
    BY CurrentStep
  <2> QED
    BY <2>1, CurrentInit, InvariantHolds, PTL DEF Spec
<1>2. TypeOK /\ Inv /\ CurrentInv => MessageIsCurrent
  <2> SUFFICES ASSUME TypeOK, Inv, CurrentInv, NEW o \in stored,
                      faults = 0, message[o] # "invoice",
                      \A n \in Mine(o) : outbox[n].delivered /\ n \notin troubled
               PROVE  \E n \in Mine(o) :
                        (\A k \in Mine(o) : k <= n) /\ message[o] = Text(outbox[n].status)
    BY DEF MessageIsCurrent
  <2>1. Mine(o) \subseteq told
    BY DEF Mine, Inv, RowFits
  <2>2. ToldInOrder(o)
    BY DEF CurrentInv, TypeOK
  <2> QED
    BY <2>1, <2>2 DEF ToldInOrder
<1> QED
  BY <1>1, <1>2, InvariantHolds, PTL
=============================================================================
