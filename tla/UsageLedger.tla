----------------------------- MODULE UsageLedger -----------------------------
(***************************************************************************)
(* The usage ledger of the model gateway (usage.db): what each request     *)
(* cost is written when its answer has ended, old events are rolled up     *)
(* into totals of a day, and summaries add the two up.  A request that     *)
(* cannot be written down shows up in the readiness of the gateway.        *)
(*                                                                         *)
(* Clients leave, processes die, the disk fails, other processes prune;    *)
(* SQLite's write lock makes each write and each prune one action, while a *)
(* summary is several reads.  A day has two instants.  How the sends of a  *)
(* request come about is in RouteFailover.                                 *)
(***************************************************************************)
EXTENDS Naturals, FiniteSets

CONSTANTS
  RequestIds,
  Old,        \* events of the first instant
  Readers,    \* summaries under way at a time
  RawDays,    \* RAW_RETENTION_DAYS
  DailyDays,  \* DAILY_RETENTION_DAYS
  MaxSends,   \* bound of the model: sends of a request
  MaxTime,    \* bound of the model: instants
  MaxFaults   \* bound of the model: deaths and failures of the disk

Instants == 0..MaxTime
Day(t) == t \div 2
Days == 0..Day(MaxTime)

ASSUME LedgerAssumption ==
  /\ RequestIds \cap Old = {} /\ IsFiniteSet(Old)
  /\ {RawDays, DailyDays, MaxSends, MaxTime, MaxFaults} \subseteq Nat
  /\ 0 < RawDays /\ RawDays <= DailyDays /\ 0 < MaxSends

VARIABLES
  now,
  calls,    \* each request, and what is known of its sends
  raw,      \* usage_events with their attempt_events: who was recorded
  days,     \* usage_daily and cost_daily
  sums,     \* the summary each reader has under way
  latch,    \* StorageFaultMonitor._reason
  ready,    \* a readiness check whose probes have passed
  writable, \* the disk takes writes
  faults

ledgerVars == <<now, calls, raw, days, sums, latch, ready, writable, faults>>

\* "ended": its usage is to be recorded; "lost": that failed; "shown": and a
\* readiness check said so; "dead": its process died before.
Stages == {"new", "refused", "sending", "streaming", "ended", "recorded", "lost", "shown", "dead"}

\* Attempts whose cost is known, which is zero for those that did not leave the
\* host, and those that may have been billed for an unknown amount.
Call == [pc: Stages, gone: BOOLEAN, known: 0..MaxSends, unknown: 0..MaxSends,
         complete: BOOLEAN, at: Instants]

Earlier == [pc |-> "recorded", gone |-> FALSE, known |-> 1, unknown |-> 0, complete |-> TRUE, at |-> 0]
NewCall == [Earlier EXCEPT !.pc = "new", !.known = 0, !.complete = FALSE]

Totals == [calls: Nat, complete: Nat, known: Nat, unknown: Nat]
Zero == [calls |-> 0, complete |-> 0, known |-> 0, unknown |-> 0]

Summary == [pc: {"idle", "events", "attempts", "costs", "done"}, since: Instants, got: Totals,
            from: SUBSET (RequestIds \cup Old)]
NoSummary == [pc |-> "idle", since |-> 0, got |-> Zero, from |-> {}]

LedgerTypeOK ==
  /\ now \in Instants
  /\ calls \in [RequestIds \cup Old -> Call]
  /\ raw \subseteq {e \in RequestIds \cup Old : calls[e].pc = "recorded"}
  /\ days \in [Days -> Totals]
  /\ sums \in [Readers -> Summary]
  /\ latch \in BOOLEAN /\ ready \in BOOLEAN /\ writable \in BOOLEAN
  /\ faults \in 0..MaxFaults

-----------------------------------------------------------------------------
(* Counting *)

Plus(a, b) == [f \in DOMAIN a |-> a[f] + b[f]]

\* A sum of counts, as the number of all that is counted.
SumOf(count, S) == Cardinality(UNION {{x} \X (1..count[x]) : x \in S})

\* What a set of events amounts to.
Total(S) ==
  [calls |-> Cardinality(S), complete |-> Cardinality({e \in S : calls[e].complete}),
   known |-> SumOf([e \in S |-> calls[e].known], S),
   unknown |-> SumOf([e \in S |-> calls[e].unknown], S)]

Since(t) == {e \in raw : calls[e].at >= t}

\* What the rows of the days D amount to.
TotalOfDays(D) == [f \in DOMAIN Zero |-> SumOf([d \in D |-> days[d][f]], D)]

\* The first instant, and the first day, of the last n days.
Back(n) == IF now < 2 * n THEN 0 ELSE now - 2 * n
DayBack(n) == IF Day(now) < n THEN 0 ELSE Day(now) - n

Ledger == <<raw, days, sums>>
Health == <<latch, ready, writable>>

-----------------------------------------------------------------------------
(* Requests *)

At(r, pc) == calls[r].pc = pc
Becomes(r, pc) == calls' = [calls EXCEPT ![r].pc = pc]

\* preflight_usage_ledger: without room or a writer nothing is sent.
Preflight(r) ==
  /\ At(r, "new")
  /\ Becomes(r, IF writable THEN "sending" ELSE "refused")
  /\ latch' = (latch \/ ~writable)
  /\ UNCHANGED <<now, Ledger, ready, writable, faults>>

\* A send that is not the last: refused, or answered, with usage or without.
Send(r) ==
  /\ At(r, "sending")
  /\ calls[r].known + calls[r].unknown < MaxSends - 1
  /\ \/ calls' = [calls EXCEPT ![r].known = @ + 1]
     \/ calls' = [calls EXCEPT ![r].unknown = @ + 1]
  /\ UNCHANGED <<now, Ledger, Health, faults>>

\* The last one ends: its usage and price were there, or not.
Ends(r, complete) ==
  \/ calls' = [calls EXCEPT ![r].pc = "ended", ![r].complete = complete, ![r].known = @ + 1]
  \/ calls' = [calls EXCEPT ![r].pc = "ended", ![r].complete = complete, ![r].unknown = @ + 1]

\* A stream is handed over, or there is an answer as a whole.
Answer(r) ==
  /\ At(r, "sending")
  /\ Becomes(r, "streaming") \/ \E complete \in BOOLEAN : Ends(r, complete)
  /\ UNCHANGED <<now, Ledger, Health, faults>>

\* No target could be tried: an event without attempts.
GiveUp(r) ==
  /\ At(r, "sending")
  /\ Becomes(r, "ended")
  /\ UNCHANGED <<now, Ledger, Health, faults>>

\* The body ends whole, or broken by the provider; or, when the client has gone,
\* wherever it was cancelled.
EndBody(r) ==
  /\ At(r, "streaming")
  /\ \E whole \in BOOLEAN : (calls[r].gone => ~whole) /\ Ends(r, whole)
  /\ UNCHANGED <<now, Ledger, Health, faults>>

\* Slip: the accounting of a stream is cancelled along with it.
StaysCancelled(r) == ~calls[r].gone

\* finalize is shielded and held by _STREAM_FINALIZE_TASKS; a request that is no
\* stream is not cancelled at all.
Stays(r) == TRUE

\* UsageStore.record: the event and its attempts, in one transaction, or nothing;
\* the lock may not be had in time although the disk is writable.
RecordUsage(r) ==
  /\ At(r, "ended") /\ Stays(r)
  /\ \/ /\ writable
        /\ calls' = [calls EXCEPT ![r].pc = "recorded", ![r].at = now, ![r].gone = FALSE]
        /\ raw' = raw \cup {r}
        /\ UNCHANGED latch
     \/ /\ calls' = [calls EXCEPT ![r] = [NewCall EXCEPT !.pc = "lost"]]
        /\ latch' = TRUE
        /\ UNCHANGED raw
  /\ UNCHANGED <<now, days, sums, ready, writable, faults>>

\* The client of a stream goes away.
Leave(r) ==
  /\ calls[r].pc \in {"streaming", "ended"} /\ ~calls[r].gone
  /\ calls' = [calls EXCEPT ![r].gone = TRUE]
  /\ UNCHANGED <<now, Ledger, Health, faults>>

-----------------------------------------------------------------------------
(* Readiness *)

\* Whoever was not recorded has now been heard of.
Shown == calls' = [r \in DOMAIN calls |->
                    IF calls[r].pc = "lost" THEN [calls[r] EXCEPT !.pc = "shown"] ELSE calls[r]]

\* /readyz probes the volumes and the ledger ...
Probe ==
  /\ ~ready
  /\ IF writable THEN ready' = TRUE /\ UNCHANGED calls ELSE Shown /\ UNCHANGED ready
  /\ UNCHANGED <<now, Ledger, latch, writable, faults>>

\* ... and then consumes the latch: 503 if it was set.
Consume ==
  /\ ready
  /\ ready' = FALSE
  /\ latch' = FALSE
  /\ IF latch THEN Shown ELSE UNCHANGED calls
  /\ UNCHANGED <<now, Ledger, writable, faults>>

-----------------------------------------------------------------------------
(* Roll-up *)

\* Slip: the row of a day is replaced.
RolledOver(old) ==
  [d \in Days |->
    LET S == {e \in old : Day(calls[e].at) = d} IN IF S = {} THEN days[d] ELSE Total(S)]

\* A day may be rolled up in parts: they are added.
Rolled(old) == [d \in Days |-> Plus(days[d], Total({e \in old : Day(calls[e].at) = d}))]

\* prune, in one transaction, by the service or the command line.
Prune ==
  /\ writable
  /\ LET old == raw \ Since(Back(RawDays))
     IN /\ raw' = raw \ old
        /\ days' = [d \in Days |-> IF d < DayBack(DailyDays) THEN Zero ELSE Rolled(old)[d]]
  /\ <<raw, days>>' # <<raw, days>>
  /\ UNCHANGED <<now, calls, sums, Health, faults>>

-----------------------------------------------------------------------------
(* UsageStore.summary: four reads, each of what is there at that moment *)

Reads(p, pc, next, got) ==
  /\ sums[p].pc = pc
  /\ sums' = [sums EXCEPT ![p].pc = next, ![p].got = Plus(@, got)]
  /\ UNCHANGED <<now, calls, raw, days, Health, faults>>

Booked == {e \in DOMAIN calls : calls[e].pc = "recorded"}

\* What the tables of the logical requests tell, and those of the attempts.
OfCalls(total) == [total EXCEPT !.known = 0, !.unknown = 0]
OfAttempts(total) == [total EXCEPT !.calls = 0, !.complete = 0]

BeginSummary(p) ==
  /\ sums[p].pc \in {"idle", "done"}
  /\ \E n \in 1..DailyDays :
       sums' = [sums EXCEPT ![p] = [pc |-> "events", since |-> Back(n),
                  got |-> OfCalls(Total(Since(Back(n)))),
                  from |-> {e \in Booked : calls[e].at >= Back(n)}]]
  /\ UNCHANGED <<now, calls, raw, days, Health, faults>>

\* Slip: the part of the first day that is rolled up is left out.
FromNextDay(p) == {d \in Days : d > Day(sums[p].since)}

FromDay(p) == {d \in Days : d >= Day(sums[p].since)}

ReadDays(p) == Reads(p, "events", "attempts", OfCalls(TotalOfDays(FromDay(p))))
ReadAttempts(p) == Reads(p, "attempts", "costs", OfAttempts(Total(Since(sums[p].since))))
ReadCosts(p) == Reads(p, "costs", "done", OfAttempts(TotalOfDays(FromDay(p))))

-----------------------------------------------------------------------------
(* Surroundings *)

\* The process dies and starts again, with init_db.
Die ==
  /\ faults < MaxFaults /\ faults' = faults + 1
  /\ calls' = [r \in DOMAIN calls |->
       IF calls[r].pc \in {"sending", "streaming", "ended", "lost"}
       THEN [NewCall EXCEPT !.pc = "dead"] ELSE calls[r]]
  /\ ready' = FALSE /\ latch' = ~writable
  /\ UNCHANGED <<now, Ledger, writable>>

DiskFails ==
  /\ faults < MaxFaults /\ faults' = faults + 1
  /\ writable /\ writable' = FALSE
  /\ UNCHANGED <<now, calls, Ledger, latch, ready>>

DiskHeals ==
  /\ ~writable /\ writable' = TRUE
  /\ UNCHANGED <<now, calls, Ledger, latch, ready, faults>>

TimePasses ==
  /\ now < MaxTime /\ now' = now + 1
  /\ UNCHANGED <<calls, Ledger, Health, faults>>

LedgerInit ==
  /\ now = 0
  /\ calls = [e \in RequestIds \cup Old |-> IF e \in Old THEN Earlier ELSE NewCall]
  /\ raw = Old
  /\ days = [d \in Days |-> Zero]
  /\ sums = [p \in Readers |-> NoSummary]
  /\ latch = FALSE /\ ready = FALSE /\ writable = TRUE
  /\ faults = 0

Proceed(r) ==
  Preflight(r) \/ Send(r) \/ Answer(r) \/ GiveUp(r) \/ EndBody(r) \/ RecordUsage(r) \/ Leave(r)

Check == Probe \/ Consume

Summarize(p) == BeginSummary(p) \/ ReadDays(p) \/ ReadAttempts(p) \/ ReadCosts(p)

LedgerNext ==
  \/ \E r \in RequestIds : Proceed(r)
  \/ \E p \in Readers : Summarize(p)
  \/ Check \/ Prune \/ Die \/ DiskFails \/ DiskHeals \/ TimePasses

LedgerSpec == LedgerInit /\ [][LedgerNext]_ledgerVars

\* What has ended is recorded without waiting for anyone, and the gateway's
\* readiness keeps being asked for.
FairSpec ==
  /\ LedgerSpec
  /\ WF_ledgerVars(Check)
  /\ \A r \in RequestIds : WF_ledgerVars(RecordUsage(r))

-----------------------------------------------------------------------------
(* What must hold *)

\* However often and however many prune, and although a day is rolled up in
\* parts: until it is dropped, a day's totals and the events not yet rolled up
\* are together what was recorded on that day, each event and attempt once.
DaysAddUp ==
  \A d \in Days : d >= DayBack(DailyDays) =>
    Plus(days[d], Total({e \in raw : Day(calls[e].at) = d}))
      = Total({e \in Booked : Day(calls[e].at) = d})

\* A summary counts every event and attempt that was there when it began, also
\* those that are rolled up between two of its reads.
SummaryMissesNothing ==
  \A p \in Readers : sums[p].pc = "done" =>
    LET S == {e \in sums[p].from : Day(calls[e].at) >= DayBack(DailyDays)}
    IN \A f \in DOMAIN Zero : sums[p].got[f] >= Total(S)[f]

\* An answer that has ended, whole, broken or deserted by its client, is recorded;
\* or a readiness check reports that the ledger cannot be trusted; unless its
\* process dies first.
EveryAnswerAccounted ==
  \A r \in RequestIds : At(r, "ended") ~> calls[r].pc \in {"recorded", "shown", "dead"}

=============================================================================
