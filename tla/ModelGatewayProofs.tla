------------------------- MODULE ModelGatewayProofs --------------------------
(***************************************************************************)
(* The model gateway, for any number of requests, routes, readers and      *)
(* settings.  RouteFailover: no request is repeated blindly, a provider's  *)
(* answer is kept and targets are rechecked before they are tried.         *)
(* UsageLedger: the totals of a day and the events not yet rolled up add   *)
(* up, and summaries miss nothing.  The two have no name in common.        *)
(***************************************************************************)
EXTENDS RouteFailover, UsageLedger, FiniteSetTheorems, FunctionTheorems, TLAPS

-----------------------------------------------------------------------------
(* Orders: the library's well-founded ordering of finite sets stands in for the *)
(* least-number principle, which cannot be instantiated here. *)

HasMin(f, S) == \E m \in S : \A k \in S : f[m] <= f[k]

\* A function to the naturals is least somewhere on a nonempty set: used where a
\* query orders rows and takes the first.
LEMMA LeastValue ==
  ASSUME NEW S, S # {}, NEW f, \A k \in S : f[k] \in Nat
  PROVE  HasMin(f, S)
<1> DEFINE Below == {0..f[k] : k \in S}
<1>1. Below \subseteq FiniteSubsetsOf(Nat) /\ Below # {}
  <2>1. \A k \in S : 0..f[k] \in SUBSET Nat /\ IsFiniteSet(0..f[k])
    BY FS_Interval
  <2> QED BY <2>1 DEF FiniteSubsetsOf
<1>2. PICK B \in Below : \A C \in Below : ~(<<C, B>> \in StrictSubsetOrdering(Nat))
  <2>1. IsWellFoundedOn(StrictSubsetOrdering(Nat), FiniteSubsetsOf(Nat))
    BY FS_StrictSubsetOrderingWellFounded
  <2> HIDE DEF Below
  <2> QED BY <1>1, <2>1, WFMin
<1>3. PICK m \in S : B = 0..f[m]
  BY <1>2
<1>4. ASSUME NEW k \in S PROVE f[m] <= f[k]
  <2>1. SUFFICES ASSUME f[k] < f[m] PROVE FALSE
    BY <1>3
  <2>2. f[k] \in Nat /\ f[m] \in Nat
    BY <1>3
  <2>3. 0..f[k] \subseteq 0..f[m] /\ f[m] \in 0..f[m] /\ f[m] \notin 0..f[k]
    BY <2>1, <2>2
  <2>4. <<0..f[k], B>> \in StrictSubsetOrdering(Nat)
    BY <1>3, <2>2, <2>3 DEF StrictSubsetOrdering
  <2> QED BY <1>2, <2>4
<1> QED BY <1>3, <1>4 DEF HasMin


\* What may be followed by another send.
Repeatable == NotSent \cup {"timeout", "rate", "server"}

\* A request that is being sent has a target; as long as it is not over, nothing
\* forbids another send, and the last status a provider gave is remembered.
Sound(rq) ==
  /\ rq \in Request
  /\ rq.pc \in {"send", "sleep"} => rq.at \in DOMAIN rq.targets /\ rq.try >= 1
  /\ \A i \in DOMAIN rq.traces :
       rq.traces[i] \notin Repeatable => i = Len(rq.traces) /\ rq.pc \in {"stream", "done"}
  /\ \A i \in DOMAIN rq.traces :
       rq.traces[i] \in Statuses => \/ rq.last # "none"
                                         \/ rq.pc \in {"stream", "done"}
  /\ rq.pc = "done" /\ ~rq.required /\ (\E i \in DOMAIN rq.traces : rq.traces[i] \in Statuses)
       => rq.answer # "gateway_error"

\* The part of TypeOK that is about the registry and the bounds.
HealthOK ==
  /\ connCool \in [Connections -> 0..Longer(AuthCool, Longer(RateCool, RetryAfter))]
  /\ depCool \in [Deployments -> 0..Longer(DeployCool, ServerCool)]
  /\ failures \in [Deployments -> 0..Threshold]
  /\ ticks \in 0..MaxTicks /\ clears \in 0..MaxClears

IInv ==
  /\ HealthOK
  /\ req \in [Requests -> Request]
  /\ \A r \in Requests : Sound(req[r])

-----------------------------------------------------------------------------
(* Orders of targets *)

\* A nonempty set of places has a first.
LEMMA LeastIs ==
  ASSUME NEW S \in SUBSET (1..Len(Targets)), S # {}
  PROVE  Least(S) \in S
<1>1. Len(Targets) \in Nat
  BY RouteAssumption
<1> DEFINE f == [k \in S |-> k]
<1>2. HasMin(f, S)
  <2>1. \A k \in S : f[k] \in Nat
    BY <1>1
  <2> HIDE DEF f
  <2> QED BY <2>1, LeastValue
<1>3. \E m \in S : \A k \in S : m <= k
  BY <1>2 DEF HasMin
<1> QED BY <1>3 DEF Least

LEMMA OrderIs ==
  ASSUME NEW ds \in Order
  PROVE  /\ DOMAIN ds \subseteq 1..Len(Targets)
         /\ \A i \in DOMAIN ds : ds[i] \in Deployments
BY DEF Order

\* What resolve makes of the route is an order of deployments.
LEMMA OrderMade ==
  ASSUME NEW ds, DOMAIN ds \subseteq 1..Len(Targets), ds = [i \in DOMAIN ds |-> ds[i]],
         \A i \in DOMAIN ds : ds[i] \in Deployments
  PROVE  ds \in Order
BY DEF Order

LEMMA EmptyOrder == <<>> \in Order
<1> DEFINE e == <<>>
<1>1. DOMAIN e = {} /\ e = [i \in DOMAIN e |-> e[i]]
  OBVIOUS
<1> QED BY <1>1, OrderMade

LEMMA ScopedOrder == Scoped \in Order
<1>1. Len(Targets) \in Nat /\ DOMAIN Targets = 1..Len(Targets)
      /\ \A i \in DOMAIN Targets : Targets[i] \in Deployments
  BY RouteAssumption
<1> QED BY <1>1, OrderMade DEF Scoped

LEMMA FirstOrder ==
  ASSUME NEW ds \in Order, NEW d \in Deployments \cup {NoDeployment}
  PROVE  First(ds, d) \in Order
<1> DEFINE k == CHOOSE k \in DOMAIN ds : ds[k] = d
           places == {1} \cup {j + 1 : j \in {j \in DOMAIN ds : j < k}}
                         \cup {j \in DOMAIN ds : j > k}
           moved == [i \in places |-> IF i = 1 THEN d ELSE IF i <= k THEN ds[i - 1] ELSE ds[i]]
<1>0. Len(Targets) \in Nat
  BY RouteAssumption
<1>1. SUFFICES ASSUME \E i \in DOMAIN ds : ds[i] = d
               PROVE  moved \in Order
  BY DEF First
<1>2. k \in DOMAIN ds /\ ds[k] = d
  BY <1>1
<1>3. k \in 1..Len(Targets) /\ d \in Deployments
  BY <1>2, OrderIs
<1> HIDE DEF k
<1>4. places \subseteq 1..Len(Targets)
  BY <1>0, <1>3, OrderIs
<1>5. \A i \in places : moved[i] \in Deployments
  <2> TAKE i \in places
  <2>1. CASE i = 1
    BY <1>3, <2>1
  <2>2. CASE i # 1 /\ i <= k
    <3>1. i - 1 \in DOMAIN ds
      BY <1>0, <1>3, <2>2, OrderIs
    <3> QED BY <2>2, <3>1, OrderIs
  <2>3. CASE i # 1 /\ ~(i <= k)
    <3>1. i \in DOMAIN ds
      BY <1>0, <1>3, <2>3, OrderIs
    <3> QED BY <2>3, <3>1, OrderIs
  <2> QED BY <2>1, <2>2, <2>3
<1>6. DOMAIN moved = places /\ moved = [i \in DOMAIN moved |-> moved[i]]
  OBVIOUS
<1> HIDE DEF moved, places
<1> QED BY <1>4, <1>5, <1>6, OrderMade

LEMMA OnlyOrder ==
  ASSUME NEW ds \in Order, NEW S
  PROVE  Only(ds, S) \in Order
BY OrderIs, OrderMade DEF Only

LEMMA SingleOrder ==
  ASSUME NEW d \in Deployments
  PROVE  <<d>> \in Order
<1> DEFINE s == <<d>>
<1>1. DOMAIN s = {1} /\ s = [i \in DOMAIN s |-> s[i]] /\ s[1] = d
  OBVIOUS
<1>2. 1 \in 1..Len(Targets)
  BY RouteAssumption
<1> QED BY <1>1, <1>2, OrderMade

-----------------------------------------------------------------------------
(* The loop *)

\* What a step of the loop keeps of a request.
Kept(rq, new) ==
  /\ new.traces = rq.traces /\ new.last = rq.last
  /\ new.required = rq.required /\ new.retries = rq.retries

\* The loop goes on with a target that does not cool down, or ends.
LEMMA AdvancedIs ==
  ASSUME NEW rq \in Request, NEW cc, NEW dc
  PROVE  LET new == Advanced(rq, cc, dc)
         IN  /\ new \in Request /\ Kept(rq, new)
             /\ \/ /\ new.pc = "send" /\ new.try = 1 /\ new.targets = rq.targets
                   /\ new.at \in DOMAIN new.targets
                   /\ ~Cooling(cc, dc, Target(new))
                \/ new.pc = "done" /\ new.answer = FinalAnswer(rq)
<1> DEFINE next == Tryable(rq, cc, dc)
<1>0. /\ rq.targets \in Order /\ rq.last \in Statuses \cup {"none"}
  BY DEF Request
<1>1. next \subseteq DOMAIN rq.targets /\ \A i \in next : ~Cooling(cc, dc, rq.targets[i])
  BY DEF Tryable
<1>2. next \subseteq 1..Len(Targets)
  BY <1>0, <1>1, OrderIs
<1> HIDE DEF next
<1>3. CASE HasBudget(rq) /\ next # {}
  <2> DEFINE new == [rq EXCEPT !.pc = "send", !.at = Least(next), !.try = 1]
  <2>1. Least(next) \in next
    BY <1>2, <1>3, LeastIs
  <2>2. Least(next) \in Nat
    <3>1. 1..Len(Targets) \subseteq Nat  OBVIOUS
    <3> QED BY <1>2, <2>1, <3>1
  <2>3. new \in Request
    BY <2>2 DEF Request
  <2>4. /\ new.pc = "send" /\ new.try = 1 /\ new.targets = rq.targets
        /\ new.at = Least(next) /\ Kept(rq, new)
    BY DEF Request, Kept
  <2>5. ~Cooling(cc, dc, Target(new))
    BY <1>1, <2>1, <2>4 DEF Target
  <2>6. Advanced(rq, cc, dc) = new
    BY <1>3 DEF Advanced, next
  <2> HIDE DEF new
  <2> QED BY <1>1, <2>1, <2>3, <2>4, <2>5, <2>6
<1>4. CASE ~(HasBudget(rq) /\ next # {})
  <2>1. Advanced(rq, cc, dc) = Answered(rq, FinalAnswer(rq))
    BY <1>4 DEF Advanced, next
  <2>2. FinalAnswer(rq) \in Answers
    BY <1>0 DEF FinalAnswer, Answers
  <2>3. Answered(rq, FinalAnswer(rq)) \in Request
    BY <2>2, EmptyOrder DEF Answered, Request
  <2>4. /\ Kept(rq, Answered(rq, FinalAnswer(rq)))
        /\ Answered(rq, FinalAnswer(rq)).pc = "done"
        /\ Answered(rq, FinalAnswer(rq)).answer = FinalAnswer(rq)
    BY DEF Answered, Request, Kept
  <2> QED BY <2>1, <2>3, <2>4
<1> QED BY <1>3, <1>4

\* A request in its loop that nothing keeps from going on.
Running(rq) ==
  /\ rq \in Request
  /\ \A i \in DOMAIN rq.traces :
       /\ rq.traces[i] \in Repeatable
       /\ rq.traces[i] \in Statuses => rq.last # "none"

\* It goes on soundly.
LEMMA AdvancedSound ==
  ASSUME NEW rq, Running(rq), NEW cc, NEW dc
  PROVE  Sound(Advanced(rq, cc, dc))
<1> DEFINE new == Advanced(rq, cc, dc)
<1>1. /\ new \in Request /\ Kept(rq, new)
      /\ \/ new.pc = "send" /\ new.try = 1 /\ new.at \in DOMAIN new.targets
         \/ new.pc = "done" /\ new.answer = FinalAnswer(rq)
  BY AdvancedIs DEF Running
<1>2. rq.last # "none" /\ ~rq.required => FinalAnswer(rq) # "gateway_error"
  BY DEF FinalAnswer, Running, Request, Statuses
<1>3. \A i \in DOMAIN new.traces :
        /\ new.traces[i] \in Repeatable
        /\ new.traces[i] \in Statuses => rq.last # "none"
  BY <1>1 DEF Kept, Running
<1>4. CASE new.pc = "send" /\ new.try = 1 /\ new.at \in DOMAIN new.targets
  BY <1>1, <1>3, <1>4 DEF Sound, Kept
<1>5. CASE new.pc = "done" /\ new.answer = FinalAnswer(rq)
  BY <1>1, <1>2, <1>3, <1>5 DEF Sound, Kept
<1> QED BY <1>1, <1>4, <1>5

\* A sound request that is being sent, or is about to be, runs.
LEMMA SendingRuns ==
  ASSUME NEW rq, Sound(rq), rq.pc \in {"preflight", "send", "sleep"}
  PROVE  Running(rq)
BY DEF Sound, Running

LEMMA CountedIs ==
  ASSUME NEW rq \in Request, rq.try >= 1
  PROVE  /\ Counted(rq) \in Request
         /\ Counted(rq).pc = rq.pc /\ Counted(rq).targets = rq.targets
         /\ Counted(rq).required = rq.required /\ Counted(rq).at = rq.at
         /\ Counted(rq).try = rq.try /\ Counted(rq).traces = rq.traces
         /\ Counted(rq).last = rq.last
BY DEF Counted, Request

\* A target that is being sent to, with the outcome of the send.
LEMMA TracedIs ==
  ASSUME NEW rq \in Request, rq.at \in DOMAIN rq.targets, NEW what \in Outcomes
  PROVE  LET new == Traced(rq, what)
         IN  /\ new \in Request
             /\ new.traces = Append(rq.traces, what)
             /\ new.pc = rq.pc /\ new.targets = rq.targets /\ new.required = rq.required
             /\ new.at = rq.at /\ new.try = rq.try /\ new.last = rq.last
             /\ Len(new.traces) = Len(rq.traces) + 1
             /\ DOMAIN new.traces = 1..(Len(rq.traces) + 1)
             /\ new.traces[Len(rq.traces) + 1] = what
             /\ \A i \in DOMAIN rq.traces : new.traces[i] = rq.traces[i]
<1> DEFINE t == what
           new == Traced(rq, what)
<1>1. t \in Outcomes
  BY OrderIs DEF Target, Request
<1>2. rq.traces \in Seq(Outcomes)
  BY DEF Request
<1>3. /\ new \in Request /\ new.traces = Append(rq.traces, t)
      /\ new.pc = rq.pc /\ new.targets = rq.targets /\ new.required = rq.required
      /\ new.at = rq.at /\ new.try = rq.try /\ new.last = rq.last
  <2> DEFINE longer == Append(rq.traces, t)
  <2>1. longer \in Seq(Outcomes)
    BY <1>1, <1>2
  <2>2. new = [rq EXCEPT !.traces = longer]
    BY DEF Traced
  <2> HIDE DEF longer, t, new
  <2>3. [rq EXCEPT !.traces = longer] \in Request
    BY <2>1 DEF Request
  <2>4. new.traces = longer
    BY <2>2 DEF Request
  <2>5. /\ new.pc = rq.pc /\ new.targets = rq.targets /\ new.required = rq.required
        /\ new.at = rq.at /\ new.try = rq.try /\ new.last = rq.last
    BY <2>2 DEF Request
  <2> QED BY <2>2, <2>3, <2>4, <2>5 DEF longer
<1>4. t = what
  OBVIOUS
<1> HIDE DEF t, new
<1> QED BY <1>1, <1>2, <1>3, <1>4 DEF t, new

-----------------------------------------------------------------------------
(* Steps of one request *)

\* The others stay as they are.
LEMMA OneSteps ==
  ASSUME IInv, NEW r \in Requests, NEW rq, Sound(rq),
         req' = [req EXCEPT ![r] = rq], HealthOK'
  PROVE  IInv'
<1>1. req' \in [Requests -> Request]
  BY DEF IInv, Sound
<1>2. \A q \in Requests : req'[q] = IF q = r THEN rq ELSE req[q]
  BY DEF IInv
<1> QED BY <1>1, <1>2 DEF IInv

LEMMA SameHealth ==
  ASSUME HealthOK, UNCHANGED <<connCool, depCool, failures, ticks, clears>>
  PROVE  HealthOK'
BY DEF HealthOK

\* A failed send: the next target follows, once the trace is written.
LEMMA FailedRuns ==
  ASSUME NEW rq, Sound(rq), rq.pc = "send", NEW what \in NotSent
  PROVE  Running(Counted(Traced(rq, what)))
<1> DEFINE t == Traced(rq, what)
           new == Counted(t)
<1>1. rq \in Request /\ rq.at \in DOMAIN rq.targets /\ rq.try >= 1 /\ Running(rq)
  BY SendingRuns DEF Sound
<1>2. what \in Outcomes /\ what \in Repeatable /\ what \notin Statuses
  BY DEF Outcomes, Repeatable, NotSent, Statuses
<1>3. /\ t \in Request /\ t.last = rq.last /\ t.try = rq.try
      /\ DOMAIN t.traces = 1..(Len(rq.traces) + 1)
      /\ t.traces[Len(rq.traces) + 1] = what
      /\ \A i \in DOMAIN rq.traces : t.traces[i] = rq.traces[i]
  BY <1>1, <1>2, TracedIs
<1>4. new \in Request /\ new.traces = t.traces /\ new.last = t.last
  BY <1>1, <1>3, CountedIs
<1>5. \A i \in DOMAIN t.traces : i = Len(rq.traces) + 1 \/ i \in DOMAIN rq.traces
  <2>1. rq.traces \in Seq(Outcomes)
    BY <1>1 DEF Request
  <2> QED BY <1>3, <2>1
<1> HIDE DEF t, new
<1>6. ASSUME NEW i \in DOMAIN new.traces
      PROVE  /\ new.traces[i] \in Repeatable
             /\ new.traces[i] \in Statuses => new.last # "none"
  <2>1. CASE i = Len(rq.traces) + 1
    BY <1>2, <1>3, <1>4, <2>1
  <2>2. CASE i \in DOMAIN rq.traces
    BY <1>1, <1>3, <1>4, <2>2 DEF Running
  <2> QED BY <1>4, <1>5, <2>1, <2>2
<1>7. Running(new)
  BY <1>4, <1>6 DEF Running
<1> QED BY <1>7 DEF new, t

\* A status on which the gateway fails over is remembered, and the next target
\* follows.
LEMMA OverRuns ==
  ASSUME NEW rq, Sound(rq), rq.pc = "send", NEW status \in Statuses, FailsOver(status)
  PROVE  Running([Counted(Traced(rq, status)) EXCEPT !.last = status])
<1> DEFINE t == Traced(rq, status)
           c == Counted(t)
           new == [c EXCEPT !.last = status]
<1>1. rq \in Request /\ rq.at \in DOMAIN rq.targets /\ rq.try >= 1 /\ Running(rq)
  BY SendingRuns DEF Sound
<1>2. status \in Outcomes /\ status \in Repeatable /\ status # "none"
  BY DEF Outcomes, Repeatable, FailsOver, Statuses
<1>3. /\ t \in Request /\ t.try = rq.try
      /\ DOMAIN t.traces = 1..(Len(rq.traces) + 1)
      /\ t.traces[Len(rq.traces) + 1] = status
      /\ \A i \in DOMAIN rq.traces : t.traces[i] = rq.traces[i]
  BY <1>1, <1>2, TracedIs
<1>4. c \in Request /\ c.traces = t.traces
  BY <1>1, <1>3, CountedIs
<1> HIDE DEF t, c
<1>5. new \in Request /\ new.traces = t.traces /\ new.last = status
  BY <1>4 DEF Request
<1>6. \A i \in DOMAIN t.traces : i = Len(rq.traces) + 1 \/ i \in DOMAIN rq.traces
  <2>1. rq.traces \in Seq(Outcomes)
    BY <1>1 DEF Request
  <2> QED BY <1>3, <2>1
<1> HIDE DEF new
<1>7. Running(new)
  BY <1>1, <1>2, <1>3, <1>5, <1>6 DEF Running
<1> QED BY <1>7 DEF new, t, c

\* Any other outcome ends the request, or is that of an open stream.
LEMMA EndsSound ==
  ASSUME NEW rq, Sound(rq), rq.pc = "send", NEW what \in Outcomes \ NotSent
  PROVE  /\ Sound(Answered(Counted(Traced(rq, what)), what))
         /\ Sound([Counted(Traced(rq, what)) EXCEPT !.pc = "stream"])
<1> DEFINE t == Traced(rq, what)
           c == Counted(t)
           over == Answered(c, what)
           open == [c EXCEPT !.pc = "stream"]
<1>1. rq \in Request /\ rq.at \in DOMAIN rq.targets /\ rq.try >= 1 /\ Running(rq)
  BY SendingRuns DEF Sound
<1>2. what \in Answers /\ what # "gateway_error" /\ what \in Outcomes
  BY DEF Outcomes, Answers, NotSent, Statuses
<1>3. /\ t \in Request /\ t.try = rq.try
      /\ Len(t.traces) = Len(rq.traces) + 1
      /\ DOMAIN t.traces = 1..(Len(rq.traces) + 1)
      /\ \A i \in DOMAIN rq.traces : t.traces[i] = rq.traces[i]
  BY <1>1, <1>2, TracedIs
<1>4. c \in Request /\ c.traces = t.traces
  BY <1>1, <1>3, CountedIs
<1> HIDE DEF t, c
<1>5. /\ over \in Request /\ over.traces = t.traces /\ over.pc = "done"
      /\ over.answer = what
  BY <1>2, <1>4, EmptyOrder DEF Answered, Request
<1>6. open \in Request /\ open.traces = t.traces /\ open.pc = "stream"
  BY <1>4 DEF Request
<1>7. \A i \in DOMAIN t.traces : t.traces[i] \notin Repeatable => i = Len(t.traces)
  <2>1. rq.traces \in Seq(Outcomes)
    BY <1>1 DEF Request
  <2>2. \A i \in DOMAIN t.traces : i = Len(t.traces) \/ i \in DOMAIN rq.traces
    BY <1>3, <2>1
  <2> QED BY <1>1, <1>3, <2>2 DEF Running
<1> HIDE DEF over, open
<1>8. Sound(over)
  BY <1>2, <1>5, <1>7 DEF Sound
<1>9. Sound(open)
  BY <1>6, <1>7 DEF Sound
<1> QED BY <1>8, <1>9 DEF over, open, t, c

-----------------------------------------------------------------------------
(* The invariant *)

LEMMA NewSound == Sound(New)
<1>1. New \in Request
  BY EmptyOrder DEF New, Request, Answers
<1> QED BY <1>1 DEF Sound, New

LEMMA InitInv == Init => IInv
<1> SUFFICES ASSUME Init PROVE IInv
  OBVIOUS
<1>1. HealthOK
  BY NumbersAssumption DEF Init, HealthOK, Longer
<1>2. \A r \in Requests : req[r] = New
  BY DEF Init
<1>3. req \in [Requests -> Request]
  BY NewSound DEF Init, Sound
<1> QED BY <1>1, <1>2, <1>3, NewSound DEF IInv

\* A request waits for its preflight with what there is to try, or ends in an
\* error.
LEMMA FixKeeps ==
  ASSUME IInv, NEW r \in Requests, NEW ds \in Order, NEW required \in BOOLEAN,
         NEW able, NEW shaped, Fix(r, ds, required, able, shaped)
  PROVE  IInv'
<1> DEFINE targets == Only(Eligible(ds, able), shaped)
           waiting == [New EXCEPT !.pc = "preflight", !.targets = targets,
                                  !.required = required]
           over(answer) == Answered(New, answer)
<1>1. HealthOK'
  BY SameHealth DEF IInv, Fix
<1>2. New \in Request
  BY NewSound DEF Sound
<1>3. targets \in Order
  BY OnlyOrder DEF Eligible
<1>4. ASSUME NEW answer \in {"affinity", "unavailable"}
      PROVE  Sound(over(answer))
  <2>1. /\ over(answer) \in Request /\ over(answer).traces = <<>>
        /\ over(answer).pc = "done"
    BY <1>2, EmptyOrder DEF Answered, Request, Answers, New
  <2> HIDE DEF over
  <2> QED BY <2>1 DEF Sound
<1>5. Sound(waiting)
  <2> HIDE DEF targets
  <2>1. waiting \in Request /\ waiting.traces = <<>> /\ waiting.pc = "preflight"
    BY <1>2, <1>3 DEF Request, New
  <2> HIDE DEF waiting
  <2> QED BY <2>1 DEF Sound
<1>6. \/ req' = [req EXCEPT ![r] = waiting]
      \/ \E answer \in {"affinity", "unavailable"} : req' = [req EXCEPT ![r] = over(answer)]
  BY DEF Fix
<1> HIDE DEF waiting, over
<1> QED BY <1>1, <1>4, <1>5, <1>6, OneSteps

\* The routes that resolve may find.
LEMMA ArriveFixes ==
  ASSUME IInv, NEW r \in Requests, Arrive(r)
  PROVE  \E ds \in Order, required \in BOOLEAN, able, shaped \in Payloads :
           Fix(r, ds, required, able, shaped)
<1>1. PICK able \in Payloads, shaped \in Payloads :
        \/ \E d \in Deployments \cup {NoDeployment} : Resolve(r, d, able, shaped)
        \/ \E i \in DOMAIN Targets : ResolveRequired(r, Targets[i], able, shaped)
  BY DEF Arrive
<1>2. CASE \E d \in Deployments \cup {NoDeployment} : Resolve(r, d, able, shaped)
  <2>1. PICK d \in Deployments \cup {NoDeployment} : Resolve(r, d, able, shaped)
    BY <1>2
  <2>2. First(Scoped, d) \in Order
    BY ScopedOrder, FirstOrder
  <2> QED BY <2>1, <2>2 DEF Resolve
<1>3. CASE \E i \in DOMAIN Targets : ResolveRequired(r, Targets[i], able, shaped)
  <2>1. PICK i \in DOMAIN Targets : ResolveRequired(r, Targets[i], able, shaped)
    BY <1>3
  <2>2. Targets[i] \in Deployments
    BY RouteAssumption
  <2>3. <<Targets[i]>> \in Order
    BY <2>2, SingleOrder
  <2> QED BY <2>1, <2>3 DEF ResolveRequired
<1> QED BY <1>1, <1>2, <1>3

\* What an answer does to the breakers stays within their bounds.
LEMMA RecordKeeps ==
  ASSUME HealthOK, NEW d \in Deployments, NEW status, NEW missing \in BOOLEAN,
         NEW after \in {0, RetryAfter},
         Record(d, status, missing, after), UNCHANGED <<ticks, clears>>
  PROVE  HealthOK'
<1>1. Conn[d] \in Connections
  BY RouteAssumption
<1> DEFINE C == Longer(AuthCool, Longer(RateCool, RetryAfter))
           D == Longer(DeployCool, ServerCool)
<1>2. /\ C \in Nat /\ AuthCool \in 0..C /\ Longer(RateCool, after) \in 0..C
      /\ D \in Nat /\ DeployCool \in 0..D /\ ServerCool \in 0..D
  BY NumbersAssumption DEF Longer
<1> HIDE DEF C, D
<1>3. connCool \in [Connections -> 0..C] /\ depCool \in [Deployments -> 0..D]
      /\ failures \in [Deployments -> 0..Threshold]
  BY DEF HealthOK, C, D
<1>4. \A x \in Connections, t \in 0..C : Defer(connCool, x, t) \in [Connections -> 0..C]
  BY <1>2, <1>3 DEF Defer, Longer
<1>5. \A x \in Deployments, t \in 0..D : Defer(depCool, x, t) \in [Deployments -> 0..D]
  BY <1>2, <1>3 DEF Defer, Longer
<1>6. connCool' \in [Connections -> 0..C]
  BY <1>1, <1>2, <1>3, <1>4 DEF Record, ConnCoolAfter
<1>7. depCool' \in [Deployments -> 0..D]
  BY <1>2, <1>3, <1>5 DEF Record, DepCoolAfter
<1>8. failures' \in [Deployments -> 0..Threshold]
  BY <1>3, NumbersAssumption DEF Record, FailuresAfter
<1> QED BY <1>6, <1>7, <1>8 DEF HealthOK, C, D

LEMMA TargetIs ==
  ASSUME NEW rq, Sound(rq), rq.pc \in {"send", "sleep"}
  PROVE  Target(rq) \in Deployments
BY OrderIs DEF Sound, Request, Target

LEMMA ProgressKeeps ==
  ASSUME IInv, NEW r \in Requests, Progress(r)
  PROVE  IInv'
<1> DEFINE rq == req[r]
<1>1. Sound(rq)
  BY DEF IInv
<1>2. UNCHANGED <<connCool, depCool, failures, ticks, clears>> => HealthOK'
  BY SameHealth DEF IInv
<1>3. rq.pc = "send" => rq.at \in DOMAIN rq.targets /\ rq.try >= 1 /\ rq \in Request
  BY <1>1 DEF Sound
<1>4. CASE FailLocally(r)
  <2>1. rq.pc = "send"
    BY <1>4 DEF FailLocally
  <2>2. Running(Counted(rq))
    <3>1. /\ Counted(rq) \in Request /\ Counted(rq).traces = rq.traces
          /\ Counted(rq).last = rq.last
      BY <1>3, <2>1, CountedIs
    <3>2. Running(rq)
      BY <1>1, <2>1, SendingRuns
    <3> QED BY <3>1, <3>2 DEF Running
  <2>3. Sound(Advanced(Counted(rq), connCool, depCool))
    BY <2>2, AdvancedSound
  <2> QED BY <1>2, <1>4, <2>3, OneSteps DEF FailLocally
<1>5. CASE Refused(r)
  <2>1. rq.pc = "send" /\ "refused" \in NotSent
    BY <1>5 DEF Refused, NotSent
  <2>2. Running(Counted(Traced(rq, "refused")))
    BY <1>1, <2>1, FailedRuns
  <2>3. Sound(Advanced(Counted(Traced(rq, "refused")), connCool, depCool))
    BY <2>2, AdvancedSound
  <2>4. Sound([Traced(rq, "refused") EXCEPT !.pc = "sleep"])
    <3> DEFINE t == Traced(rq, "refused")
               s == [t EXCEPT !.pc = "sleep"]
    <3>1. "refused" \in Outcomes
      BY DEF Outcomes, NotSent
    <3>2. /\ t \in Request /\ t.last = rq.last /\ t.at = rq.at /\ t.try = rq.try
          /\ t.targets = rq.targets
      BY <1>3, <2>1, <3>1, TracedIs
    <3>3. Counted(t).traces = t.traces /\ Counted(t).last = t.last
      BY <1>3, <2>1, <3>2, CountedIs
    <3> HIDE DEF t, rq
    <3>4. /\ s \in Request /\ s.traces = t.traces /\ s.last = t.last /\ s.pc = "sleep"
          /\ s.at = t.at /\ s.try = t.try /\ s.targets = t.targets
      BY <3>2 DEF Request
    <3> HIDE DEF s
    <3>5. \A i \in DOMAIN s.traces : /\ s.traces[i] \in Repeatable
                                     /\ s.traces[i] \in Statuses => s.last # "none"
      BY <2>2, <3>3, <3>4 DEF Running, t
    <3>6. Sound(s)
      BY <1>3, <2>1, <3>2, <3>4, <3>5 DEF Sound
    <3> QED BY <3>6 DEF s, t
  <2> QED BY <1>2, <1>5, <2>3, <2>4, OneSteps DEF Refused
<1>6. CASE Resend(r)
  <2> DEFINE s == [rq EXCEPT !.pc = "send", !.try = @ + 1]
  <2>1. rq.pc = "sleep" /\ req' = [req EXCEPT ![r] = s]
    BY <1>6 DEF Resend, IInv
  <2>2. rq \in Request /\ rq.at \in DOMAIN rq.targets /\ rq.try >= 1 /\ Running(rq)
    BY <1>1, <2>1, SendingRuns DEF Sound
  <2> HIDE DEF rq
  <2>3. /\ s \in Request /\ s.traces = rq.traces /\ s.last = rq.last /\ s.pc = "send"
        /\ s.at = rq.at /\ s.try >= 1 /\ s.targets = rq.targets
    <3> DEFINE n == rq.try + 1
    <3>1. n \in Nat /\ n >= 1
      BY <2>2 DEF Request
    <3>2. s = [rq EXCEPT !.pc = "send", !.try = n]
      OBVIOUS
    <3> HIDE DEF n, s
    <3>3. [rq EXCEPT !.pc = "send", !.try = n] \in Request
      BY <2>2, <3>1 DEF Request
    <3>4. /\ s.traces = rq.traces /\ s.last = rq.last /\ s.pc = "send"
          /\ s.at = rq.at /\ s.try = n /\ s.targets = rq.targets
      BY <2>2, <3>2 DEF Request
    <3> QED BY <3>1, <3>2, <3>3, <3>4
  <2> HIDE DEF s
  <2>4. Sound(s)
    BY <2>2, <2>3 DEF Sound, Running
  <2> QED BY <1>2, <1>6, <2>1, <2>4, OneSteps DEF Resend
<1>7. CASE Unreachable(r)
  <2>1. rq.pc = "send" /\ "unreachable" \in NotSent
    BY <1>7 DEF Unreachable, NotSent
  <2>2. Sound(Advanced(Counted(Traced(rq, "unreachable")), connCool, depCool))
    BY <1>1, <2>1, FailedRuns, AdvancedSound
  <2> QED BY <1>2, <1>7, <2>2, OneSteps DEF Unreachable
<1>8. ASSUME NEW status \in Statuses, NEW missing \in BOOLEAN,
             NEW after \in {0, RetryAfter}, Respond(r, status, missing, after)
      PROVE  IInv'
  <2>1. /\ rq.pc = "send" /\ UNCHANGED <<ticks, clears>>
        /\ Record(Target(rq), status, missing, after)
    BY <1>8 DEF Respond
  <2>2. HealthOK'
    BY <1>1, <2>1, TargetIs, RecordKeeps DEF IInv
  <2>3. status \in Outcomes \ NotSent
    BY DEF Outcomes, NotSent, Statuses
  <2>4. CASE FailsOver(status)
    <3>1. Sound(Advanced([Counted(Traced(rq, status)) EXCEPT !.last = status],
                         connCool', depCool'))
      BY <1>1, <2>1, <2>4, OverRuns, AdvancedSound
    <3> QED BY <1>8, <2>2, <2>4, <3>1, OneSteps DEF Respond
  <2>5. CASE ~FailsOver(status)
    <3>1. /\ Sound(Answered(Counted(Traced(rq, status)), status))
          /\ Sound([Counted(Traced(rq, status)) EXCEPT !.pc = "stream"])
      BY <1>1, <2>1, <2>3, EndsSound
    <3>2. CASE status = "ok" /\ r \in Streaming
      BY <1>8, <2>2, <2>5, <3>1, <3>2, OneSteps DEF Respond
    <3>3. CASE ~(status = "ok" /\ r \in Streaming)
      BY <1>8, <2>2, <2>5, <3>1, <3>3, OneSteps DEF Respond
    <3> QED BY <3>2, <3>3
  <2> QED BY <2>4, <2>5
<1>9. ASSUME NEW status, NEW after \in {0, RetryAfter}, BreakOff(r, status, after)
      PROVE  IInv'
  <2>1. /\ rq.pc = "send" /\ UNCHANGED <<ticks, clears>>
        /\ Record(Target(rq), status, FALSE, after)
    BY <1>9 DEF BreakOff
  <2>2. HealthOK'
    BY <1>1, <2>1, TargetIs, RecordKeeps DEF IInv
  <2>3. "ambiguous" \in Outcomes \ NotSent /\ ~FailsOver("ambiguous")
    BY DEF Outcomes, NotSent, FailsOver
  <2>4. Sound(Answered(Counted(Traced(rq, "ambiguous")), "ambiguous"))
    BY <1>1, <2>1, <2>3, EndsSound
  <2> QED BY <1>9, <2>2, <2>3, <2>4, OneSteps DEF BreakOff
<1>10. ASSUME NEW whole \in BOOLEAN, EndStream(r, whole)
       PROVE  IInv'
  <2> DEFINE a == IF whole THEN "ok" ELSE "ambiguous"
             s == Answered(rq, a)
  <2>1. rq.pc = "stream" /\ req' = [req EXCEPT ![r] = s]
    BY <1>10 DEF EndStream
  <2>2. a \in Answers /\ a # "gateway_error"
    BY DEF Answers, Statuses
  <2>3. rq \in Request
    BY <1>1 DEF Sound
  <2> HIDE DEF rq, a
  <2>4. s \in Request /\ s.traces = rq.traces /\ s.pc = "done" /\ s.answer = a
    BY <2>2, <2>3, EmptyOrder DEF Answered, Request
  <2> HIDE DEF s
  <2>5. Sound(s)
    BY <1>1, <2>1, <2>2, <2>4 DEF Sound
  <2> QED BY <1>2, <1>10, <2>1, <2>5, OneSteps DEF EndStream
<1>11. CASE Open(r)
  <2>1. rq.pc = "preflight"
        /\ req' = [req EXCEPT ![r] = Advanced(rq, connCool, depCool)]
    BY <1>11 DEF Open
  <2>2. Sound(Advanced(rq, connCool, depCool))
    BY <1>1, <2>1, SendingRuns, AdvancedSound
  <2> QED BY <1>2, <1>11, <2>1, <2>2, OneSteps DEF Open
<1>12. CASE NoRoom(r)
  <2> DEFINE s == Answered(rq, "unavailable")
  <2>1. rq.pc = "preflight" /\ req' = [req EXCEPT ![r] = s]
    BY <1>12 DEF NoRoom
  <2>2. Running(rq) /\ rq \in Request /\ "unavailable" \in Answers
    BY <1>1, <2>1, SendingRuns DEF Sound, Answers
  <2> HIDE DEF rq
  <2>3. /\ s \in Request /\ s.traces = rq.traces /\ s.pc = "done"
        /\ s.answer = "unavailable"
    BY <2>2, EmptyOrder DEF Answered, Request
  <2> HIDE DEF s
  <2>4. Sound(s)
    BY <2>2, <2>3 DEF Sound, Running
  <2> QED BY <1>2, <1>12, <2>1, <2>4, OneSteps DEF NoRoom
<1> QED BY <1>4, <1>5, <1>6, <1>7, <1>8, <1>9, <1>10, <1>11, <1>12 DEF Progress

LEMMA ClearKeeps ==
  ASSUME IInv, NEW c \in Connections, Clear(c)
  PROVE  IInv'
<1>1. HealthOK'
  BY NumbersAssumption DEF IInv, HealthOK, Clear, Longer
<1> QED BY <1>1 DEF IInv, Clear

LEMMA TickKeeps ==
  ASSUME IInv, Tick
  PROVE  IInv'
<1>1. HealthOK'
  BY NumbersAssumption DEF IInv, HealthOK, Tick, Longer
<1> QED BY <1>1 DEF IInv, Tick

LEMMA NextKeeps == IInv /\ [Next]_vars => IInv'
<1> SUFFICES ASSUME IInv, [Next]_vars PROVE IInv'
  OBVIOUS
<1>1. CASE UNCHANGED vars
  BY <1>1 DEF vars, IInv, HealthOK
<1>2. ASSUME NEW r \in Requests, Arrive(r) PROVE IInv'
  BY <1>2, ArriveFixes, FixKeeps
<1>3. ASSUME NEW r \in Requests, Progress(r) PROVE IInv'
  BY <1>3, ProgressKeeps
<1>4. ASSUME NEW c \in Connections, Clear(c) PROVE IInv'
  BY <1>4, ClearKeeps
<1>5. CASE Tick
  BY <1>5, TickKeeps
<1> QED BY <1>1, <1>2, <1>3, <1>4, <1>5 DEF Next

LEMMA Always == Spec => []IInv
BY InitInv, NextKeeps, PTL DEF Spec

-----------------------------------------------------------------------------
(* Theorems *)

\* The breakers' deadlines are bounded by the longest cooldown of their kind, and
\* the local variables of every request have their types.
THEOREM Types == Spec => []TypeOK
<1>1. IInv => TypeOK
  BY DEF IInv, HealthOK, TypeOK
<1> QED BY <1>1, Always, PTL

\* A request that a provider may have billed, but did not answer, is not sent
\* again (RawOpenAIProxy, should_fail_over), however others cool its targets.
THEOREM NothingRepeated == Spec => []NeverRepeatedBlindly
<1>1. IInv => NeverRepeatedBlindly
  BY DEF IInv, Sound, Repeatable, NeverRepeatedBlindly
<1> QED BY <1>1, Always, PTL

\* The answer a provider gave is returned, and not the network error of a target
\* that was tried after it (_finalize_attempts).
THEOREM AnswerKept == Spec => []ProviderAnswerKept
<1>1. IInv => ProviderAnswerKept
  BY DEF IInv, Sound, ProviderAnswerKept
<1> QED BY <1>1, Always, PTL

\* The loop of a request goes on only to a target that nothing cools at that
\* moment, whoever stopped it since the route was resolved: while the usage ledger
\* was looked at, for the first, or while the targets before it were sent to.
LEMMA AdvancedRechecked ==
  ASSUME NEW r \in Requests, NEW from \in Request, Begins(r),
         req'[r] = Advanced(from, connCool', depCool')
  PROVE  ~Cooling(connCool', depCool', Target(req'[r]))
BY AdvancedIs DEF Begins

LEMMA OverDoesNotBegin ==
  ASSUME NEW r \in Requests, NEW from \in Request, NEW answer,
         req'[r] = Answered(from, answer)
  PROVE  ~Begins(r)
BY DEF Answered, Begins, Request

\* Nothing is sent before the preflight.
LEMMA FixDoesNotBegin ==
  ASSUME IInv, NEW r \in Requests, NEW ds, NEW required, NEW able, NEW shaped,
         Fix(r, ds, required, able, shaped)
  PROVE  ~Begins(r)
<1>1. New \in Request /\ req \in [Requests -> Request]
  BY NewSound DEF Sound, IInv
<1>2. req'[r].pc \in {"preflight", "done"}
  BY <1>1 DEF Fix, Answered, New
<1> QED BY <1>2 DEF Begins

LEMMA ProgressRechecks ==
  ASSUME IInv, NEW r \in Requests, Progress(r), Begins(r)
  PROVE  ~Cooling(connCool', depCool', Target(req'[r]))
<1> DEFINE rq == req[r]
<1>1. Sound(rq) /\ req \in [Requests -> Request]
  BY DEF IInv
<1>2. rq \in Request /\ (rq.pc \in {"send", "sleep"} => rq.at \in DOMAIN rq.targets /\ rq.try >= 1)
  BY <1>1 DEF Sound
<1>3. rq.pc = "send" => Counted(rq) \in Request
  BY <1>2, CountedIs
<1>4. ASSUME NEW what \in Outcomes, rq.pc = "send"
      PROVE  Traced(rq, what) \in Request /\ Counted(Traced(rq, what)) \in Request
  BY <1>2, <1>4, TracedIs, CountedIs
<1>5. /\ NotSent \subseteq Outcomes /\ Statuses \subseteq Outcomes
      /\ {"refused", "unreachable"} = NotSent /\ "ambiguous" \in Outcomes
      /\ ~FailsOver("ambiguous")
  BY DEF Outcomes, NotSent, FailsOver
<1>6. CASE FailLocally(r)
  <2>1. rq.pc = "send" /\ req'[r] = Advanced(Counted(rq), connCool', depCool')
    BY <1>1, <1>6 DEF FailLocally
  <2> QED BY <1>3, <2>1, AdvancedRechecked
<1>7. CASE Refused(r)
  <2>1. rq.pc = "send" /\ UNCHANGED <<connCool, depCool>>
    BY <1>7 DEF Refused
  <2>2. Traced(rq, "refused") \in Request /\ Counted(Traced(rq, "refused")) \in Request
    BY <1>4, <1>5, <2>1
  <2>3. CASE rq.try <= Retries
    <3>1. req'[r] = [Traced(rq, "refused") EXCEPT !.pc = "sleep"]
      BY <1>1, <1>7, <2>3 DEF Refused
    <3>2. req'[r].pc = "sleep"
      BY <2>2, <3>1 DEF Request
    <3> QED BY <3>2 DEF Begins
  <2>4. CASE ~(rq.try <= Retries)
    <3>1. req'[r] = Advanced(Counted(Traced(rq, "refused")), connCool', depCool')
      BY <1>1, <1>7, <2>1, <2>4 DEF Refused
    <3> QED BY <2>2, <3>1, AdvancedRechecked
  <2> QED BY <2>3, <2>4
<1>8. CASE Resend(r)
  <2>1. rq.pc = "sleep" /\ req'[r] = [rq EXCEPT !.pc = "send", !.try = @ + 1]
    BY <1>1, <1>8 DEF Resend
  <2>2. rq.try \in Nat /\ rq.try >= 1 /\ req'[r].try = rq.try + 1
    BY <1>2, <2>1 DEF Request
  <2> QED BY <2>2 DEF Begins
<1>9. CASE Unreachable(r)
  <2>1. rq.pc = "send"
        /\ req'[r] = Advanced(Counted(Traced(rq, "unreachable")), connCool', depCool')
    BY <1>1, <1>9 DEF Unreachable
  <2>2. Counted(Traced(rq, "unreachable")) \in Request
    BY <1>4, <1>5, <2>1
  <2> QED BY <2>1, <2>2, AdvancedRechecked
<1>10. ASSUME NEW status \in Statuses, NEW missing, NEW after,
              Respond(r, status, missing, after)
       PROVE  ~Cooling(connCool', depCool', Target(req'[r]))
  <2> DEFINE c == Counted(Traced(rq, status))
             from == [c EXCEPT !.last = status]
  <2>1. rq.pc = "send"
    BY <1>10 DEF Respond
  <2>2. c \in Request
    BY <1>4, <1>5, <2>1
  <2>3. CASE FailsOver(status)
    <3>1. req'[r] = Advanced(from, connCool', depCool')
      BY <1>1, <1>10, <2>3 DEF Respond
    <3>2. from \in Request
      BY <2>2 DEF Request
    <3> QED BY <3>1, <3>2, AdvancedRechecked
  <2>4. CASE ~FailsOver(status) /\ status = "ok" /\ r \in Streaming
    <3>1. req'[r] = [c EXCEPT !.pc = "stream"]
      BY <1>1, <1>10, <2>4 DEF Respond
    <3> HIDE DEF c
    <3>2. req'[r].pc = "stream"
      BY <2>2, <3>1 DEF Request
    <3> QED BY <3>2 DEF Begins
  <2>5. CASE ~FailsOver(status) /\ ~(status = "ok" /\ r \in Streaming)
    <3>1. req'[r] = Answered(c, status)
      BY <1>1, <1>10, <2>5 DEF Respond
    <3> QED BY <2>2, <3>1, OverDoesNotBegin
  <2> QED BY <2>3, <2>4, <2>5
<1>11. ASSUME NEW status, NEW after, BreakOff(r, status, after)
       PROVE  ~Cooling(connCool', depCool', Target(req'[r]))
  <2>1. rq.pc = "send"
        /\ req'[r] = Answered(Counted(Traced(rq, "ambiguous")), "ambiguous")
    BY <1>1, <1>5, <1>11 DEF BreakOff
  <2>2. Counted(Traced(rq, "ambiguous")) \in Request
    BY <1>4, <1>5, <2>1
  <2> QED BY <2>1, <2>2, OverDoesNotBegin
<1>12. ASSUME NEW whole, EndStream(r, whole)
       PROVE  ~Cooling(connCool', depCool', Target(req'[r]))
  <2>1. req'[r] = Answered(rq, IF whole THEN "ok" ELSE "ambiguous")
    BY <1>1, <1>12 DEF EndStream
  <2> QED BY <1>2, <2>1, OverDoesNotBegin
<1>13. CASE Open(r)
  <2>1. req'[r] = Advanced(rq, connCool', depCool')
    BY <1>1, <1>13 DEF Open
  <2> QED BY <1>2, <2>1, AdvancedRechecked
<1>14. CASE NoRoom(r)
  <2>1. req'[r] = Answered(rq, "unavailable")
    BY <1>1, <1>14 DEF NoRoom
  <2> QED BY <1>2, <2>1, OverDoesNotBegin
<1> QED BY <1>6, <1>7, <1>8, <1>9, <1>10, <1>11, <1>12, <1>13, <1>14 DEF Progress

LEMMA StepRechecks ==
  ASSUME IInv, [Next]_vars, NEW r \in Requests, Begins(r)
  PROVE  ~Cooling(connCool', depCool', Target(req'[r]))
<1>0. req \in [Requests -> Request]
  BY DEF IInv
<1>1. SUFFICES ASSUME ~Arrive(r), ~Progress(r) PROVE req'[r] = req[r]
  <2>1. CASE req'[r] = req[r]
    BY <2>1 DEF Begins
  <2>2. CASE Arrive(r)
    BY <2>2, ArriveFixes, FixDoesNotBegin
  <2>3. CASE Progress(r)
    BY <2>3, ProgressRechecks
  <2> QED BY <1>1, <2>1, <2>2, <2>3
<1>2. ASSUME NEW q \in Requests, q # r, Arrive(q)
      PROVE  req'[r] = req[r]
  <2>1. PICK ds \in Order, required \in BOOLEAN, able \in Payloads, shaped \in Payloads :
          Fix(q, ds, required, able, shaped)
    BY <1>2, ArriveFixes
  <2> QED BY <1>0, <1>2, <2>1 DEF Fix
<1>3. ASSUME NEW q \in Requests, q # r, Progress(q)
      PROVE  req'[r] = req[r]
  BY <1>0, <1>3 DEF Progress, Open, NoRoom, FailLocally, Refused, Resend, Unreachable, Respond, BreakOff,
                    EndStream
<1>4. (\E c \in Connections : Clear(c)) \/ Tick \/ UNCHANGED vars => req'[r] = req[r]
  BY DEF Clear, Tick, vars
<1> QED BY <1>1, <1>2, <1>3, <1>4 DEF Next

\* A target is first tried only while neither it nor its connection cools down
\* (runtime_health.available, asked before each target), for any number of requests
\* that cool each other's targets between resolve and the first check, and between
\* one target and the next.
THEOREM Rechecked == Spec => TargetRechecked
<1>1. IInv /\ [Next]_vars =>
        (\A r \in Requests : Begins(r) => ~Cooling(connCool', depCool', Target(req'[r])))
  BY StepRechecks
<1> QED BY <1>1, Always, PTL DEF Spec, TargetRechecked

-----------------------------------------------------------------------------
(* Sums of counts *)

Units(w, S) == UNION {{x} \X (1..w[x]) : x \in S}

\* What is counted is finite, so that a sum of counts is a number.
LEMMA UnitsAreFinite ==
  ASSUME NEW S, IsFiniteSet(S), NEW w, \A x \in S : w[x] \in Nat
  PROVE  IsFiniteSet(Units(w, S)) /\ SumOf(w, S) = Cardinality(Units(w, S)) /\ SumOf(w, S) \in Nat
<1> DEFINE g == [x \in S |-> {x} \X (1..w[x])]
<1> DEFINE T == {{x} \X (1..w[x]) : x \in S}
<1>1. g \in Surjection(S, T)
  <2>1. g \in [S -> T]
    OBVIOUS
  <2>2. \A t \in T : \E x \in S : g[x] = t
    OBVIOUS
  <2> HIDE DEF g, T
  <2> QED BY <2>1, <2>2, Fun_IsSurj
<1>2. IsFiniteSet(T)
  <2> HIDE DEF g, T
  <2> QED BY <1>1, FS_Surjection
<1>3. \A t \in T : IsFiniteSet(t)
  <2>1. SUFFICES ASSUME NEW x \in S PROVE IsFiniteSet({x} \X (1..w[x]))
    OBVIOUS
  <2>2. w[x] \in Int /\ 1 \in Int
    OBVIOUS
  <2>3. IsFiniteSet({x}) /\ IsFiniteSet(1..w[x])
    BY <2>2, FS_Singleton, FS_Interval
  <2> QED BY <2>3, FS_Product
<1>4. IsFiniteSet(UNION T)
  <2> HIDE DEF T
  <2> QED BY <1>2, <1>3, FS_UNION
<1>5. IsFiniteSet(Units(w, S))
  BY <1>4 DEF Units
<1>6. SumOf(w, S) = Cardinality(Units(w, S))
  BY DEF SumOf, Units
<1> QED BY <1>5, <1>6, FS_CardinalityType

\* What is counted belongs to one member of the set.
LEMMA UnitsAre ==
  ASSUME NEW S, NEW w, NEW i
  PROVE  i \in Units(w, S) <=> \E x \in S : \E k \in 1..w[x] : i = <<x, k>>
BY DEF Units

\* A set whose members are spread over D, no more than w[d] of them at d, has at
\* most as many members as those counts amount to.
LEMMA SpreadOut ==
  ASSUME NEW P, IsFiniteSet(P), NEW D, IsFiniteSet(D), NEW w, \A d \in D : w[d] \in Nat,
         NEW g \in [P -> D], \A d \in D : Cardinality({i \in P : g[i] = d}) <= w[d]
  PROVE  Cardinality(P) <= SumOf(w, D)
<1> DEFINE Fibre(d) == {i \in P : g[i] = d}
<1>1. ASSUME NEW d \in D PROVE \E h : h \in Injection(Fibre(d), 1..w[d])
  <2>1. IsFiniteSet(Fibre(d))
    BY FS_Subset
  <2>2. PICK b : b \in Bijection(1..Cardinality(Fibre(d)), Fibre(d))
    <3> HIDE DEF Fibre
    <3> QED BY <2>1, FS_CardinalityType DEF ExistsBijection
  <2>3. Inverse(b, 1..Cardinality(Fibre(d)), Fibre(d)) \in Bijection(Fibre(d), 1..Cardinality(Fibre(d)))
    <3> HIDE DEF Fibre
    <3> QED BY <2>2, Fun_BijInverse
  <2>4. Cardinality(Fibre(d)) \in Nat /\ Cardinality(Fibre(d)) <= w[d] /\ w[d] \in Nat
    BY <2>1, FS_CardinalityType
  <2>5. 1..Cardinality(Fibre(d)) \subseteq 1..w[d]
    <3> HIDE DEF Fibre
    <3> QED BY <2>4
  <2> HIDE DEF Fibre
  <2> QED BY <2>3, <2>5 DEF Bijection, Injection
<1> DEFINE Place == [d \in D |-> CHOOSE h : h \in Injection(Fibre(d), 1..w[d])]
<1>2. \A d \in D : Place[d] \in Injection(Fibre(d), 1..w[d])
  BY <1>1
<1> HIDE DEF Place
<1> DEFINE f == [i \in P |-> <<g[i], Place[g[i]][i]>>]
<1>3. \A i \in P : g[i] \in D /\ i \in Fibre(g[i]) /\ Place[g[i]][i] \in 1..w[g[i]]
  BY <1>2 DEF Injection
<1>4. f \in [P -> Units(w, D)]
  BY <1>3, UnitsAre
<1>5. \A i, j \in P : f[i] = f[j] => i = j
  <2>1. SUFFICES ASSUME NEW i \in P, NEW j \in P, f[i] = f[j] PROVE i = j
    OBVIOUS
  <2>2. g[i] = g[j] /\ Place[g[i]][i] = Place[g[i]][j]
    BY <2>1
  <2>3. Place[g[i]] \in Injection(Fibre(g[i]), 1..w[g[i]]) /\ i \in Fibre(g[i]) /\ j \in Fibre(g[i])
    BY <1>2, <2>2
  <2> HIDE DEF Fibre
  <2> QED BY <2>2, <2>3, Fun_IsInj DEF Injection, IsInjective
<1>6. f \in Injection(P, Units(w, D))
  <2> HIDE DEF f
  <2> QED BY <1>4, <1>5 DEF Injection, IsInjective
<1> HIDE DEF f
<1> QED BY <1>6, UnitsAreFinite, FS_Injection

-----------------------------------------------------------------------------
(* Totals: every figure is the number of items, each of them of one event *)

Events == RequestIds \cup Old

Fields == {"calls", "complete", "known", "unknown"}

\* Total, of any knowledge c of the events.
TotalIn(c, S) ==
  [calls |-> Cardinality(S), complete |-> Cardinality({e \in S : c[e].complete}),
   known |-> SumOf([e \in S |-> c[e].known], S),
   unknown |-> SumOf([e \in S |-> c[e].unknown], S)]

Items(c, f, S) ==
  CASE f = "calls" -> S
    [] f = "complete" -> {e \in S : c[e].complete}
    [] f = "known" -> Units([e \in S |-> c[e].known], S)
    [] f = "unknown" -> Units([e \in S |-> c[e].unknown], S)

EventOf(f, i) == IF f \in {"calls", "complete"} THEN i ELSE i[1]

DayIn(c, S, d) == {e \in S : Day(c[e].at) = d}

LEMMA TotalIsIn == \A S : Total(S) = TotalIn(calls, S)
BY DEF Total, TotalIn

\* The items of a set of events are those whose event is in it.
LEMMA ItemsOf ==
  ASSUME NEW c \in [Events -> Call], NEW f \in Fields, NEW S \in SUBSET Events
  PROVE  Items(c, f, S) = {i \in Items(c, f, Events) : EventOf(f, i) \in S}
<1>1. CASE f = "calls"
  BY <1>1 DEF Items, EventOf
<1>2. CASE f = "complete"
  BY <1>2 DEF Items, EventOf
<1>3. CASE f = "known"
  <2>1. \A i : i \in Items(c, f, S) <=> \E x \in S : \E k \in 1..c[x].known : i = <<x, k>>
    BY <1>3, UnitsAre DEF Items
  <2>2. \A i : i \in Items(c, f, Events) <=> \E x \in Events : \E k \in 1..c[x].known : i = <<x, k>>
    BY <1>3, UnitsAre DEF Items
  <2> QED BY <1>3, <2>1, <2>2 DEF EventOf
<1>4. CASE f = "unknown"
  <2>1. \A i : i \in Items(c, f, S) <=> \E x \in S : \E k \in 1..c[x].unknown : i = <<x, k>>
    BY <1>4, UnitsAre DEF Items
  <2>2. \A i : i \in Items(c, f, Events) <=> \E x \in Events : \E k \in 1..c[x].unknown : i = <<x, k>>
    BY <1>4, UnitsAre DEF Items
  <2> QED BY <1>4, <2>1, <2>2 DEF EventOf
<1> QED BY <1>1, <1>2, <1>3, <1>4 DEF Fields

\* A figure is the number of items.
LEMMA TotalCounts ==
  ASSUME NEW c \in [Events -> Call], NEW f \in Fields, NEW S \in SUBSET Events, IsFiniteSet(S)
  PROVE  /\ TotalIn(c, S)[f] = Cardinality(Items(c, f, S))
         /\ IsFiniteSet(Items(c, f, S))
         /\ TotalIn(c, S)[f] \in Nat
<1>0. MaxSends \in Nat
  BY LedgerAssumption
<1>1. CASE f = "calls"
  BY <1>1, FS_CardinalityType DEF Items, TotalIn
<1>2. CASE f = "complete"
  <2>1. IsFiniteSet({e \in S : c[e].complete})
    BY FS_Subset
  <2> QED BY <1>2, <2>1, FS_CardinalityType DEF Items, TotalIn
<1>3. CASE f = "known"
  <2> DEFINE w == [e \in S |-> c[e].known]
  <2>1. \A x \in S : w[x] \in Nat
    BY <1>0 DEF Call, Events
  <2>2. Items(c, f, S) = Units(w, S) /\ TotalIn(c, S)[f] = SumOf(w, S)
    BY <1>3 DEF Items, TotalIn
  <2> HIDE DEF w
  <2> QED BY <2>1, <2>2, UnitsAreFinite
<1>4. CASE f = "unknown"
  <2> DEFINE w == [e \in S |-> c[e].unknown]
  <2>1. \A x \in S : w[x] \in Nat
    BY <1>0 DEF Call, Events
  <2>2. Items(c, f, S) = Units(w, S) /\ TotalIn(c, S)[f] = SumOf(w, S)
    BY <1>4 DEF Items, TotalIn
  <2> HIDE DEF w
  <2> QED BY <2>1, <2>2, UnitsAreFinite
<1> QED BY <1>1, <1>2, <1>3, <1>4 DEF Fields

LEMMA TotalType ==
  ASSUME NEW c \in [Events -> Call], NEW S \in SUBSET Events, IsFiniteSet(S)
  PROVE  TotalIn(c, S) \in Totals
<1>1. \A f \in Fields : TotalIn(c, S)[f] \in Nat
  BY TotalCounts
<1> QED BY <1>1 DEF TotalIn, Totals, Fields

\* The totals of two sets without a common event add up to that of both.
LEMMA TotalAdds ==
  ASSUME NEW c \in [Events -> Call], NEW S \in SUBSET Events, NEW T \in SUBSET Events,
         IsFiniteSet(S), IsFiniteSet(T), S \cap T = {}
  PROVE  TotalIn(c, S \cup T) = Plus(TotalIn(c, S), TotalIn(c, T))
<1>1. IsFiniteSet(S \cup T) /\ S \cup T \in SUBSET Events
  BY FS_Union
<1>2. ASSUME NEW f \in Fields
      PROVE  TotalIn(c, S \cup T)[f] = TotalIn(c, S)[f] + TotalIn(c, T)[f]
  <2>1. Items(c, f, S \cup T) = Items(c, f, S) \cup Items(c, f, T)
    BY ItemsOf, <1>1
  <2>2. Items(c, f, S) \cap Items(c, f, T) = {}
    BY ItemsOf
  <2>3. /\ TotalIn(c, S)[f] = Cardinality(Items(c, f, S)) /\ IsFiniteSet(Items(c, f, S))
        /\ TotalIn(c, S)[f] \in Nat
    BY TotalCounts
  <2>4. /\ TotalIn(c, T)[f] = Cardinality(Items(c, f, T)) /\ IsFiniteSet(Items(c, f, T))
        /\ TotalIn(c, T)[f] \in Nat
    BY TotalCounts
  <2>5. TotalIn(c, S \cup T)[f] = Cardinality(Items(c, f, S \cup T))
    BY <1>1, TotalCounts
  <2>6. Cardinality(Items(c, f, S) \cup Items(c, f, T))
          = Cardinality(Items(c, f, S)) + Cardinality(Items(c, f, T)) - Cardinality({})
    BY <2>2, <2>3, <2>4, FS_Union
  <2>7. Cardinality({}) = 0
    BY FS_EmptySet
  <2>8. /\ Cardinality(Items(c, f, S)) \in Nat /\ Cardinality(Items(c, f, T)) \in Nat
        /\ TotalIn(c, S \cup T)[f] = Cardinality(Items(c, f, S) \cup Items(c, f, T))
    BY <2>1, <2>3, <2>4, <2>5
  <2> QED BY <2>3, <2>4, <2>6, <2>7, <2>8
<1> QED BY <1>2 DEF TotalIn, Plus, Fields

\* The total of more events is no less.
LEMMA TotalGrows ==
  ASSUME NEW c \in [Events -> Call], NEW f \in Fields, NEW T \in SUBSET Events, IsFiniteSet(T),
         NEW S \in SUBSET T
  PROVE  TotalIn(c, S)[f] <= TotalIn(c, T)[f]
<1>1. IsFiniteSet(S) /\ S \in SUBSET Events
  BY FS_Subset
<1>2. Items(c, f, S) \in SUBSET Items(c, f, T)
  BY <1>1, ItemsOf
<1>3. TotalIn(c, S)[f] = Cardinality(Items(c, f, S))
  BY <1>1, TotalCounts
<1>4. TotalIn(c, T)[f] = Cardinality(Items(c, f, T)) /\ IsFiniteSet(Items(c, f, T))
  BY TotalCounts
<1> QED BY <1>2, <1>3, <1>4, FS_Subset

\* A total is the same for whoever knows the same of its events.
LEMMA TotalAgrees ==
  ASSUME NEW c, NEW b, NEW S, \A e \in S : b[e] = c[e]
  PROVE  TotalIn(b, S) = TotalIn(c, S)
<1>1. {e \in S : b[e].complete} = {e \in S : c[e].complete}
  OBVIOUS
<1>2. [e \in S |-> b[e].known] = [e \in S |-> c[e].known]
  OBVIOUS
<1>3. [e \in S |-> b[e].unknown] = [e \in S |-> c[e].unknown]
  OBVIOUS
<1> QED BY <1>1, <1>2, <1>3 DEF TotalIn

\* A total is no more than what its days are known to amount to.
LEMMA TotalOverDays ==
  ASSUME NEW c \in [Events -> Call], NEW f \in Fields, NEW S \in SUBSET Events, IsFiniteSet(S),
         NEW D, IsFiniteSet(D), NEW w, \A d \in D : w[d] \in Nat,
         \A e \in S : Day(c[e].at) \in D,
         \A d \in D : TotalIn(c, DayIn(c, S, d))[f] <= w[d]
  PROVE  TotalIn(c, S)[f] <= SumOf(w, D)
<1> DEFINE P == Items(c, f, S)
<1> DEFINE g == [i \in P |-> Day(c[EventOf(f, i)].at)]
<1>1. TotalIn(c, S)[f] = Cardinality(P) /\ IsFiniteSet(P)
  BY TotalCounts
<1>2. \A i \in P : EventOf(f, i) \in S
  BY ItemsOf
<1>3. g \in [P -> D]
  BY <1>2
<1>4. ASSUME NEW d \in D PROVE Cardinality({i \in P : g[i] = d}) <= w[d]
  <2>1. DayIn(c, S, d) \in SUBSET Events /\ IsFiniteSet(DayIn(c, S, d))
    BY FS_Subset DEF DayIn
  <2>2. Items(c, f, DayIn(c, S, d)) = {i \in Items(c, f, Events) : EventOf(f, i) \in DayIn(c, S, d)}
    BY <2>1, ItemsOf
  <2>3. P = {i \in Items(c, f, Events) : EventOf(f, i) \in S}
    BY ItemsOf
  <2>4. {i \in P : g[i] = d} = Items(c, f, DayIn(c, S, d))
    BY <2>2, <2>3 DEF DayIn
  <2>5. TotalIn(c, DayIn(c, S, d))[f] = Cardinality(Items(c, f, DayIn(c, S, d)))
    BY <2>1, TotalCounts
  <2> QED BY <2>4, <2>5
<1> HIDE DEF g, P
<1> QED BY <1>1, <1>3, <1>4, SpreadOut

-----------------------------------------------------------------------------
(* The inductive invariant, as a matter of what is known of the events (c), of *)
(* those not yet rolled up (rw), of the days (dy) and of the first day that is *)
(* kept (lim).                                                                *)

BookedIn(c) == {e \in Events : c[e].pc = "recorded"}

\* DaysAddUp.
AddsUp(c, rw, dy, lim) ==
  \A d \in Days : d >= lim =>
    Plus(dy[d], TotalIn(c, DayIn(c, rw, d))) = TotalIn(c, DayIn(c, BookedIn(c), d))

AtLeast(c, got, S, F) == \A f \in F : TotalIn(c, S)[f] <= got[f]

\* What a summary has read from the events themselves is a set of them; whatever
\* is not in it has been rolled up, so that it will be read with the days.
ReadRaw(c, rw, s, F) ==
  \E Q \in SUBSET s.from : s.from \cap rw \subseteq Q /\ AtLeast(c, s.got, Q, F)

\* What was there when the summary began and is not dropped.
StillKept(c, lim, s) == {e \in s.from : Day(c[e].at) >= lim}

OfRequests == {"calls", "complete"}
OfSends == {"known", "unknown"}

SummaryIs(c, rw, lim, s) ==
  s.pc # "idle" =>
    /\ s.from \subseteq BookedIn(c)
    /\ \A e \in s.from : c[e].at >= s.since
    /\ s.pc = "events" => ReadRaw(c, rw, s, OfRequests)
    /\ s.pc \in {"attempts", "costs", "done"} => AtLeast(c, s.got, StillKept(c, lim, s), OfRequests)
    /\ s.pc = "costs" => ReadRaw(c, rw, s, OfSends)
    /\ s.pc = "done" => AtLeast(c, s.got, StillKept(c, lim, s), OfSends)

\* A send still to come has room.
HasRoom(c) == c.pc \in {"new", "sending", "streaming"} => c.known + c.unknown < MaxSends

LedgerInv ==
  /\ LedgerTypeOK
  /\ \A r \in RequestIds : HasRoom(calls[r])
  /\ IsFiniteSet(BookedIn(calls))
  /\ AddsUp(calls, raw, days, DayBack(DailyDays))
  /\ \A p \in Readers : SummaryIs(calls, raw, DayBack(DailyDays), sums[p])

-----------------------------------------------------------------------------
(* Time *)

LEMMA DayIsMonotone ==
  /\ \A t \in Nat : Day(t) \in Nat
  /\ \A s, t \in Nat : s <= t => Day(s) <= Day(t)
BY DEF Day

\* As time passes the days that are kept begin later, never earlier.
LEMMA DayBackIs ==
  ASSUME NEW t \in Nat, NEW u \in Nat, t <= u, NEW n \in Nat
  PROVE  /\ (IF Day(t) < n THEN 0 ELSE Day(t) - n) \in Nat
         /\ (IF Day(t) < n THEN 0 ELSE Day(t) - n) <= (IF Day(u) < n THEN 0 ELSE Day(u) - n)
<1>1. Day(t) \in Nat /\ Day(u) \in Nat /\ Day(t) <= Day(u)
  BY DayIsMonotone
<1> QED BY <1>1

-----------------------------------------------------------------------------
(* Steps that leave the ledger alone *)

\* A step at which nothing recorded is changed and nothing recorded comes back.
LEMMA SummaryStays ==
  ASSUME NEW c, NEW b, NEW rw, NEW rv, NEW lim \in Nat, NEW lin \in Nat, NEW s,
         c \in [Events -> Call], b \in [Events -> Call], IsFiniteSet(BookedIn(c)),
         BookedIn(c) \subseteq BookedIn(b), \A e \in BookedIn(c) : b[e] = c[e],
         rv \cap BookedIn(c) \subseteq rw, lim <= lin,
         s \in Summary, SummaryIs(c, rw, lim, s)
  PROVE  SummaryIs(b, rv, lin, s)
<1>1. SUFFICES ASSUME s.pc # "idle" PROVE SummaryIs(b, rv, lin, s)
  BY DEF SummaryIs
<1>2. s.from \subseteq BookedIn(c) /\ \A e \in s.from : b[e] = c[e] /\ c[e].at >= s.since
  BY <1>1 DEF SummaryIs
<1>3. /\ BookedIn(c) \in SUBSET Events
      /\ \A e \in s.from : Day(c[e].at) \in Nat
  BY <1>2, DayIsMonotone, LedgerAssumption DEF BookedIn, Call, Instants
<1>4. ASSUME NEW S \in SUBSET s.from PROVE TotalIn(b, S) = TotalIn(c, S)
  BY <1>2, TotalAgrees
<1>5. ASSUME NEW F, ReadRaw(c, rw, s, F) PROVE ReadRaw(b, rv, s, F)
  <2>1. PICK Q \in SUBSET s.from : s.from \cap rw \subseteq Q /\ AtLeast(c, s.got, Q, F)
    BY <1>5 DEF ReadRaw
  <2>2. s.from \cap rv \subseteq Q
    BY <2>1, <1>2
  <2>3. AtLeast(b, s.got, Q, F)
    BY <2>1, <1>4 DEF AtLeast
  <2> QED BY <2>2, <2>3 DEF ReadRaw
<1>6. ASSUME NEW F \in SUBSET Fields, AtLeast(c, s.got, StillKept(c, lim, s), F)
      PROVE  AtLeast(b, s.got, StillKept(b, lin, s), F)
  <2>1. StillKept(b, lin, s) \subseteq StillKept(c, lim, s)
    BY <1>2, <1>3 DEF StillKept
  <2>2. /\ StillKept(c, lim, s) \in SUBSET Events /\ IsFiniteSet(StillKept(c, lim, s))
        /\ StillKept(b, lin, s) \in SUBSET s.from
    BY <1>2, <1>3, FS_Subset DEF StillKept
  <2>3. SUFFICES ASSUME NEW f \in F PROVE TotalIn(b, StillKept(b, lin, s))[f] <= s.got[f]
    BY DEF AtLeast
  <2>4. TotalIn(c, StillKept(b, lin, s))[f] <= TotalIn(c, StillKept(c, lim, s))[f]
    BY <2>1, <2>2, TotalGrows
  <2>5. TotalIn(c, StillKept(c, lim, s))[f] <= s.got[f]
    BY <1>6 DEF AtLeast
  <2>6. /\ TotalIn(c, StillKept(b, lin, s))[f] \in Nat /\ TotalIn(c, StillKept(c, lim, s))[f] \in Nat
        /\ s.got[f] \in Nat
    <3>1. IsFiniteSet(StillKept(b, lin, s)) /\ StillKept(b, lin, s) \in SUBSET Events
      BY <2>1, <2>2, FS_Subset
    <3>2. s.got \in Totals
      BY DEF Summary
    <3>3. s.got[f] \in Nat
      BY <3>2 DEF Totals, Fields
    <3> QED BY <2>2, <3>1, <3>3, TotalCounts
  <2>7. TotalIn(b, StillKept(b, lin, s)) = TotalIn(c, StillKept(b, lin, s))
    BY <1>4, <2>2
  <2> QED BY <2>4, <2>5, <2>6, <2>7
<1>7. OfRequests \in SUBSET Fields /\ OfSends \in SUBSET Fields
  BY DEF OfRequests, OfSends, Fields
<1>8. s.from \subseteq BookedIn(b) /\ \A e \in s.from : b[e].at >= s.since
  BY <1>2
<1>9. s.pc = "events" => ReadRaw(b, rv, s, OfRequests)
  BY <1>1, <1>5 DEF SummaryIs
<1>10. s.pc \in {"attempts", "costs", "done"} => AtLeast(b, s.got, StillKept(b, lin, s), OfRequests)
  BY <1>1, <1>6, <1>7 DEF SummaryIs
<1>11. s.pc = "costs" => ReadRaw(b, rv, s, OfSends)
  BY <1>1, <1>5 DEF SummaryIs
<1>12. s.pc = "done" => AtLeast(b, s.got, StillKept(b, lin, s), OfSends)
  BY <1>1, <1>6, <1>7 DEF SummaryIs
<1> QED BY <1>8, <1>9, <1>10, <1>11, <1>12 DEF SummaryIs

\* The same for the days, when nothing is recorded or rolled up.
LEMMA DaysStay ==
  ASSUME NEW c, NEW b, NEW rw, NEW dy, NEW lim \in Nat, NEW lin \in Nat,
         BookedIn(b) = BookedIn(c), \A e \in BookedIn(c) : b[e] = c[e],
         rw \subseteq BookedIn(c), lim <= lin, AddsUp(c, rw, dy, lim)
  PROVE  AddsUp(b, rw, dy, lin)
<1>1. SUFFICES ASSUME NEW d \in Days, d >= lin
               PROVE  Plus(dy[d], TotalIn(b, DayIn(b, rw, d))) = TotalIn(b, DayIn(b, BookedIn(b), d))
  BY DEF AddsUp
<1>2. d \in Nat /\ d >= lim
  BY <1>1 DEF Days
<1>3. DayIn(b, rw, d) = DayIn(c, rw, d) /\ DayIn(b, BookedIn(b), d) = DayIn(c, BookedIn(c), d)
  BY DEF DayIn
<1>4. /\ TotalIn(b, DayIn(b, rw, d)) = TotalIn(c, DayIn(c, rw, d))
      /\ TotalIn(b, DayIn(b, BookedIn(b), d)) = TotalIn(c, DayIn(c, BookedIn(c), d))
  <2>1. \A e \in DayIn(c, rw, d) : b[e] = c[e]
    BY DEF DayIn
  <2>2. \A e \in DayIn(c, BookedIn(c), d) : b[e] = c[e]
    BY DEF DayIn
  <2> QED BY <1>3, <2>1, <2>2, TotalAgrees
<1>5. Plus(dy[d], TotalIn(c, DayIn(c, rw, d))) = TotalIn(c, DayIn(c, BookedIn(c), d))
  BY <1>2 DEF AddsUp
<1> QED BY <1>4, <1>5

-----------------------------------------------------------------------------
(* What is recorded and what is rolled up *)

LEMMA PlusIs ==
  ASSUME NEW s \in Totals, NEW t \in Totals, NEW u \in Totals
  PROVE  /\ Plus(s, t) \in Totals
         /\ Plus(Plus(s, t), u) = Plus(s, Plus(t, u))
         /\ Plus(Zero, s) = s
<1>1. DOMAIN s = Fields /\ DOMAIN t = Fields /\ DOMAIN u = Fields
  BY DEF Totals, Fields
<1>2. \A f \in Fields : s[f] \in Nat /\ t[f] \in Nat /\ u[f] \in Nat
  BY DEF Totals, Fields
<1>3. Plus(s, t) = [f \in Fields |-> s[f] + t[f]] /\ Plus(t, u) = [f \in Fields |-> t[f] + u[f]]
  BY <1>1 DEF Plus
<1>4. Plus(Plus(s, t), u) = [f \in Fields |-> (s[f] + t[f]) + u[f]]
  BY <1>3 DEF Plus
<1>5. Plus(s, Plus(t, u)) = [f \in Fields |-> s[f] + (t[f] + u[f])]
  BY <1>1, <1>3 DEF Plus
<1>6. \A f \in Fields : (s[f] + t[f]) + u[f] = s[f] + (t[f] + u[f])
  BY <1>2
<1>7. Plus(Plus(s, t), u) = Plus(s, Plus(t, u))
  BY <1>4, <1>5, <1>6
<1>8. Plus(Zero, s) = s
  <2>1. Plus(Zero, s) = [f \in Fields |-> Zero[f] + s[f]]
    BY DEF Plus, Zero, Fields
  <2>2. \A f \in Fields : Zero[f] + s[f] = s[f]
    BY <1>2 DEF Zero, Fields
  <2>3. s = [f \in Fields |-> s[f]]
    BY DEF Totals, Fields
  <2> QED BY <2>1, <2>2, <2>3
<1>9. Plus(s, t) \in Totals
  <2>1. \A f \in Fields : s[f] + t[f] \in Nat
    BY <1>2
  <2>2. /\ s.calls + t.calls \in Nat /\ s.complete + t.complete \in Nat
        /\ s.known + t.known \in Nat /\ s.unknown + t.unknown \in Nat
    BY <2>1 DEF Fields
  <2>3. Plus(s, t) = [calls |-> s.calls + t.calls, complete |-> s.complete + t.complete,
                      known |-> s.known + t.known, unknown |-> s.unknown + t.unknown]
    BY <1>3 DEF Fields
  <2> QED BY <2>2, <2>3 DEF Totals
<1> QED BY <1>7, <1>8, <1>9

LEMMA PlusAt ==
  ASSUME NEW s \in Totals, NEW t \in Totals, NEW f \in Fields
  PROVE  Plus(s, t)[f] = s[f] + t[f] /\ s[f] \in Nat /\ t[f] \in Nat
BY DEF Plus, Totals, Fields

LEMMA DayType ==
  ASSUME NEW c \in [Events -> Call], NEW S \in SUBSET BookedIn(c), IsFiniteSet(BookedIn(c)), NEW d
  PROVE  /\ DayIn(c, S, d) \in SUBSET Events /\ IsFiniteSet(DayIn(c, S, d))
         /\ TotalIn(c, DayIn(c, S, d)) \in Totals
<1>1. DayIn(c, S, d) \in SUBSET BookedIn(c) /\ BookedIn(c) \in SUBSET Events
  BY DEF DayIn, BookedIn
<1>2. IsFiniteSet(DayIn(c, S, d)) /\ DayIn(c, S, d) \in SUBSET Events
  BY <1>1, FS_Subset
<1> QED BY <1>2, TotalType

\* A request that is recorded is on both sides.
LEMMA DaysRecord ==
  ASSUME NEW c \in [Events -> Call], NEW b \in [Events -> Call], NEW r \in Events,
         r \notin BookedIn(c), BookedIn(b) = BookedIn(c) \cup {r}, IsFiniteSet(BookedIn(b)),
         \A e \in BookedIn(c) : b[e] = c[e],
         NEW rw \in SUBSET BookedIn(c), NEW dy \in [Days -> Totals], NEW lim, AddsUp(c, rw, dy, lim)
  PROVE  AddsUp(b, rw \cup {r}, dy, lim)
<1>1. SUFFICES ASSUME NEW d \in Days, d >= lim
               PROVE  Plus(dy[d], TotalIn(b, DayIn(b, rw \cup {r}, d)))
                        = TotalIn(b, DayIn(b, BookedIn(b), d))
  BY DEF AddsUp
<1> DEFINE A == DayIn(b, rw, d)
<1> DEFINE B == DayIn(b, BookedIn(c), d)
<1> DEFINE R == DayIn(b, {r}, d)
<1>2. DayIn(b, rw \cup {r}, d) = A \cup R /\ DayIn(b, BookedIn(b), d) = B \cup R
  BY DEF DayIn
<1>3. A \cap R = {} /\ B \cap R = {}
  BY DEF DayIn
<1>4. /\ A \in SUBSET Events /\ IsFiniteSet(A) /\ TotalIn(b, A) \in Totals
      /\ B \in SUBSET Events /\ IsFiniteSet(B)
      /\ R \in SUBSET Events /\ IsFiniteSet(R) /\ TotalIn(b, R) \in Totals
  <2>1. rw \in SUBSET BookedIn(b) /\ BookedIn(c) \in SUBSET BookedIn(b) /\ {r} \in SUBSET BookedIn(b)
    OBVIOUS
  <2> QED BY <2>1, DayType
<1>5. TotalIn(b, A \cup R) = Plus(TotalIn(b, A), TotalIn(b, R))
  <2> HIDE DEF A, B, R
  <2> QED BY <1>3, <1>4, TotalAdds
<1>6. TotalIn(b, B \cup R) = Plus(TotalIn(b, B), TotalIn(b, R))
  <2> HIDE DEF A, B, R
  <2> QED BY <1>3, <1>4, TotalAdds
<1>7. A = DayIn(c, rw, d) /\ B = DayIn(c, BookedIn(c), d)
  BY DEF DayIn
<1>8. TotalIn(b, A) = TotalIn(c, A) /\ TotalIn(b, B) = TotalIn(c, B)
  <2>1. (\A e \in A : b[e] = c[e]) /\ (\A e \in B : b[e] = c[e])
    BY DEF DayIn
  <2> HIDE DEF A, B
  <2> QED BY <2>1, TotalAgrees
<1>9. Plus(dy[d], TotalIn(c, A)) = TotalIn(c, B)
  BY <1>1, <1>7 DEF AddsUp
<1>10. Plus(dy[d], Plus(TotalIn(b, A), TotalIn(b, R))) = Plus(Plus(dy[d], TotalIn(b, A)), TotalIn(b, R))
  <2>1. dy[d] \in Totals
    OBVIOUS
  <2> HIDE DEF A, B, R
  <2> QED BY <1>4, <2>1, PlusIs
<1> HIDE DEF A, B, R
<1> QED BY <1>2, <1>5, <1>6, <1>8, <1>9, <1>10

\* Events that are rolled up go over to the days.
LEMMA DaysRoll ==
  ASSUME NEW c \in [Events -> Call], IsFiniteSet(BookedIn(c)), NEW rw \in SUBSET BookedIn(c),
         NEW old \in SUBSET rw, NEW dy \in [Days -> Totals], NEW dz, NEW lim,
         \A d \in Days : d >= lim => dz[d] = Plus(dy[d], TotalIn(c, DayIn(c, old, d))),
         AddsUp(c, rw, dy, lim)
  PROVE  AddsUp(c, rw \ old, dz, lim)
<1>1. SUFFICES ASSUME NEW d \in Days, d >= lim
               PROVE  Plus(dz[d], TotalIn(c, DayIn(c, rw \ old, d)))
                        = TotalIn(c, DayIn(c, BookedIn(c), d))
  BY DEF AddsUp
<1> DEFINE A == DayIn(c, old, d)
<1> DEFINE B == DayIn(c, rw \ old, d)
<1>2. DayIn(c, rw, d) = A \cup B /\ A \cap B = {}
  BY DEF DayIn
<1>3. /\ A \in SUBSET Events /\ IsFiniteSet(A) /\ TotalIn(c, A) \in Totals
      /\ B \in SUBSET Events /\ IsFiniteSet(B) /\ TotalIn(c, B) \in Totals
  <2>1. old \in SUBSET BookedIn(c) /\ rw \ old \in SUBSET BookedIn(c)
    OBVIOUS
  <2> QED BY <2>1, DayType
<1>4. dz[d] = Plus(dy[d], TotalIn(c, A)) /\ dy[d] \in Totals
  BY <1>1
<1>5. Plus(dy[d], TotalIn(c, DayIn(c, rw, d))) = TotalIn(c, DayIn(c, BookedIn(c), d))
  BY <1>1 DEF AddsUp
<1> HIDE DEF A, B
<1>6. TotalIn(c, A \cup B) = Plus(TotalIn(c, A), TotalIn(c, B))
  BY <1>2, <1>3, TotalAdds
<1>7. Plus(Plus(dy[d], TotalIn(c, A)), TotalIn(c, B)) = Plus(dy[d], Plus(TotalIn(c, A), TotalIn(c, B)))
  BY <1>3, <1>4, PlusIs
<1>8. B = DayIn(c, rw \ old, d)
  BY DEF B
<1> QED BY <1>2, <1>4, <1>5, <1>6, <1>7, <1>8

-----------------------------------------------------------------------------
(* What a summary reads *)

\* Events that have been rolled up are in the totals of their days.
LEMMA DaysTell ==
  ASSUME NEW c \in [Events -> Call], IsFiniteSet(BookedIn(c)), NEW rw \in SUBSET BookedIn(c),
         NEW dy \in [Days -> Totals], NEW lim \in Nat, AddsUp(c, rw, dy, lim),
         NEW f \in Fields, NEW S \in SUBSET (BookedIn(c) \ rw), NEW D \in SUBSET Days,
         \A e \in S : Day(c[e].at) \in D /\ Day(c[e].at) >= lim,
         NEW w, \A d \in D : w[d] = dy[d][f]
  PROVE  TotalIn(c, S)[f] <= SumOf(w, D)
<1>1. S \in SUBSET Events /\ IsFiniteSet(S)
  BY FS_Subset DEF BookedIn
<1>2. IsFiniteSet(D)
  <2>1. Day(MaxTime) \in Nat
    BY DayIsMonotone, LedgerAssumption
  <2>2. IsFiniteSet(Days)
    BY <2>1, FS_Interval DEF Days
  <2> QED BY <2>2, FS_Subset
<1>3. \A d \in D : w[d] \in Nat
  BY DEF Totals, Fields
<1>4. ASSUME NEW d \in D PROVE TotalIn(c, DayIn(c, S, d))[f] <= w[d]
  <2>1. CASE d >= lim
    <3> DEFINE A == DayIn(c, BookedIn(c) \ rw, d)
    <3> DEFINE B == DayIn(c, rw, d)
    <3>1. DayIn(c, BookedIn(c), d) = A \cup B /\ A \cap B = {} /\ DayIn(c, S, d) \in SUBSET A
      BY DEF DayIn
    <3>2. /\ A \in SUBSET Events /\ IsFiniteSet(A) /\ TotalIn(c, A) \in Totals
          /\ B \in SUBSET Events /\ IsFiniteSet(B) /\ TotalIn(c, B) \in Totals
      BY DayType
    <3>3. Plus(dy[d], TotalIn(c, B)) = TotalIn(c, DayIn(c, BookedIn(c), d)) /\ dy[d] \in Totals
      BY <2>1 DEF AddsUp
    <3>4. w[d] = dy[d][f]
      OBVIOUS
    <3> HIDE DEF A, B
    <3>5. Plus(dy[d], TotalIn(c, B)) = Plus(TotalIn(c, A), TotalIn(c, B))
      BY <3>1, <3>2, <3>3, TotalAdds
    <3>6. dy[d][f] + TotalIn(c, B)[f] = TotalIn(c, A)[f] + TotalIn(c, B)[f]
      <4>1. Plus(dy[d], TotalIn(c, B))[f] = dy[d][f] + TotalIn(c, B)[f]
        BY <3>2, <3>3, PlusAt
      <4>2. Plus(TotalIn(c, A), TotalIn(c, B))[f] = TotalIn(c, A)[f] + TotalIn(c, B)[f]
        BY <3>2, PlusAt
      <4> QED BY <3>5, <4>1, <4>2
    <3>7. dy[d][f] \in Nat /\ TotalIn(c, A)[f] \in Nat /\ TotalIn(c, B)[f] \in Nat
      BY <3>2, <3>3, PlusAt
    <3>8. TotalIn(c, DayIn(c, S, d))[f] <= TotalIn(c, A)[f]
      BY <3>1, <3>2, TotalGrows
    <3>9. TotalIn(c, A)[f] = dy[d][f]
      BY <3>6, <3>7
    <3> QED BY <3>4, <3>8, <3>9
  <2>2. CASE ~(d >= lim)
    <3>1. DayIn(c, S, d) = {}
      BY <2>2 DEF DayIn
    <3>2. {} \in SUBSET Events /\ IsFiniteSet({}) /\ Cardinality({}) = 0
      BY FS_EmptySet
    <3>3. Items(c, f, {}) = {}
      BY <3>2, ItemsOf
    <3>4. TotalIn(c, {})[f] = Cardinality(Items(c, f, {}))
      BY <3>2, TotalCounts
    <3>5. w[d] \in Nat
      BY <1>3
    <3>6. TotalIn(c, {})[f] = 0
      BY <3>2, <3>3, <3>4
    <3> QED BY <3>1, <3>5, <3>6
  <2> QED BY <2>1, <2>2
<1>5. \A e \in S : Day(c[e].at) \in D
  OBVIOUS
<1>6. \A d \in D : TotalIn(c, DayIn(c, S, d))[f] <= w[d]
  BY <1>4
<1> QED BY <1>1, <1>2, <1>3, <1>5, <1>6, TotalOverDays

\* Once the days have been read as well, nothing is missing that is kept.
LEMMA ReadComplete ==
  ASSUME NEW c \in [Events -> Call], IsFiniteSet(BookedIn(c)), NEW rw \in SUBSET BookedIn(c),
         NEW dy \in [Days -> Totals], NEW lim \in Nat, AddsUp(c, rw, dy, lim),
         NEW s \in Summary, s.from \subseteq BookedIn(c), \A e \in s.from : c[e].at >= s.since,
         NEW F \in SUBSET Fields, ReadRaw(c, rw, s, F),
         NEW D, D = {d \in Days : d >= Day(s.since)},
         NEW got \in Totals, \A f \in F : got[f] = s.got[f] + SumOf([d \in D |-> dy[d][f]], D)
  PROVE  AtLeast(c, got, StillKept(c, lim, s), F)
<1>1. PICK Q \in SUBSET s.from : s.from \cap rw \subseteq Q /\ AtLeast(c, s.got, Q, F)
  BY DEF ReadRaw
<1> DEFINE K == StillKept(c, lim, s)
<1>2. BookedIn(c) \in SUBSET Events /\ D \in SUBSET Days
  BY DEF BookedIn
<1>3. /\ Q \in SUBSET Events /\ IsFiniteSet(Q) /\ IsFiniteSet(K \ Q)
      /\ K \ Q \in SUBSET Events /\ K \ Q \in SUBSET (BookedIn(c) \ rw)
      /\ Q \cap (K \ Q) = {}
  <2>1. K \in SUBSET s.from
    BY DEF StillKept
  <2>2. Q \in SUBSET BookedIn(c) /\ K \ Q \in SUBSET BookedIn(c) /\ K \ Q \in SUBSET (BookedIn(c) \ rw)
    <3> HIDE DEF K
    <3> QED BY <2>1, <1>1
  <2> HIDE DEF K
  <2> QED BY <2>2, <1>2, FS_Subset
<1>4. \A e \in K \ Q : Day(c[e].at) \in D /\ Day(c[e].at) >= lim
  <2>1. SUFFICES ASSUME NEW e \in K PROVE Day(c[e].at) \in D /\ Day(c[e].at) >= lim
    OBVIOUS
  <2>2. e \in s.from /\ Day(c[e].at) >= lim
    BY DEF StillKept
  <2>3. e \in Events
    BY <2>2, <1>2
  <2>4. c[e].at \in Instants /\ s.since \in Instants
    BY <2>3 DEF Call, Summary
  <2>5. c[e].at \in Nat /\ s.since \in Nat /\ MaxTime \in Nat /\ c[e].at <= MaxTime /\ s.since <= c[e].at
    BY <2>2, <2>4, LedgerAssumption DEF Instants
  <2>6. /\ Day(c[e].at) \in Nat /\ Day(MaxTime) \in Nat /\ Day(s.since) \in Nat
        /\ Day(c[e].at) <= Day(MaxTime) /\ Day(s.since) <= Day(c[e].at)
    BY <2>5, DayIsMonotone
  <2>7. Day(c[e].at) \in Days
    BY <2>6 DEF Days
  <2> QED BY <2>2, <2>6, <2>7
<1>5. SUFFICES ASSUME NEW f \in F PROVE TotalIn(c, K)[f] <= got[f]
  BY DEF AtLeast
<1> DEFINE T == SumOf([d \in D |-> dy[d][f]], D)
<1> HIDE DEF K
<1>6. TotalIn(c, K \ Q)[f] <= T
  <2> DEFINE S == K \ Q
  <2>1. f \in Fields /\ S \in SUBSET (BookedIn(c) \ rw)
    BY <1>3, <1>5
  <2>2. \A e \in S : Day(c[e].at) \in D /\ Day(c[e].at) >= lim
    BY <1>4
  <2> DEFINE w == [d \in D |-> dy[d][f]]
  <2>3. \A d \in D : w[d] = dy[d][f]
    OBVIOUS
  <2> HIDE DEF S, w
  <2>4. TotalIn(c, S)[f] <= SumOf(w, D)
    BY <1>2, <2>1, <2>2, <2>3, DaysTell
  <2> QED BY <2>4 DEF S, w
<1>7. TotalIn(c, Q)[f] <= s.got[f]
  BY <1>1, <1>5 DEF AtLeast
<1>8. got[f] = s.got[f] + T /\ got[f] \in Nat /\ s.got[f] \in Nat
  <2>1. s.got \in Totals
    BY DEF Summary
  <2> HIDE DEF T
  <2>2. got[f] \in Nat /\ s.got[f] \in Nat
    BY <2>1 DEF Totals, Fields
  <2> QED BY <1>5, <2>2 DEF T
<1>9. TotalIn(c, Q \cup (K \ Q)) = Plus(TotalIn(c, Q), TotalIn(c, K \ Q))
  BY <1>3, TotalAdds
<1>10. TotalIn(c, Q) \in Totals /\ TotalIn(c, K \ Q) \in Totals
  BY <1>3, TotalType
<1>11. /\ TotalIn(c, Q \cup (K \ Q))[f] = TotalIn(c, Q)[f] + TotalIn(c, K \ Q)[f]
       /\ TotalIn(c, Q)[f] \in Nat /\ TotalIn(c, K \ Q)[f] \in Nat
  <2>1. f \in Fields
    BY <1>5
  <2> HIDE DEF T
  <2> QED BY <1>9, <1>10, <2>1, PlusAt
<1>12. TotalIn(c, K)[f] <= TotalIn(c, Q \cup (K \ Q))[f]
  <2>1. Q \cup (K \ Q) \in SUBSET Events /\ IsFiniteSet(Q \cup (K \ Q)) /\ K \in SUBSET (Q \cup (K \ Q))
    BY <1>3, FS_Union
  <2> QED BY <2>1, TotalGrows
<1>13. T \in Nat
  <2>1. IsFiniteSet(D)
    <3>1. Day(MaxTime) \in Nat
      BY DayIsMonotone, LedgerAssumption
    <3>2. IsFiniteSet(Days)
      BY <3>1, FS_Interval DEF Days
    <3> QED BY <1>2, <3>2, FS_Subset
  <2>2. \A d \in D : [e \in D |-> dy[e][f]][d] \in Nat
    BY <1>2 DEF Totals, Fields
  <2> QED BY <2>1, <2>2, UnitsAreFinite
<1>14. TotalIn(c, K)[f] \in Nat
  <2>1. K \in SUBSET Events /\ IsFiniteSet(K)
    BY <1>2, FS_Subset DEF K, StillKept
  <2> QED BY <2>1, TotalCounts
<1> HIDE DEF T
<1> QED BY <1>6, <1>7, <1>8, <1>11, <1>12, <1>13, <1>14

-----------------------------------------------------------------------------
(* The steps *)

\* Nothing that is recorded is changed, and nothing else is recorded.
Quiet == BookedIn(calls') = BookedIn(calls) /\ \A e \in BookedIn(calls) : calls'[e] = calls[e]

CallsOK == calls \in [Events -> Call] /\ \A r \in RequestIds : HasRoom(calls[r])

\* A request that is not recorded, before the step and after it.
LEMMA OneCall ==
  ASSUME NEW r \in RequestIds, CallsOK, calls[r].pc # "recorded",
         NEW x \in Call, x.pc # "recorded", HasRoom(x), calls' = [calls EXCEPT ![r] = x]
  PROVE  CallsOK' /\ Quiet
<1>1. r \in Events
  BY DEF Events
<1>2. \A e \in Events : calls'[e] = IF e = r THEN x ELSE calls[e]
  BY <1>1 DEF CallsOK
<1>3. calls' \in [Events -> Call]
  BY <1>1 DEF CallsOK
<1>4. \A e \in RequestIds : HasRoom(calls'[e])
  BY <1>2 DEF CallsOK, Events
<1>5. CallsOK'
  BY <1>3, <1>4 DEF CallsOK
<1>6. Quiet
  BY <1>1, <1>2 DEF Quiet, BookedIn
<1> QED BY <1>5, <1>6

LEMMA NewCallIs ==
  /\ NewCall \in Call /\ NewCall.pc = "new" /\ HasRoom(NewCall)
  /\ Earlier \in Call /\ Earlier.pc = "recorded" /\ Earlier.at = 0
  /\ \A pc \in Stages : [NewCall EXCEPT !.pc = pc] \in Call /\ [NewCall EXCEPT !.pc = pc].pc = pc
<1>0. MaxSends \in Nat /\ MaxTime \in Nat /\ 0 < MaxSends
  BY LedgerAssumption
<1>1. 0 \in Instants /\ 0 \in 0..MaxSends /\ 1 \in 0..MaxSends
  BY <1>0 DEF Instants
<1>2. Earlier \in Call /\ Earlier.pc = "recorded" /\ Earlier.at = 0 /\ Earlier.unknown = 0
  BY <1>1 DEF Earlier, Call, Stages
<1>4. NewCall \in Call /\ NewCall.pc = "new" /\ NewCall.known = 0 /\ NewCall.unknown = 0
  BY <1>1, <1>2 DEF NewCall, Call, Stages
<1>5. HasRoom(NewCall)
  BY <1>0, <1>4 DEF HasRoom
<1>6. \A pc \in Stages : [NewCall EXCEPT !.pc = pc] \in Call /\ [NewCall EXCEPT !.pc = pc].pc = pc
  BY <1>4 DEF Call
<1> QED BY <1>2, <1>4, <1>5, <1>6

LEMMA CallUpdate ==
  ASSUME CallsOK, NEW r \in RequestIds
  PROVE  /\ calls[r] \in Call /\ HasRoom(calls[r])
         /\ \A pc : [calls EXCEPT ![r].pc = pc] = [calls EXCEPT ![r] = [calls[r] EXCEPT !.pc = pc]]
BY DEF CallsOK, Events

LEMMA BecomesKeeps ==
  ASSUME NEW r \in RequestIds, CallsOK, calls[r].pc # "recorded", NEW pc \in Stages, pc # "recorded",
         pc \in {"new", "sending", "streaming"} => calls[r].pc \in {"new", "sending", "streaming"},
         Becomes(r, pc)
  PROVE  CallsOK' /\ Quiet
<1> DEFINE x == [calls[r] EXCEPT !.pc = pc]
<1>1. calls' = [calls EXCEPT ![r] = x]
  BY CallUpdate DEF Becomes
<1>2. x \in Call /\ x.pc = pc
  BY CallUpdate DEF Call
<1>3. HasRoom(x)
  BY CallUpdate DEF Call, HasRoom
<1> HIDE DEF x
<1> QED BY <1>1, <1>2, <1>3, OneCall

LEMMA EndsKeeps ==
  ASSUME NEW r \in RequestIds, CallsOK, calls[r].pc \in {"sending", "streaming"}, NEW complete \in BOOLEAN,
         Ends(r, complete)
  PROVE  CallsOK' /\ Quiet
<1>0. calls[r] \in Call /\ HasRoom(calls[r]) /\ MaxSends \in Nat
  BY CallUpdate, LedgerAssumption
<1>1. PICK x : /\ calls' = [calls EXCEPT ![r] = x]
               /\ \/ x = [calls[r] EXCEPT !.pc = "ended", !.complete = complete, !.known = @ + 1]
                  \/ x = [calls[r] EXCEPT !.pc = "ended", !.complete = complete, !.unknown = @ + 1]
  <2>1. CASE calls' = [calls EXCEPT ![r].pc = "ended", ![r].complete = complete, ![r].known = @ + 1]
    <3>1. calls' = [calls EXCEPT ![r] = [calls[r] EXCEPT !.pc = "ended", !.complete = complete, !.known = @ + 1]]
      BY <2>1, <1>0 DEF CallsOK, Events, Call
    <3> QED BY <3>1
  <2>2. CASE calls' = [calls EXCEPT ![r].pc = "ended", ![r].complete = complete, ![r].unknown = @ + 1]
    <3>1. calls' = [calls EXCEPT ![r] = [calls[r] EXCEPT !.pc = "ended", !.complete = complete, !.unknown = @ + 1]]
      BY <2>2, <1>0 DEF CallsOK, Events, Call
    <3> QED BY <3>1
  <2> QED BY <2>1, <2>2 DEF Ends
<1>2. calls[r].known + 1 \in 0..MaxSends /\ calls[r].unknown + 1 \in 0..MaxSends
  BY <1>0 DEF HasRoom, Call
<1>3. x \in Call /\ x.pc = "ended"
  BY <1>0, <1>1, <1>2 DEF Call, Stages
<1>4. HasRoom(x)
  BY <1>3 DEF HasRoom
<1> QED BY <1>1, <1>3, <1>4, OneCall

LEMMA SendKeeps ==
  ASSUME NEW r \in RequestIds, CallsOK, Send(r)
  PROVE  CallsOK' /\ Quiet
<1>0. /\ calls[r] \in Call /\ HasRoom(calls[r]) /\ MaxSends \in Nat /\ calls[r].pc = "sending"
      /\ calls[r].known + calls[r].unknown < MaxSends - 1
  BY CallUpdate, LedgerAssumption DEF Send, At
<1>1. PICK x : /\ calls' = [calls EXCEPT ![r] = x]
               /\ \/ x = [calls[r] EXCEPT !.known = @ + 1]
                  \/ x = [calls[r] EXCEPT !.unknown = @ + 1]
  <2>1. CASE calls' = [calls EXCEPT ![r].known = @ + 1]
    <3>1. calls' = [calls EXCEPT ![r] = [calls[r] EXCEPT !.known = @ + 1]]
      BY <2>1, <1>0 DEF CallsOK, Events, Call
    <3> QED BY <3>1
  <2>2. CASE calls' = [calls EXCEPT ![r].unknown = @ + 1]
    <3>1. calls' = [calls EXCEPT ![r] = [calls[r] EXCEPT !.unknown = @ + 1]]
      BY <2>2, <1>0 DEF CallsOK, Events, Call
    <3> QED BY <3>1
  <2> QED BY <2>1, <2>2 DEF Send
<1>2. calls[r].known + 1 \in 0..MaxSends /\ calls[r].unknown + 1 \in 0..MaxSends
  BY <1>0 DEF Call
<1>3. x \in Call /\ x.pc = "sending"
  BY <1>0, <1>1, <1>2 DEF Call
<1>4. HasRoom(x)
  <2>1. x.known + x.unknown = calls[r].known + calls[r].unknown + 1
    BY <1>0, <1>1 DEF Call
  <2>2. calls[r].known \in Nat /\ calls[r].unknown \in Nat
    BY <1>0 DEF Call
  <2> QED BY <1>0, <2>1, <2>2 DEF HasRoom
<1> QED BY <1>1, <1>3, <1>4, <1>0, OneCall

LEMMA LeaveKeeps ==
  ASSUME NEW r \in RequestIds, CallsOK, Leave(r)
  PROVE  CallsOK' /\ Quiet
<1> DEFINE x == [calls[r] EXCEPT !.gone = TRUE]
<1>0. calls[r] \in Call /\ HasRoom(calls[r]) /\ calls[r].pc \in {"streaming", "ended"}
  BY CallUpdate DEF Leave
<1>1. calls' = [calls EXCEPT ![r] = x]
  BY <1>0 DEF Leave, CallsOK, Events
<1>2. x \in Call /\ x.pc = calls[r].pc
  BY <1>0 DEF Call
<1>3. HasRoom(x)
  BY <1>0 DEF Call, HasRoom
<1> HIDE DEF x
<1> QED BY <1>0, <1>1, <1>2, <1>3, OneCall

\* Steps of many requests at once, none of them recorded.
LEMMA ManyCalls ==
  ASSUME CallsOK, DOMAIN calls' = Events, \A e \in Events : calls'[e] = calls[e] \/
           (/\ calls[e].pc # "recorded" /\ calls'[e] \in Call /\ calls'[e].pc \in {"shown", "dead"}),
         calls' = [e \in Events |-> calls'[e]]
  PROVE  CallsOK' /\ Quiet
<1>1. calls' \in [Events -> Call]
  BY DEF CallsOK
<1>2. \A r \in RequestIds : HasRoom(calls'[r])
  BY DEF CallsOK, HasRoom, Events
<1>3. CallsOK'
  BY <1>1, <1>2 DEF CallsOK
<1>4. \A e \in BookedIn(calls) : calls'[e] = calls[e]
  BY DEF BookedIn
<1>5. BookedIn(calls') = BookedIn(calls)
  BY DEF BookedIn
<1> QED BY <1>3, <1>4, <1>5 DEF Quiet

LEMMA ShownKeeps ==
  ASSUME CallsOK, Shown
  PROVE  CallsOK' /\ Quiet
<1>1. /\ DOMAIN calls' = Events /\ calls' = [e \in Events |-> calls'[e]]
      /\ \A e \in Events : calls'[e] = IF calls[e].pc = "lost" THEN [calls[e] EXCEPT !.pc = "shown"] ELSE calls[e]
  BY DEF Shown, CallsOK
<1>2. ASSUME NEW e \in Events
      PROVE  calls'[e] = calls[e] \/
             (/\ calls[e].pc # "recorded" /\ calls'[e] \in Call /\ calls'[e].pc \in {"shown", "dead"})
  <2>1. calls[e] \in Call
    BY DEF CallsOK
  <2>2. [calls[e] EXCEPT !.pc = "shown"] \in Call /\ [calls[e] EXCEPT !.pc = "shown"].pc = "shown"
    BY <2>1 DEF Call, Stages
  <2> QED BY <1>1, <2>2
<1> QED BY <1>1, <1>2, ManyCalls

LEMMA DieKeeps ==
  ASSUME CallsOK, Die
  PROVE  CallsOK' /\ Quiet
<1>1. /\ DOMAIN calls' = Events /\ calls' = [e \in Events |-> calls'[e]]
      /\ \A e \in Events : calls'[e] = IF calls[e].pc \in {"sending", "streaming", "ended", "lost"}
                                       THEN [NewCall EXCEPT !.pc = "dead"] ELSE calls[e]
  BY DEF Die, CallsOK
<1>2. ASSUME NEW e \in Events
      PROVE  calls'[e] = calls[e] \/
             (/\ calls[e].pc # "recorded" /\ calls'[e] \in Call /\ calls'[e].pc \in {"shown", "dead"})
  <2>1. [NewCall EXCEPT !.pc = "dead"] \in Call /\ [NewCall EXCEPT !.pc = "dead"].pc = "dead"
    BY NewCallIs DEF Stages
  <2> QED BY <1>1, <2>1
<1> QED BY <1>1, <1>2, ManyCalls

\* What the invariant says, in the terms of the lemmas.
LEMMA InvIs ==
  LedgerInv <=>
    /\ CallsOK /\ IsFiniteSet(BookedIn(calls)) /\ raw \subseteq BookedIn(calls)
    /\ now \in Instants /\ days \in [Days -> Totals] /\ sums \in [Readers -> Summary]
    /\ latch \in BOOLEAN /\ ready \in BOOLEAN /\ writable \in BOOLEAN /\ faults \in 0..MaxFaults
    /\ AddsUp(calls, raw, days, DayBack(DailyDays))
    /\ \A p \in Readers : SummaryIs(calls, raw, DayBack(DailyDays), sums[p])
BY DEF LedgerInv, LedgerTypeOK, CallsOK, BookedIn, Events

\* The first day that is kept, now and after the step.
LEMMA KeptLater ==
  ASSUME now \in Instants, now' \in Instants, now <= now'
  PROVE  DayBack(DailyDays) \in Nat /\ DayBack(DailyDays)' \in Nat /\ DayBack(DailyDays) <= DayBack(DailyDays)'
<1>1. now \in Nat /\ now' \in Nat /\ DailyDays \in Nat
  BY LedgerAssumption DEF Instants
<1> QED BY <1>1, DayBackIs DEF DayBack

LEMMA QuietStep ==
  ASSUME LedgerInv, CallsOK', Quiet, UNCHANGED Ledger, now' \in Instants, now <= now',
         latch' \in BOOLEAN, ready' \in BOOLEAN, writable' \in BOOLEAN, faults' \in 0..MaxFaults
  PROVE  LedgerInv'
<1>1. /\ CallsOK /\ IsFiniteSet(BookedIn(calls)) /\ raw \subseteq BookedIn(calls)
      /\ now \in Instants /\ days \in [Days -> Totals] /\ sums \in [Readers -> Summary]
      /\ AddsUp(calls, raw, days, DayBack(DailyDays))
      /\ \A p \in Readers : SummaryIs(calls, raw, DayBack(DailyDays), sums[p])
  BY InvIs
<1>2. raw' = raw /\ days' = days /\ sums' = sums
  BY DEF Ledger
<1>3. calls \in [Events -> Call] /\ calls' \in [Events -> Call]
  BY <1>1 DEF CallsOK
<1>4. BookedIn(calls') = BookedIn(calls) /\ \A e \in BookedIn(calls) : calls'[e] = calls[e]
  BY DEF Quiet
<1>5. DayBack(DailyDays) \in Nat /\ DayBack(DailyDays)' \in Nat /\ DayBack(DailyDays) <= DayBack(DailyDays)'
  BY <1>1, KeptLater
<1>6. AddsUp(calls', raw, days, DayBack(DailyDays)')
  BY <1>1, <1>4, <1>5, DaysStay
<1>7. ASSUME NEW p \in Readers PROVE SummaryIs(calls', raw, DayBack(DailyDays)', sums[p])
  <2>1. sums[p] \in Summary /\ SummaryIs(calls, raw, DayBack(DailyDays), sums[p])
    BY <1>1
  <2>2. raw \cap BookedIn(calls) \subseteq raw /\ BookedIn(calls) \subseteq BookedIn(calls')
    BY <1>4
  <2> QED BY <1>1, <1>3, <1>4, <1>5, <2>1, <2>2, SummaryStays
<1>8. /\ CallsOK' /\ IsFiniteSet(BookedIn(calls)') /\ raw' \subseteq BookedIn(calls)'
      /\ now' \in Instants /\ days' \in [Days -> Totals] /\ sums' \in [Readers -> Summary]
      /\ latch' \in BOOLEAN /\ ready' \in BOOLEAN /\ writable' \in BOOLEAN /\ faults' \in 0..MaxFaults
  BY <1>1, <1>2, <1>4
<1>9. AddsUp(calls, raw, days, DayBack(DailyDays))'
  BY <1>2, <1>6
<1>10. (\A p \in Readers : SummaryIs(calls, raw, DayBack(DailyDays), sums[p]))'
  BY <1>2, <1>7
<1> QED BY <1>8, <1>9, <1>10 DEF LedgerInv, LedgerTypeOK, CallsOK, BookedIn, Events

LEMMA RecordStep ==
  ASSUME LedgerInv, NEW r \in RequestIds, RecordUsage(r)
  PROVE  LedgerInv'
<1>1. /\ CallsOK /\ IsFiniteSet(BookedIn(calls)) /\ raw \subseteq BookedIn(calls)
      /\ now \in Instants /\ days \in [Days -> Totals] /\ sums \in [Readers -> Summary]
      /\ latch \in BOOLEAN /\ ready \in BOOLEAN /\ writable \in BOOLEAN /\ faults \in 0..MaxFaults
      /\ AddsUp(calls, raw, days, DayBack(DailyDays))
      /\ \A p \in Readers : SummaryIs(calls, raw, DayBack(DailyDays), sums[p])
  BY InvIs
<1>2. /\ calls[r].pc = "ended" /\ r \in Events /\ r \notin BookedIn(calls) /\ calls[r] \in Call
      /\ UNCHANGED <<now, days, sums, ready, writable, faults>>
  BY <1>1 DEF RecordUsage, At, CallsOK, BookedIn, Events
<1>3. CASE /\ calls' = [calls EXCEPT ![r].pc = "recorded", ![r].at = now, ![r].gone = FALSE]
           /\ raw' = raw \cup {r}
           /\ UNCHANGED latch
  <2> DEFINE x == [calls[r] EXCEPT !.pc = "recorded", !.at = now, !.gone = FALSE]
  <2>1. calls' = [calls EXCEPT ![r] = x]
    BY <1>1, <1>2, <1>3 DEF CallsOK
  <2>2. x \in Call /\ x.pc = "recorded"
    BY <1>1, <1>2 DEF Call, Stages
  <2> HIDE DEF x
  <2>3. calls' \in [Events -> Call] /\ \A e \in Events : calls'[e] = IF e = r THEN x ELSE calls[e]
    BY <1>1, <1>2, <2>1, <2>2 DEF CallsOK
  <2>4. /\ BookedIn(calls') = BookedIn(calls) \cup {r}
        /\ \A e \in BookedIn(calls) : calls'[e] = calls[e]
    BY <1>2, <2>2, <2>3 DEF BookedIn
  <2>5. CallsOK'
    BY <1>1, <2>2, <2>3 DEF CallsOK, HasRoom, Events
  <2>6. IsFiniteSet(BookedIn(calls'))
    BY <1>1, <2>4, FS_AddElement
  <2>7. DayBack(DailyDays) \in Nat /\ DayBack(DailyDays)' = DayBack(DailyDays)
    <3>1. now' = now /\ now \in Nat
      BY <1>1, <1>2, LedgerAssumption DEF Instants
    <3>2. now <= now'
      BY <3>1
    <3> QED BY <1>1, <3>1, <3>2, KeptLater DEF DayBack
  <2>8. AddsUp(calls', raw \cup {r}, days, DayBack(DailyDays))
    <3>1. calls \in [Events -> Call] /\ raw \in SUBSET BookedIn(calls) /\ days \in [Days -> Totals]
      BY <1>1 DEF CallsOK
    <3> QED BY <1>1, <1>2, <2>3, <2>4, <2>6, <3>1, DaysRecord
  <2>9. ASSUME NEW p \in Readers PROVE SummaryIs(calls', raw \cup {r}, DayBack(DailyDays), sums[p])
    <3>1. sums[p] \in Summary /\ SummaryIs(calls, raw, DayBack(DailyDays), sums[p])
      BY <1>1
    <3>2. calls \in [Events -> Call] /\ calls' \in [Events -> Call]
      BY <1>1, <2>3 DEF CallsOK
    <3>3. (raw \cup {r}) \cap BookedIn(calls) \subseteq raw /\ BookedIn(calls) \subseteq BookedIn(calls')
      BY <1>2, <2>4
    <3>4. DayBack(DailyDays) <= DayBack(DailyDays)
      BY <2>7
    <3> QED BY <1>1, <2>4, <2>7, <3>1, <3>2, <3>3, <3>4, SummaryStays
  <2>10. /\ CallsOK' /\ IsFiniteSet(BookedIn(calls)') /\ raw' \subseteq BookedIn(calls)'
         /\ now' \in Instants /\ days' \in [Days -> Totals] /\ sums' \in [Readers -> Summary]
         /\ latch' \in BOOLEAN /\ ready' \in BOOLEAN /\ writable' \in BOOLEAN /\ faults' \in 0..MaxFaults
    BY <1>1, <1>2, <1>3, <2>4, <2>5, <2>6
  <2>11. AddsUp(calls, raw, days, DayBack(DailyDays))'
    BY <1>2, <1>3, <2>7, <2>8
  <2>12. (\A p \in Readers : SummaryIs(calls, raw, DayBack(DailyDays), sums[p]))'
    BY <1>2, <1>3, <2>7, <2>9
  <2> QED BY <2>10, <2>11, <2>12 DEF LedgerInv, LedgerTypeOK, CallsOK, BookedIn, Events
<1>4. CASE /\ calls' = [calls EXCEPT ![r] = [NewCall EXCEPT !.pc = "lost"]]
           /\ latch' = TRUE
           /\ UNCHANGED raw
  <2> DEFINE x == [NewCall EXCEPT !.pc = "lost"]
  <2>1. x \in Call /\ x.pc = "lost"
    BY NewCallIs DEF Stages
  <2>2. calls' = [calls EXCEPT ![r] = x]
    BY <1>4
  <2> HIDE DEF x
  <2>3. HasRoom(x)
    BY <2>1 DEF HasRoom
  <2>4. CallsOK' /\ Quiet
    BY <1>1, <1>2, <2>1, <2>2, <2>3, OneCall
  <2>5. now' \in Instants /\ now <= now'
    BY <1>1, <1>2, LedgerAssumption DEF Instants
  <2> QED BY <1>1, <1>2, <1>4, <2>4, <2>5, QuietStep DEF Ledger
<1> QED BY <1>3, <1>4 DEF RecordUsage

LEMMA PruneStep ==
  ASSUME LedgerInv, Prune
  PROVE  LedgerInv'
<1>1. /\ CallsOK /\ IsFiniteSet(BookedIn(calls)) /\ raw \subseteq BookedIn(calls)
      /\ now \in Instants /\ days \in [Days -> Totals] /\ sums \in [Readers -> Summary]
      /\ latch \in BOOLEAN /\ ready \in BOOLEAN /\ writable \in BOOLEAN /\ faults \in 0..MaxFaults
      /\ AddsUp(calls, raw, days, DayBack(DailyDays))
      /\ \A p \in Readers : SummaryIs(calls, raw, DayBack(DailyDays), sums[p])
  BY InvIs
<1>2. PICK old : /\ old = raw \ Since(Back(RawDays)) /\ raw' = raw \ old
                 /\ days' = [d \in Days |-> IF d < DayBack(DailyDays) THEN Zero ELSE Rolled(old)[d]]
                 /\ UNCHANGED <<now, calls, sums, Health, faults>>
  BY DEF Prune
<1>3. old \in SUBSET raw /\ old \in SUBSET BookedIn(calls) /\ calls \in [Events -> Call]
  BY <1>1, <1>2 DEF CallsOK
<1>4. now \in Nat /\ now' = now /\ calls' = calls /\ sums' = sums
  BY <1>1, <1>2, LedgerAssumption DEF Instants
<1>5. DayBack(DailyDays) \in Nat /\ DayBack(DailyDays)' = DayBack(DailyDays)
  <2>1. now <= now'
    BY <1>4
  <2> QED BY <1>1, <1>4, <2>1, KeptLater DEF DayBack
<1>6. ASSUME NEW d \in Days
      PROVE  /\ days'[d] \in Totals
             /\ d >= DayBack(DailyDays) =>
                  days'[d] = Plus(days[d], TotalIn(calls, DayIn(calls, old, d)))
  <2>1. Rolled(old)[d] = Plus(days[d], TotalIn(calls, DayIn(calls, old, d)))
    BY TotalIsIn DEF Rolled, DayIn
  <2>2. TotalIn(calls, DayIn(calls, old, d)) \in Totals /\ days[d] \in Totals
    BY <1>1, <1>3, DayType
  <2>3. Rolled(old)[d] \in Totals
    BY <2>1, <2>2, PlusIs
  <2>4. Zero \in Totals
    BY DEF Zero, Totals
  <2>5. days'[d] = IF d < DayBack(DailyDays) THEN Zero ELSE Rolled(old)[d]
    BY <1>2
  <2>6. d >= DayBack(DailyDays) => ~(d < DayBack(DailyDays))
    <3>1. d \in Nat
      BY DEF Days
    <3> QED BY <1>5, <3>1
  <2> QED BY <2>1, <2>3, <2>4, <2>5, <2>6
<1>7. days' \in [Days -> Totals]
  BY <1>2, <1>6
<1>8. AddsUp(calls, raw \ old, days', DayBack(DailyDays))
  <2>1. \A d \in Days : d >= DayBack(DailyDays) =>
          days'[d] = Plus(days[d], TotalIn(calls, DayIn(calls, old, d)))
    BY <1>6
  <2>2. raw \in SUBSET BookedIn(calls)
    BY <1>1
  <2> QED BY <1>1, <1>3, <2>1, <2>2, DaysRoll
<1>9. ASSUME NEW p \in Readers PROVE SummaryIs(calls, raw \ old, DayBack(DailyDays), sums[p])
  <2>1. sums[p] \in Summary /\ SummaryIs(calls, raw, DayBack(DailyDays), sums[p])
    BY <1>1
  <2>2. (raw \ old) \cap BookedIn(calls) \subseteq raw /\ DayBack(DailyDays) <= DayBack(DailyDays)
    BY <1>5
  <2> QED BY <1>1, <1>3, <1>5, <2>1, <2>2, SummaryStays
<1>10. /\ CallsOK' /\ IsFiniteSet(BookedIn(calls)') /\ raw' \subseteq BookedIn(calls)'
       /\ now' \in Instants /\ days' \in [Days -> Totals] /\ sums' \in [Readers -> Summary]
       /\ latch' \in BOOLEAN /\ ready' \in BOOLEAN /\ writable' \in BOOLEAN /\ faults' \in 0..MaxFaults
  <2>1. CallsOK'
    BY <1>1, <1>4 DEF CallsOK
  <2>2. latch' = latch /\ ready' = ready /\ writable' = writable /\ faults' = faults
    BY <1>2 DEF Health
  <2> QED BY <1>1, <1>2, <1>4, <1>7, <2>1, <2>2
<1>11. AddsUp(calls, raw, days, DayBack(DailyDays))'
  BY <1>2, <1>4, <1>5, <1>8
<1>12. (\A p \in Readers : SummaryIs(calls, raw, DayBack(DailyDays), sums[p]))'
  BY <1>2, <1>4, <1>5, <1>9
<1> QED BY <1>10, <1>11, <1>12 DEF LedgerInv, LedgerTypeOK, CallsOK, BookedIn, Events

\* A step of a summary: the reader has read some more.
LEMMA ReaderStep ==
  ASSUME LedgerInv, NEW p \in Readers, NEW s \in Summary,
         SummaryIs(calls, raw, DayBack(DailyDays), s),
         sums' = [sums EXCEPT ![p] = s], UNCHANGED <<now, calls, raw, days, Health, faults>>
  PROVE  LedgerInv'
<1>1. /\ CallsOK /\ IsFiniteSet(BookedIn(calls)) /\ raw \subseteq BookedIn(calls)
      /\ now \in Instants /\ days \in [Days -> Totals] /\ sums \in [Readers -> Summary]
      /\ latch \in BOOLEAN /\ ready \in BOOLEAN /\ writable \in BOOLEAN /\ faults \in 0..MaxFaults
      /\ AddsUp(calls, raw, days, DayBack(DailyDays))
      /\ \A q \in Readers : SummaryIs(calls, raw, DayBack(DailyDays), sums[q])
  BY InvIs
<1>2. /\ now' = now /\ calls' = calls /\ raw' = raw /\ days' = days
      /\ latch' = latch /\ ready' = ready /\ writable' = writable /\ faults' = faults
      /\ DayBack(DailyDays)' = DayBack(DailyDays)
  BY DEF Health, DayBack
<1>3. sums' \in [Readers -> Summary] /\ \A q \in Readers : sums'[q] = IF q = p THEN s ELSE sums[q]
  BY <1>1
<1>4. /\ CallsOK' /\ IsFiniteSet(BookedIn(calls)') /\ raw' \subseteq BookedIn(calls)'
      /\ now' \in Instants /\ days' \in [Days -> Totals] /\ sums' \in [Readers -> Summary]
      /\ latch' \in BOOLEAN /\ ready' \in BOOLEAN /\ writable' \in BOOLEAN /\ faults' \in 0..MaxFaults
  <2>1. CallsOK'
    BY <1>1, <1>2 DEF CallsOK
  <2> QED BY <1>1, <1>2, <1>3, <2>1
<1>5. AddsUp(calls, raw, days, DayBack(DailyDays))'
  BY <1>1, <1>2
<1>6. (\A q \in Readers : SummaryIs(calls, raw, DayBack(DailyDays), sums[q]))'
  <2>1. \A q \in Readers : SummaryIs(calls, raw, DayBack(DailyDays), sums'[q])
    BY <1>1, <1>3
  <2> QED BY <1>2, <2>1
<1> QED BY <1>4, <1>5, <1>6 DEF LedgerInv, LedgerTypeOK, CallsOK, BookedIn, Events

LEMMA PartsOf ==
  ASSUME NEW t \in Totals
  PROVE  /\ OfCalls(t) \in Totals /\ OfAttempts(t) \in Totals
         /\ \A f \in OfRequests : OfCalls(t)[f] = t[f] /\ OfAttempts(t)[f] = 0
         /\ \A f \in OfSends : OfAttempts(t)[f] = t[f] /\ OfCalls(t)[f] = 0
BY DEF Totals, OfCalls, OfAttempts, OfRequests, OfSends

LEMMA RowsAre ==
  ASSUME LedgerInv, NEW D \in SUBSET Days
  PROVE  /\ TotalOfDays(D) \in Totals
         /\ \A f \in Fields : TotalOfDays(D)[f] = SumOf([d \in D |-> days[d][f]], D)
<1>1. days \in [Days -> Totals]
  BY InvIs
<1>2. IsFiniteSet(D)
  <2>1. Day(MaxTime) \in Nat
    BY DayIsMonotone, LedgerAssumption
  <2>2. IsFiniteSet(Days)
    BY <2>1, FS_Interval DEF Days
  <2> QED BY <2>2, FS_Subset
<1>3. DOMAIN Zero = Fields
  BY DEF Zero, Fields
<1>4. TotalOfDays(D) = [f \in Fields |-> SumOf([d \in D |-> days[d][f]], D)]
  BY <1>3 DEF TotalOfDays
<1>5. ASSUME NEW f \in Fields PROVE SumOf([d \in D |-> days[d][f]], D) \in Nat
  <2> DEFINE w == [d \in D |-> days[d][f]]
  <2>1. \A d \in D : w[d] \in Nat
    BY <1>1 DEF Totals, Fields
  <2> HIDE DEF w
  <2>2. SumOf(w, D) \in Nat
    BY <1>2, <2>1, UnitsAreFinite
  <2> QED BY <2>2 DEF w
<1>6. \A f \in Fields : TotalOfDays(D)[f] \in Nat
  BY <1>4, <1>5
<1>7. TotalOfDays(D) = [calls |-> TotalOfDays(D).calls, complete |-> TotalOfDays(D).complete,
                        known |-> TotalOfDays(D).known, unknown |-> TotalOfDays(D).unknown]
  BY <1>4 DEF Fields
<1>8. /\ TotalOfDays(D).calls \in Nat /\ TotalOfDays(D).complete \in Nat
      /\ TotalOfDays(D).known \in Nat /\ TotalOfDays(D).unknown \in Nat
  BY <1>6 DEF Fields
<1>9. TotalOfDays(D) \in Totals
  BY <1>7, <1>8 DEF Totals
<1> QED BY <1>4, <1>9

LEMMA SinceIs ==
  ASSUME LedgerInv, NEW t
  PROVE  /\ Since(t) \in SUBSET raw /\ Since(t) \in SUBSET Events /\ IsFiniteSet(Since(t))
         /\ Total(Since(t)) \in Totals
         /\ \A f \in Fields : Total(Since(t))[f] = TotalIn(calls, Since(t))[f]
<1>1. /\ calls \in [Events -> Call] /\ IsFiniteSet(BookedIn(calls)) /\ raw \subseteq BookedIn(calls)
  BY InvIs DEF CallsOK
<1>2. Since(t) \in SUBSET raw
  BY DEF Since
<1>3. Since(t) \in SUBSET BookedIn(calls) /\ BookedIn(calls) \in SUBSET Events
  BY <1>1, <1>2 DEF BookedIn
<1>4. IsFiniteSet(Since(t)) /\ Since(t) \in SUBSET Events
  BY <1>1, <1>3, FS_Subset
<1>5. Total(Since(t)) = TotalIn(calls, Since(t))
  BY TotalIsIn
<1>6. TotalIn(calls, Since(t)) \in Totals
  BY <1>1, <1>4, TotalType
<1> QED BY <1>2, <1>4, <1>5, <1>6

LEMMA BeginStep ==
  ASSUME LedgerInv, NEW p \in Readers, BeginSummary(p)
  PROVE  LedgerInv'
<1>1. PICK n \in 1..DailyDays :
         sums' = [sums EXCEPT ![p] = [pc |-> "events", since |-> Back(n),
                    got |-> OfCalls(Total(Since(Back(n)))),
                    from |-> {e \in Booked : calls[e].at >= Back(n)}]]
  BY DEF BeginSummary
<1>2. PICK s : s = [pc |-> "events", since |-> Back(n),
                    got |-> OfCalls(Total(Since(Back(n)))),
                    from |-> {e \in Booked : calls[e].at >= Back(n)}]
  OBVIOUS
<1>3. /\ calls \in [Events -> Call] /\ raw \subseteq BookedIn(calls) /\ now \in Instants
      /\ Booked = BookedIn(calls)
  BY InvIs DEF CallsOK, Booked, BookedIn
<1>4. /\ s.pc = "events" /\ s.since = Back(n) /\ s.got = OfCalls(Total(Since(Back(n))))
      /\ s.from = {e \in BookedIn(calls) : calls[e].at >= Back(n)}
  BY <1>2, <1>3
<1>5. Back(n) \in Instants
  <2>1. now \in Nat /\ MaxTime \in Nat /\ now <= MaxTime /\ n \in Nat /\ n >= 1
    BY <1>3, LedgerAssumption DEF Instants
  <2> QED BY <2>1 DEF Back, Instants
<1>6. s.from \subseteq BookedIn(calls) /\ \A e \in s.from : calls[e].at >= s.since
  BY <1>4
<1>7. s.got \in Totals
  BY <1>4, SinceIs, PartsOf
<1>8. s \in Summary
  <2>1. s.from \in SUBSET (RequestIds \cup Old)
    BY <1>6 DEF BookedIn, Events
  <2>2. s = [pc |-> s.pc, since |-> s.since, got |-> s.got, from |-> s.from]
    BY <1>2
  <2> QED BY <1>4, <1>5, <1>7, <2>1, <2>2 DEF Summary
<1>9. ReadRaw(calls, raw, s, OfRequests)
  <2>1. Since(Back(n)) \in SUBSET s.from /\ s.from \cap raw \subseteq Since(Back(n))
    BY <1>3, <1>4 DEF Since
  <2>2. AtLeast(calls, s.got, Since(Back(n)), OfRequests)
    <3>1. SUFFICES ASSUME NEW f \in OfRequests
                   PROVE  TotalIn(calls, Since(Back(n)))[f] <= s.got[f]
      BY DEF AtLeast
    <3>2. f \in Fields
      BY DEF OfRequests, Fields
    <3>3. s.got[f] = TotalIn(calls, Since(Back(n)))[f]
      BY <1>4, <3>2, SinceIs, PartsOf
    <3>4. s.got[f] \in Nat
      BY <1>7, <3>2 DEF Totals, Fields
    <3> QED BY <3>3, <3>4
  <2> QED BY <2>1, <2>2 DEF ReadRaw
<1>10. SummaryIs(calls, raw, DayBack(DailyDays), s)
  BY <1>4, <1>6, <1>9 DEF SummaryIs
<1>11. sums' = [sums EXCEPT ![p] = s] /\ UNCHANGED <<now, calls, raw, days, Health, faults>>
  BY <1>1, <1>2 DEF BeginSummary
<1> QED BY <1>8, <1>10, <1>11, ReaderStep

\* One more part has been read: what was found before stays, the part is added.
LEMMA ReadsIs ==
  ASSUME LedgerInv, NEW p \in Readers, NEW pc, NEW next \in {"attempts", "costs", "done"}, NEW got \in Totals,
         Reads(p, pc, next, got)
  PROVE  \E s \in Summary :
           /\ sums[p] \in Summary /\ SummaryIs(calls, raw, DayBack(DailyDays), sums[p]) /\ sums[p].pc = pc
           /\ s.pc = next /\ s.since = sums[p].since /\ s.from = sums[p].from
           /\ \A f \in Fields : s.got[f] = sums[p].got[f] + got[f] /\ sums[p].got[f] \in Nat /\ got[f] \in Nat
           /\ sums' = [sums EXCEPT ![p] = s]
           /\ UNCHANGED <<now, calls, raw, days, Health, faults>>
<1> DEFINE s == [sums[p] EXCEPT !.pc = next, !.got = Plus(sums[p].got, got)]
<1>1. sums \in [Readers -> Summary] /\ SummaryIs(calls, raw, DayBack(DailyDays), sums[p])
  BY InvIs
<1>2. sums[p] \in Summary /\ sums[p].got \in Totals
  BY <1>1 DEF Summary
<1>3. Plus(sums[p].got, got) \in Totals
  BY <1>2, PlusIs
<1>4. s \in Summary
  BY <1>2, <1>3 DEF Summary
<1>5. /\ s.pc = next /\ s.since = sums[p].since /\ s.from = sums[p].from
      /\ s.got = Plus(sums[p].got, got)
  BY <1>2 DEF Summary
<1>6. sums' = [sums EXCEPT ![p] = s] /\ sums[p].pc = pc
  BY <1>1, <1>2 DEF Reads
<1>7. \A f \in Fields : s.got[f] = sums[p].got[f] + got[f] /\ sums[p].got[f] \in Nat /\ got[f] \in Nat
  BY <1>2, <1>5, PlusAt
<1>8. UNCHANGED <<now, calls, raw, days, Health, faults>>
  BY DEF Reads
<1> HIDE DEF s
<1> QED BY <1>1, <1>2, <1>4, <1>5, <1>6, <1>7, <1>8

\* What has been found is not lost by finding more.
LEMMA StillFound ==
  ASSUME NEW c \in [Events -> Call], IsFiniteSet(BookedIn(c)), NEW S \in SUBSET BookedIn(c), NEW F \in SUBSET Fields,
         NEW a, NEW b, \A f \in F : a[f] \in Nat /\ b[f] \in Nat /\ a[f] <= b[f],
         AtLeast(c, a, S, F)
  PROVE  AtLeast(c, b, S, F)
<1>1. SUFFICES ASSUME NEW f \in F PROVE TotalIn(c, S)[f] <= b[f]
  BY DEF AtLeast
<1>2. TotalIn(c, S)[f] <= a[f]
  BY DEF AtLeast
<1>3. S \in SUBSET Events /\ IsFiniteSet(S)
  BY FS_Subset DEF BookedIn
<1>4. TotalIn(c, S)[f] \in Nat
  BY <1>3, TotalCounts
<1> QED BY <1>2, <1>4

\* The days have been read: with them a part of the figures is complete.
LEMMA DaysRead ==
  ASSUME LedgerInv, NEW p \in Readers, NEW s \in Summary, NEW F \in SUBSET Fields,
         SummaryIs(calls, raw, DayBack(DailyDays), sums[p]), sums[p].pc # "idle",
         ReadRaw(calls, raw, sums[p], F), s.from = sums[p].from,
         \A f \in F : s.got[f] = sums[p].got[f] + TotalOfDays(FromDay(p))[f]
  PROVE  AtLeast(calls, s.got, StillKept(calls, DayBack(DailyDays), s), F)
<1> DEFINE D == FromDay(p)
<1>1. /\ calls \in [Events -> Call] /\ IsFiniteSet(BookedIn(calls)) /\ raw \in SUBSET BookedIn(calls)
      /\ days \in [Days -> Totals] /\ AddsUp(calls, raw, days, DayBack(DailyDays))
      /\ sums[p] \in Summary /\ now \in Instants
  BY InvIs DEF CallsOK
<1>2. sums[p].from \subseteq BookedIn(calls) /\ \A e \in sums[p].from : calls[e].at >= sums[p].since
  BY DEF SummaryIs
<1>3. D = {d \in Days : d >= Day(sums[p].since)} /\ D \in SUBSET Days
  BY DEF FromDay
<1>4. \A f \in F : s.got[f] = sums[p].got[f] + SumOf([d \in D |-> days[d][f]], D)
  <2> HIDE DEF D
  <2>1. \A f \in Fields : TotalOfDays(D)[f] = SumOf([d \in D |-> days[d][f]], D)
    BY <1>3, RowsAre
  <2>2. \A f \in F : s.got[f] = sums[p].got[f] + TotalOfDays(D)[f]
    BY DEF D
  <2> QED BY <2>1, <2>2
<1>5. DayBack(DailyDays) \in Nat
  <2>1. now \in Nat /\ DailyDays \in Nat
    BY <1>1, LedgerAssumption DEF Instants
  <2>2. now <= now
    BY <2>1
  <2> QED BY <2>1, <2>2, DayBackIs DEF DayBack
<1>6. s.got \in Totals
  BY DEF Summary
<1> HIDE DEF D
<1>7. AtLeast(calls, s.got, StillKept(calls, DayBack(DailyDays), sums[p]), F)
  BY <1>1, <1>2, <1>3, <1>4, <1>5, <1>6, ReadComplete
<1> QED BY <1>7 DEF StillKept

LEMMA ReadDaysStep ==
  ASSUME LedgerInv, NEW p \in Readers, ReadDays(p)
  PROVE  LedgerInv'
<1> DEFINE part == OfCalls(TotalOfDays(FromDay(p)))
<1>1. FromDay(p) \in SUBSET Days
  BY DEF FromDay
<1>2. part \in Totals /\ \A f \in OfRequests : part[f] = TotalOfDays(FromDay(p))[f]
  BY <1>1, RowsAre, PartsOf
<1>3. Reads(p, "events", "attempts", part)
  BY DEF ReadDays
<1> HIDE DEF part
<1>4. PICK s \in Summary :
        /\ sums[p] \in Summary /\ SummaryIs(calls, raw, DayBack(DailyDays), sums[p]) /\ sums[p].pc = "events"
        /\ s.pc = "attempts" /\ s.since = sums[p].since /\ s.from = sums[p].from
        /\ \A f \in Fields : s.got[f] = sums[p].got[f] + part[f] /\ sums[p].got[f] \in Nat /\ part[f] \in Nat
        /\ sums' = [sums EXCEPT ![p] = s]
        /\ UNCHANGED <<now, calls, raw, days, Health, faults>>
  BY <1>2, <1>3, ReadsIs
<1>5. OfRequests \in SUBSET Fields
  BY DEF OfRequests, Fields
<1>6. /\ ReadRaw(calls, raw, sums[p], OfRequests) /\ sums[p].pc # "idle"
      /\ s.from \subseteq BookedIn(calls) /\ \A e \in s.from : calls[e].at >= s.since
  BY <1>4 DEF SummaryIs
<1>7. \A f \in OfRequests : s.got[f] = sums[p].got[f] + TotalOfDays(FromDay(p))[f]
  BY <1>2, <1>4, <1>5
<1>8. AtLeast(calls, s.got, StillKept(calls, DayBack(DailyDays), s), OfRequests)
  BY <1>4, <1>5, <1>6, <1>7, DaysRead
<1>9. SummaryIs(calls, raw, DayBack(DailyDays), s)
  BY <1>4, <1>6, <1>8 DEF SummaryIs
<1> QED BY <1>4, <1>9, ReaderStep

\* The first read of the attempts, or the last of the days, leaves the figures of
\* the requests as they were.
LEMMA RequestsStay ==
  ASSUME LedgerInv, NEW p \in Readers, NEW s \in Summary,
         SummaryIs(calls, raw, DayBack(DailyDays), sums[p]), sums[p].pc \in {"attempts", "costs"},
         s.from = sums[p].from, \A f \in OfRequests : s.got[f] = sums[p].got[f]
  PROVE  AtLeast(calls, s.got, StillKept(calls, DayBack(DailyDays), s), OfRequests)
<1>1. AtLeast(calls, sums[p].got, StillKept(calls, DayBack(DailyDays), sums[p]), OfRequests)
  BY DEF SummaryIs
<1> QED BY <1>1 DEF AtLeast, StillKept

LEMMA ReadAttemptsStep ==
  ASSUME LedgerInv, NEW p \in Readers, ReadAttempts(p)
  PROVE  LedgerInv'
<1> DEFINE S == Since(sums[p].since)
<1> DEFINE part == OfAttempts(Total(S))
<1>1. /\ S \in SUBSET raw /\ S \in SUBSET Events /\ IsFiniteSet(S) /\ Total(S) \in Totals
      /\ \A f \in Fields : Total(S)[f] = TotalIn(calls, S)[f]
  BY SinceIs
<1>2. /\ part \in Totals
      /\ \A f \in OfRequests : part[f] = 0
      /\ \A f \in OfSends : part[f] = Total(S)[f]
  BY <1>1, PartsOf
<1>3. Reads(p, "attempts", "costs", part)
  BY DEF ReadAttempts
<1> HIDE DEF part
<1>4. PICK s \in Summary :
        /\ sums[p] \in Summary /\ SummaryIs(calls, raw, DayBack(DailyDays), sums[p]) /\ sums[p].pc = "attempts"
        /\ s.pc = "costs" /\ s.since = sums[p].since /\ s.from = sums[p].from
        /\ \A f \in Fields : s.got[f] = sums[p].got[f] + part[f] /\ sums[p].got[f] \in Nat /\ part[f] \in Nat
        /\ sums' = [sums EXCEPT ![p] = s]
        /\ UNCHANGED <<now, calls, raw, days, Health, faults>>
  BY <1>2, <1>3, ReadsIs
<1>5. OfRequests \in SUBSET Fields /\ OfSends \in SUBSET Fields
  BY DEF OfRequests, OfSends, Fields
<1>6. s.from \subseteq BookedIn(calls) /\ \A e \in s.from : calls[e].at >= s.since
  BY <1>4 DEF SummaryIs
<1>7. AtLeast(calls, s.got, StillKept(calls, DayBack(DailyDays), s), OfRequests)
  <2>1. \A f \in OfRequests : s.got[f] = sums[p].got[f]
    BY <1>2, <1>4, <1>5
  <2> QED BY <1>4, <2>1, RequestsStay
<1>8. ReadRaw(calls, raw, s, OfSends)
  <2> DEFINE Q == s.from \cap S
  <2>1. Q \in SUBSET s.from /\ s.from \cap raw \subseteq Q
    BY <1>4, <1>6 DEF Since
  <2>2. AtLeast(calls, s.got, Q, OfSends)
    <3>1. SUFFICES ASSUME NEW f \in OfSends PROVE TotalIn(calls, Q)[f] <= s.got[f]
      BY DEF AtLeast
    <3>2. calls \in [Events -> Call] /\ f \in Fields
      BY <1>5, InvIs DEF CallsOK
    <3>3. Q \in SUBSET S
      OBVIOUS
    <3>4. TotalIn(calls, Q)[f] <= TotalIn(calls, S)[f]
      <4> HIDE DEF Q, S
      <4> QED BY <1>1, <3>2, <3>3, TotalGrows
    <3>5. TotalIn(calls, Q)[f] \in Nat
      <4>1. IsFiniteSet(Q) /\ Q \in SUBSET Events
        <5> HIDE DEF Q, S
        <5> QED BY <1>1, <3>3, FS_Subset
      <4> QED BY <3>2, <4>1, TotalCounts
    <3>6. s.got[f] = sums[p].got[f] + TotalIn(calls, S)[f] /\ sums[p].got[f] \in Nat
          /\ TotalIn(calls, S)[f] \in Nat
      <4>1. part[f] = TotalIn(calls, S)[f]
        BY <1>1, <1>2, <3>2
      <4> QED BY <1>4, <3>2, <4>1
    <3> HIDE DEF Q, S
    <3> QED BY <3>4, <3>5, <3>6
  <2> QED BY <2>1, <2>2 DEF ReadRaw
<1>9. SummaryIs(calls, raw, DayBack(DailyDays), s)
  BY <1>4, <1>6, <1>7, <1>8 DEF SummaryIs
<1> QED BY <1>4, <1>9, ReaderStep

LEMMA ReadCostsStep ==
  ASSUME LedgerInv, NEW p \in Readers, ReadCosts(p)
  PROVE  LedgerInv'
<1> DEFINE part == OfAttempts(TotalOfDays(FromDay(p)))
<1>1. FromDay(p) \in SUBSET Days
  BY DEF FromDay
<1>2. /\ part \in Totals
      /\ \A f \in OfRequests : part[f] = 0
      /\ \A f \in OfSends : part[f] = TotalOfDays(FromDay(p))[f]
  BY <1>1, RowsAre, PartsOf
<1>3. Reads(p, "costs", "done", part)
  BY DEF ReadCosts
<1> HIDE DEF part
<1>4. PICK s \in Summary :
        /\ sums[p] \in Summary /\ SummaryIs(calls, raw, DayBack(DailyDays), sums[p]) /\ sums[p].pc = "costs"
        /\ s.pc = "done" /\ s.since = sums[p].since /\ s.from = sums[p].from
        /\ \A f \in Fields : s.got[f] = sums[p].got[f] + part[f] /\ sums[p].got[f] \in Nat /\ part[f] \in Nat
        /\ sums' = [sums EXCEPT ![p] = s]
        /\ UNCHANGED <<now, calls, raw, days, Health, faults>>
  BY <1>2, <1>3, ReadsIs
<1>5. OfRequests \in SUBSET Fields /\ OfSends \in SUBSET Fields
  BY DEF OfRequests, OfSends, Fields
<1>6. /\ ReadRaw(calls, raw, sums[p], OfSends) /\ sums[p].pc # "idle"
      /\ s.from \subseteq BookedIn(calls) /\ \A e \in s.from : calls[e].at >= s.since
  BY <1>4 DEF SummaryIs
<1>7. AtLeast(calls, s.got, StillKept(calls, DayBack(DailyDays), s), OfRequests)
  <2>1. \A f \in OfRequests : s.got[f] = sums[p].got[f]
    BY <1>2, <1>4, <1>5
  <2> QED BY <1>4, <2>1, RequestsStay
<1>8. AtLeast(calls, s.got, StillKept(calls, DayBack(DailyDays), s), OfSends)
  <2>1. \A f \in OfSends : s.got[f] = sums[p].got[f] + TotalOfDays(FromDay(p))[f]
    BY <1>2, <1>4, <1>5
  <2> QED BY <1>4, <1>5, <1>6, <2>1, DaysRead
<1>9. SummaryIs(calls, raw, DayBack(DailyDays), s)
  BY <1>4, <1>6, <1>7, <1>8 DEF SummaryIs
<1> QED BY <1>4, <1>9, ReaderStep

-----------------------------------------------------------------------------
(* The theorems *)

LEMMA LedgerStarts == LedgerInit => LedgerInv
<1>1. SUFFICES ASSUME LedgerInit PROVE LedgerInv
  OBVIOUS
<1>2. /\ now = 0 /\ calls = [e \in Events |-> IF e \in Old THEN Earlier ELSE NewCall]
      /\ raw = Old /\ days = [d \in Days |-> Zero] /\ sums = [p \in Readers |-> NoSummary]
      /\ latch = FALSE /\ ready = FALSE /\ writable = TRUE /\ faults = 0
  BY <1>1 DEF LedgerInit, Events
<1>3. CallsOK
  <2>1. calls \in [Events -> Call]
    BY <1>2, NewCallIs
  <2>2. \A r \in RequestIds : r \in Events /\ r \notin Old
    BY LedgerAssumption DEF Events
  <2>3. \A r \in RequestIds : calls[r] = NewCall
    BY <1>2, <2>2
  <2> QED BY <2>1, <2>3, NewCallIs DEF CallsOK
<1>4. BookedIn(calls) = Old
  BY <1>2, NewCallIs DEF BookedIn, Events
<1>5. IsFiniteSet(BookedIn(calls)) /\ raw = BookedIn(calls)
  BY <1>2, <1>4, LedgerAssumption
<1>6. now \in Instants /\ faults \in 0..MaxFaults
  BY <1>2, LedgerAssumption DEF Instants
<1>7. Zero \in Totals
  BY DEF Zero, Totals
<1>8. days \in [Days -> Totals]
  BY <1>2, <1>7
<1>9. NoSummary \in Summary /\ NoSummary.pc = "idle"
  BY <1>2, <1>6, <1>7 DEF NoSummary, Summary
<1>10. sums \in [Readers -> Summary] /\ \A p \in Readers : SummaryIs(calls, raw, DayBack(DailyDays), sums[p])
  BY <1>2, <1>9 DEF SummaryIs
<1>11. AddsUp(calls, raw, days, DayBack(DailyDays))
  <2>1. SUFFICES ASSUME NEW d \in Days
                 PROVE  Plus(days[d], TotalIn(calls, DayIn(calls, raw, d)))
                          = TotalIn(calls, DayIn(calls, BookedIn(calls), d))
    BY DEF AddsUp
  <2>2. TotalIn(calls, DayIn(calls, raw, d)) \in Totals
    BY <1>3, <1>5, DayType DEF CallsOK
  <2>3. days[d] = Zero
    BY <1>2
  <2> QED BY <1>5, <2>2, <2>3, PlusIs
<1> QED BY <1>2, <1>3, <1>5, <1>6, <1>8, <1>10, <1>11, InvIs

LEMMA ProceedStep ==
  ASSUME LedgerInv, NEW r \in RequestIds, Proceed(r)
  PROVE  LedgerInv'
<1>1. /\ CallsOK /\ now \in Nat /\ now \in Instants
      /\ latch \in BOOLEAN /\ ready \in BOOLEAN /\ writable \in BOOLEAN /\ faults \in 0..MaxFaults
  BY InvIs, LedgerAssumption DEF Instants
<1>2. CASE Preflight(r)
  <2>1. calls[r].pc = "new" /\ (Becomes(r, "sending") \/ Becomes(r, "refused"))
    BY <1>2 DEF Preflight, At
  <2>2. CallsOK' /\ Quiet
    BY <1>1, <2>1, BecomesKeeps DEF Stages
  <2> QED BY <1>1, <1>2, <2>2, QuietStep DEF Preflight
<1>3. CASE Send(r)
  <2>1. CallsOK' /\ Quiet
    BY <1>1, <1>3, SendKeeps
  <2> QED BY <1>1, <1>3, <2>1, QuietStep DEF Send, Health
<1>4. CASE Answer(r)
  <2>1. calls[r].pc = "sending" /\ (Becomes(r, "streaming") \/ \E complete \in BOOLEAN : Ends(r, complete))
    BY <1>4 DEF Answer, At
  <2>2. CASE Becomes(r, "streaming")
    <3>1. CallsOK' /\ Quiet
      BY <1>1, <2>1, <2>2, BecomesKeeps DEF Stages
    <3> QED BY <1>1, <1>4, <3>1, QuietStep DEF Answer, Health
  <2>3. CASE \E complete \in BOOLEAN : Ends(r, complete)
    <3>1. CallsOK' /\ Quiet
      BY <1>1, <2>1, <2>3, EndsKeeps
    <3> QED BY <1>1, <1>4, <3>1, QuietStep DEF Answer, Health
  <2> QED BY <2>1, <2>2, <2>3
<1>5. CASE GiveUp(r)
  <2>1. CallsOK' /\ Quiet
    BY <1>1, <1>5, BecomesKeeps DEF GiveUp, At, Stages
  <2> QED BY <1>1, <1>5, <2>1, QuietStep DEF GiveUp, Health
<1>6. CASE EndBody(r)
  <2>1. calls[r].pc = "streaming" /\ \E whole \in BOOLEAN : Ends(r, whole)
    BY <1>6 DEF EndBody, At
  <2>2. CallsOK' /\ Quiet
    BY <1>1, <2>1, EndsKeeps
  <2> QED BY <1>1, <1>6, <2>2, QuietStep DEF EndBody, Health
<1>7. CASE RecordUsage(r)
  BY <1>7, RecordStep
<1>8. CASE Leave(r)
  <2>1. CallsOK' /\ Quiet
    BY <1>1, <1>8, LeaveKeeps
  <2> QED BY <1>1, <1>8, <2>1, QuietStep DEF Leave, Health
<1> QED BY <1>2, <1>3, <1>4, <1>5, <1>6, <1>7, <1>8 DEF Proceed

LEMMA LedgerSteps == LedgerInv /\ [LedgerNext]_ledgerVars => LedgerInv'
<1> SUFFICES ASSUME LedgerInv, [LedgerNext]_ledgerVars PROVE LedgerInv'
  OBVIOUS
<1>1. /\ CallsOK /\ now \in Nat /\ now \in Instants
      /\ latch \in BOOLEAN /\ ready \in BOOLEAN /\ writable \in BOOLEAN /\ faults \in 0..MaxFaults
  BY InvIs, LedgerAssumption DEF Instants
<1>2. ASSUME calls' = calls PROVE CallsOK' /\ Quiet
  BY <1>1, <1>2 DEF CallsOK, Quiet
<1>3. CASE \E r \in RequestIds : Proceed(r)
  BY <1>3, ProceedStep
<1>4. CASE \E p \in Readers : Summarize(p)
  BY <1>4, BeginStep, ReadDaysStep, ReadAttemptsStep, ReadCostsStep DEF Summarize
<1>5. CASE Probe
  <2>1. CallsOK' /\ Quiet
    BY <1>1, <1>2, <1>5, ShownKeeps DEF Probe
  <2>2. ready' \in BOOLEAN
    BY <1>1, <1>5 DEF Probe
  <2> QED BY <1>1, <1>5, <2>1, <2>2, QuietStep DEF Probe
<1>6. CASE Consume
  <2>1. CallsOK' /\ Quiet
    BY <1>1, <1>2, <1>6, ShownKeeps DEF Consume
  <2>2. latch' = FALSE /\ ready' = FALSE /\ UNCHANGED <<now, Ledger, writable, faults>>
    BY <1>6 DEF Consume
  <2>3. latch' \in BOOLEAN /\ ready' \in BOOLEAN /\ writable' \in BOOLEAN
    BY <1>1, <2>2
  <2>4. now' \in Instants /\ now <= now' /\ faults' \in 0..MaxFaults /\ UNCHANGED Ledger
    BY <1>1, <2>2
  <2> QED BY <2>1, <2>3, <2>4, QuietStep
<1>7. CASE Prune
  BY <1>7, PruneStep
<1>8. CASE Die
  <2>1. CallsOK' /\ Quiet
    BY <1>1, <1>8, DieKeeps
  <2>2. faults' \in 0..MaxFaults
    BY <1>1, <1>8, LedgerAssumption DEF Die
  <2>3. ready' = FALSE /\ latch' = ~writable /\ UNCHANGED <<now, Ledger, writable>>
    BY <1>8 DEF Die
  <2>4. latch' \in BOOLEAN /\ ready' \in BOOLEAN /\ writable' \in BOOLEAN
    BY <1>1, <2>3
  <2>5. now' \in Instants /\ now <= now' /\ UNCHANGED Ledger
    BY <1>1, <2>3
  <2> QED BY <2>1, <2>2, <2>4, <2>5, QuietStep
<1>9. CASE DiskFails
  <2>1. CallsOK' /\ Quiet
    BY <1>2, <1>9 DEF DiskFails
  <2>2. faults' \in 0..MaxFaults
    BY <1>1, <1>9, LedgerAssumption DEF DiskFails
  <2>3. writable' = FALSE /\ UNCHANGED <<now, Ledger, latch, ready>>
    BY <1>9 DEF DiskFails
  <2>4. latch' \in BOOLEAN /\ ready' \in BOOLEAN /\ writable' \in BOOLEAN
    BY <1>1, <2>3
  <2>5. now' \in Instants /\ now <= now' /\ UNCHANGED Ledger
    BY <1>1, <2>3
  <2> QED BY <2>1, <2>2, <2>4, <2>5, QuietStep
<1>10. CASE DiskHeals
  <2>1. CallsOK' /\ Quiet
    BY <1>2, <1>10 DEF DiskHeals
  <2>2. /\ now' = now /\ UNCHANGED Ledger /\ latch' \in BOOLEAN /\ ready' \in BOOLEAN
        /\ writable' \in BOOLEAN /\ now <= now' /\ faults' \in 0..MaxFaults
    BY <1>1, <1>10 DEF DiskHeals
  <2> QED BY <1>1, <2>1, <2>2, QuietStep
<1>11. CASE TimePasses
  <2>1. CallsOK' /\ Quiet
    BY <1>2, <1>11 DEF TimePasses
  <2>2. now' \in Instants /\ now <= now'
    BY <1>1, <1>11, LedgerAssumption DEF TimePasses, Instants
  <2>3. /\ UNCHANGED Ledger /\ latch' \in BOOLEAN /\ ready' \in BOOLEAN
        /\ writable' \in BOOLEAN /\ faults' \in 0..MaxFaults
    BY <1>1, <1>11 DEF TimePasses, Health
  <2> QED BY <1>1, <2>1, <2>2, <2>3, QuietStep
<1>12. CASE UNCHANGED ledgerVars
  <2>1. CallsOK' /\ Quiet
    BY <1>2, <1>12 DEF ledgerVars
  <2> QED BY <1>1, <1>12, <2>1, QuietStep DEF ledgerVars, Ledger
<1> QED BY <1>3, <1>4, <1>5, <1>6, <1>7, <1>8, <1>9, <1>10, <1>11, <1>12 DEF LedgerNext, Check

\* The ledger and the summaries under way are always as the invariant says:
\* whatever the requests do, whoever prunes, reads, dies or comes back
\* (usage_store.py, app.py of the model gateway).
THEOREM LedgerIsSound == LedgerSpec => []LedgerInv
<1> QED BY LedgerStarts, LedgerSteps, PTL DEF LedgerSpec

\* No event and no attempt is lost or counted twice by rolling up a day, in
\* whatever parts and by whomever (UsageStore.prune).
THEOREM DaysAddUpTheorem == LedgerSpec => []DaysAddUp
<1>1. LedgerInv => DaysAddUp
  <2>1. SUFFICES ASSUME LedgerInv PROVE DaysAddUp
    OBVIOUS
  <2>2. AddsUp(calls, raw, days, DayBack(DailyDays)) /\ Booked = BookedIn(calls)
    <3>1. calls \in [Events -> Call] /\ AddsUp(calls, raw, days, DayBack(DailyDays))
      BY <2>1, InvIs DEF CallsOK
    <3>2. DOMAIN calls = Events
      BY <3>1
    <3> QED BY <3>1, <3>2 DEF Booked, BookedIn
  <2> QED BY <2>2, TotalIsIn DEF DaysAddUp, AddsUp, DayIn
<1> QED BY <1>1, LedgerIsSound, PTL

\* A summary misses no event that was there when it began, however its reads fall
\* between roll-ups (UsageStore.summary).
THEOREM SummaryMissesNothingTheorem == LedgerSpec => []SummaryMissesNothing
<1>1. LedgerInv => SummaryMissesNothing
  <2>1. SUFFICES ASSUME LedgerInv, NEW p \in Readers, sums[p].pc = "done", NEW f \in DOMAIN Zero
                 PROVE  sums[p].got[f]
                          >= Total({e \in sums[p].from : Day(calls[e].at) >= DayBack(DailyDays)})[f]
    BY DEF SummaryMissesNothing
  <2> DEFINE S == {e \in sums[p].from : Day(calls[e].at) >= DayBack(DailyDays)}
  <2>2. SummaryIs(calls, raw, DayBack(DailyDays), sums[p])
    BY <2>1, InvIs
  <2>3. S = StillKept(calls, DayBack(DailyDays), sums[p])
    BY DEF StillKept
  <2>4. f \in OfRequests \/ f \in OfSends
    BY DEF Zero, OfRequests, OfSends
  <2>5. TotalIn(calls, S)[f] <= sums[p].got[f]
    <3> HIDE DEF S
    <3> QED BY <2>1, <2>2, <2>3, <2>4 DEF SummaryIs, AtLeast
  <2>6. Total(S)[f] = TotalIn(calls, S)[f]
    BY TotalIsIn
  <2> HIDE DEF S
  <2>7. sums[p].got[f] >= Total(S)[f]
    BY <2>5, <2>6
  <2> QED BY <2>7 DEF S
<1> QED BY <1>1, LedgerIsSound, PTL

=============================================================================
