---------------------------- MODULE RouteFailover ----------------------------
(***************************************************************************)
(* How the model gateway sends one request upstream: the route is resolved *)
(* to the deployments that are not cooling down, and these are tried in    *)
(* turn until one gives an answer that is final.  Concurrent requests      *)
(* share the process's RuntimeHealthRegistry.                              *)
(*                                                                         *)
(* All of it runs on one event loop: an action is what happens between two *)
(* awaits.  A send is under way from the action that starts it to the one  *)
(* that receives its outcome; cooldowns are kept as the time left.         *)
(***************************************************************************)
EXTENDS Naturals, Sequences, FiniteSets

CONSTANTS
  Requests,      \* requests, each resolved once
  Streaming,     \* those with stream: true
  Connections,
  Deployments,
  Conn,          \* the connection of each deployment
  Keyed,         \* the deployments whose connection has a secret
  Targets,       \* route.targets, in order
  Scope,         \* route.fallback_scope
  Payloads,      \* what a payload may be fit for: sets of deployments
  MaxAttempts,   \* route.max_attempts
  Retries,       \* len(CONNECT_ERROR_RETRY_DELAYS_SECONDS)
  Threshold,     \* server_failure_threshold
  RateCool,      \* rate_limit_cooldown_seconds
  AuthCool,      \* the longer of that and 30 s
  RetryAfter,    \* a Retry-After a provider may send
  DeployCool,    \* deployment_cooldown_seconds
  ServerCool,    \* server_failure_cooldown_seconds
  NoDeployment,
  MaxTicks,      \* bound of the model: units of time that pass
  MaxClears      \* bound of the model: credentials replaced

ASSUME RouteAssumption ==
  /\ Targets \in Seq(Deployments) /\ Targets # <<>>
  /\ \A i, k \in DOMAIN Targets : Targets[i] = Targets[k] => i = k
  /\ Conn \in [Deployments -> Connections]
  /\ Scope \in {"none", "same_channel", "any_channel"}
  /\ Keyed \subseteq Deployments /\ Streaming \subseteq Requests
  /\ Payloads \subseteq SUBSET Deployments
  /\ NoDeployment \notin Deployments
ASSUME NumbersAssumption ==
  /\ {MaxAttempts, Threshold} \subseteq Nat \ {0}
  /\ {Retries, RateCool, AuthCool, RetryAfter, DeployCool, ServerCool,
      MaxTicks, MaxClears} \subseteq Nat

VARIABLES
  connCool,  \* _deadlines: time left for each connection
  depCool,   \* _deployment_deadlines
  failures,  \* _server_failures, counted up to the threshold
  req,       \* each request
  ticks, clears

vars == <<connCool, depCool, failures, req, ticks, clears>>

\* Outcomes of a send.  The request did not leave the host ...
NotSent == {"refused", "unreachable"}
\* ... or the provider answered it with a status ...
Statuses == {"ok", "auth", "rate", "rejected", "timeout", "server"}
\* ... or its fate is not known: broken off, or a success that is none.
Outcomes == NotSent \cup Statuses \cup {"ambiguous"}

Answers == Statuses \cup {"none", "ambiguous", "affinity", "gateway_error", "unavailable"}

\* The targets of a request keep the places they have in the route.
Order == UNION {[S -> Deployments] : S \in SUBSET (1..Len(Targets))}

Request == [pc: {"new", "preflight", "send", "sleep", "stream", "done"},
            targets: Order, required: BOOLEAN,
            at: Nat,          \* place of the target being tried
            try: Nat,         \* sends to it so far
            retries: Nat,     \* connect_retries
            traces: Seq(Outcomes),   \* of its attempts
            last: Statuses \cup {"none"},   \* last_result
            answer: Answers]

New == [pc |-> "new", targets |-> <<>>, required |-> FALSE, at |-> 0, try |-> 0,
        retries |-> 0, traces |-> <<>>, last |-> "none", answer |-> "none"]

Longer(a, b) == IF a < b THEN b ELSE a

-----------------------------------------------------------------------------
(* RuntimeHealthRegistry *)

Cooling(cc, dc, d) == cc[Conn[d]] > 0 \/ dc[d] > 0

Defer(cool, x, time) == [cool EXCEPT ![x] = Longer(@, time)]

\* record_http: connection-wide failures cool the connection, the others the
\* deployment; any status below 500 ends a row of server failures.  missing: the
\* body names one of MODEL_NOT_FOUND_CODES, which cools the deployment whatever
\* the status is, and is then no server failure.
ConnCoolAfter(d, status, after) ==
  CASE status = "rate" -> Defer(connCool, Conn[d], Longer(RateCool, after))
    [] status = "auth" -> Defer(connCool, Conn[d], AuthCool)
    [] OTHER -> connCool

FailuresAfter(d, status, missing) ==
  CASE status = "none" \/ (status = "server" /\ missing) -> failures
    [] status = "server" /\ ~missing ->
         [failures EXCEPT ![d] = IF @ < Threshold THEN @ + 1 ELSE @]
    [] OTHER -> [failures EXCEPT ![d] = 0]

DepCoolAfter(d, status, missing) ==
  CASE missing /\ status \notin {"rate", "auth"} -> Defer(depCool, d, DeployCool)
    [] status = "server" /\ ~missing /\ FailuresAfter(d, status, FALSE)[d] >= Threshold ->
         Defer(depCool, d, ServerCool)
    [] OTHER -> depCool

-----------------------------------------------------------------------------
(* Router.resolve *)

\* scoped_route_targets
InScope(d) ==
  CASE Scope = "none" -> d = Targets[1]
    [] Scope = "same_channel" -> Conn[d] = Conn[Targets[1]]
    [] OTHER -> TRUE

Scoped == [i \in {k \in DOMAIN Targets : InScope(Targets[k])} |-> Targets[i]]

\* A preferred target goes first if it is there, and those before it make room.
First(ds, d) ==
  LET k == CHOOSE k \in DOMAIN ds : ds[k] = d
  IN  IF \E i \in DOMAIN ds : ds[i] = d
      THEN [i \in {1} \cup {j + 1 : j \in {j \in DOMAIN ds : j < k}}
                     \cup {j \in DOMAIN ds : j > k} |->
              IF i = 1 THEN d ELSE IF i <= k THEN ds[i - 1] ELSE ds[i]]
      ELSE ds

Only(ds, S) == [i \in {k \in DOMAIN ds : ds[k] \in S} |-> ds[i]]

\* able: the deployments with the capabilities that the request asks for, whose
\* terms of use allow it.
Eligible(ds, able) ==
  Only(ds, {d \in able : ~Cooling(connCool, depCool, d)})

-----------------------------------------------------------------------------
(* The loop of RawOpenAIProxy.complete and open_stream *)

HasBudget(rq) == Len(rq.traces) - rq.retries < MaxAttempts

\* Slip: resolve looked at the cooldowns already.
TryableUnchecked(rq, cc, dc) ==
  {i \in DOMAIN rq.targets : i > rq.at /\ rq.targets[i] \in Keyed}

Tryable(rq, cc, dc) ==
  {i \in DOMAIN rq.targets :
     i > rq.at /\ rq.targets[i] \in Keyed /\ ~Cooling(cc, dc, rq.targets[i])}

Least(S) == CHOOSE i \in S : \A k \in S : i <= k

\* Slip: the network error of a later target hides what a provider answered.
FinalAnswerOfNetwork(rq) ==
  IF rq.required THEN "affinity"
  ELSE IF rq.traces # <<>> /\ rq.traces[Len(rq.traces)] \in NotSent
       THEN "gateway_error"
  ELSE IF rq.last # "none" THEN rq.last ELSE "gateway_error"

\* _finalize_attempts
FinalAnswer(rq) ==
  IF rq.required THEN "affinity"
  ELSE IF rq.last # "none" THEN rq.last ELSE "gateway_error"

Answered(rq, answer) ==
  [rq EXCEPT !.pc = "done", !.targets = <<>>, !.at = 0, !.try = 0, !.answer = answer]

\* The next target with a secret and no cooldown, or the end of the loop.
Advanced(rq, cc, dc) ==
  LET next == Tryable(rq, cc, dc)
  IN  IF HasBudget(rq) /\ next # {}
      THEN [rq EXCEPT !.pc = "send", !.at = Least(next), !.try = 1]
      ELSE Answered(rq, FinalAnswer(rq))

Target(rq) == rq.targets[rq.at]

Traced(rq, what) ==
  [rq EXCEPT !.traces = Append(@, what)]

\* The retries that came before the final send to this target.
Counted(rq) == [rq EXCEPT !.retries = @ + rq.try - 1]

\* Slip: whatever happened, the next target is tried.
FailsOverAlways(what) == what # "ok"

\* should_fail_over
FailsOver(what) == what \in {"timeout", "rate", "server"}

-----------------------------------------------------------------------------
(* Actions *)

\* The targets are fixed: those that resolve finds eligible and, of these, those
\* for which the payload as prepared still has the right shape.  If there are
\* none, the error says why; otherwise the usage ledger is looked at first.
Fix(r, ds, required, able, shaped) ==
  /\ req[r].pc = "new"
  /\ LET eligible == Eligible(ds, able)
         targets  == Only(eligible, shaped)
         cooling  == \E i \in DOMAIN ds : ds[i] \in able
     IN  req' = [req EXCEPT ![r] =
           IF DOMAIN targets # {}
           THEN [New EXCEPT !.pc = "preflight", !.targets = targets, !.required = required]
           ELSE Answered(New, IF DOMAIN eligible = {} /\ required /\ cooling
                              THEN "affinity" ELSE "unavailable")]
  /\ UNCHANGED <<connCool, depCool, failures, ticks, clears>>

Resolve(r, preferred, able, shaped) == Fix(r, First(Scoped, preferred), FALSE, able, shaped)

ResolveRequired(r, d, able, shaped) == Fix(r, <<d>>, TRUE, able, shaped)

\* The ledger has room, as preflight_usage_ledger found in a thread of its own:
\* the loop begins.  Meanwhile other requests may have cooled the targets.
Open(r) ==
  /\ req[r].pc = "preflight"
  /\ req' = [req EXCEPT ![r] = Advanced(@, connCool, depCool)]
  /\ UNCHANGED <<connCool, depCool, failures, ticks, clears>>

NoRoom(r) ==
  /\ req[r].pc = "preflight"
  /\ req' = [req EXCEPT ![r] = Answered(@, "unavailable")]
  /\ UNCHANGED <<connCool, depCool, failures, ticks, clears>>

\* The destination is refused, or its name not resolved, before any send.
FailLocally(r) ==
  /\ req[r].pc = "send"
  /\ req' = [req EXCEPT ![r] = Advanced(Counted(@), connCool, depCool)]
  /\ UNCHANGED <<connCool, depCool, failures, ticks, clears>>

\* A connect error: the same deployment again, after a pause, or the next one.
Refused(r) ==
  /\ req[r].pc = "send"
  /\ req' = [req EXCEPT ![r] =
               IF @.try <= Retries
               THEN [Traced(@, "refused") EXCEPT !.pc = "sleep"]
               ELSE Advanced(Counted(Traced(@, "refused")), connCool, depCool)]
  /\ UNCHANGED <<connCool, depCool, failures, ticks, clears>>

Resend(r) ==
  /\ req[r].pc = "sleep"
  /\ req' = [req EXCEPT ![r].pc = "send", ![r].try = @ + 1]
  /\ UNCHANGED <<connCool, depCool, failures, ticks, clears>>

\* The connection is not made in time.
Unreachable(r) ==
  /\ req[r].pc = "send"
  /\ req' = [req EXCEPT ![r] =
               Advanced(Counted(Traced(@, "unreachable")), connCool, depCool)]
  /\ UNCHANGED <<connCool, depCool, failures, ticks, clears>>

Record(d, status, missing, after) ==
  /\ connCool' = ConnCoolAfter(d, status, after)
  /\ depCool' = DepCoolAfter(d, status, missing)
  /\ failures' = FailuresAfter(d, status, missing)

\* A provider answers.  A stream is handed over at its first byte.
Respond(r, status, missing, after) ==
  /\ req[r].pc = "send"
  /\ Record(Target(req[r]), status, missing, after)
  /\ req' = [req EXCEPT ![r] =
               LET rq == Counted(Traced(@, status))
               IN  IF FailsOver(status)
                   THEN Advanced([rq EXCEPT !.last = status], connCool', depCool')
                   ELSE IF status = "ok" /\ r \in Streaming THEN [rq EXCEPT !.pc = "stream"]
                   ELSE Answered(rq, status)]
  /\ UNCHANGED <<ticks, clears>>

\* The exchange breaks off, with or without a status line, or a success has an
\* unusable body: the provider may have billed it, so the request ends here.  The
\* status and its Retry-After count, the body does not.
BreakOff(r, status, after) ==
  /\ req[r].pc = "send"
  /\ Record(Target(req[r]), status, FALSE, after)
  /\ req' = [req EXCEPT ![r] =
               LET rq == Counted(Traced(@, "ambiguous"))
               IN  IF FailsOver("ambiguous")
                   THEN Advanced(rq, connCool', depCool')
                   ELSE Answered(rq, "ambiguous")]
  /\ UNCHANGED <<ticks, clears>>

\* The stream ends, whole or broken: nothing is tried after its first byte.
EndStream(r, whole) ==
  /\ req[r].pc = "stream"
  /\ req' = [req EXCEPT ![r] = Answered(@, IF whole THEN "ok" ELSE "ambiguous")]
  /\ UNCHANGED <<connCool, depCool, failures, ticks, clears>>

\* clear_connection, after a credential was replaced.
Clear(c) ==
  /\ clears < MaxClears /\ clears' = clears + 1
  /\ connCool' = [connCool EXCEPT ![c] = 0]
  /\ depCool' = [d \in Deployments |-> IF Conn[d] = c THEN 0 ELSE depCool[d]]
  /\ failures' = [d \in Deployments |-> IF Conn[d] = c THEN 0 ELSE failures[d]]
  /\ UNCHANGED <<req, ticks>>

Tick ==
  /\ ticks < MaxTicks /\ ticks' = ticks + 1
  /\ connCool' = [c \in Connections |-> IF connCool[c] > 0 THEN connCool[c] - 1 ELSE 0]
  /\ depCool' = [d \in Deployments |-> IF depCool[d] > 0 THEN depCool[d] - 1 ELSE 0]
  /\ UNCHANGED <<failures, req, clears>>

Init ==
  /\ connCool = [c \in Connections |-> 0] /\ depCool = [d \in Deployments |-> 0]
  /\ failures = [d \in Deployments |-> 0]
  /\ req = [r \in Requests |-> New]
  /\ ticks = 0 /\ clears = 0

Arrive(r) ==
  \E able, shaped \in Payloads :
    \/ \E d \in Deployments \cup {NoDeployment} : Resolve(r, d, able, shaped)
    \/ \E i \in DOMAIN Targets : ResolveRequired(r, Targets[i], able, shaped)

Progress(r) ==
  \/ Open(r) \/ NoRoom(r)
  \/ FailLocally(r) \/ Refused(r) \/ Resend(r) \/ Unreachable(r)
  \/ \E s \in Statuses, missing \in BOOLEAN, after \in {0, RetryAfter} :
       Respond(r, s, missing, after)
  \/ \E s \in {"none"} \cup Statuses, after \in {0, RetryAfter} : BreakOff(r, s, after)
  \/ \E whole \in BOOLEAN : EndStream(r, whole)

Next ==
  \/ \E r \in Requests : Arrive(r) \/ Progress(r)
  \/ \E c \in Connections : Clear(c)
  \/ Tick

Spec == Init /\ [][Next]_vars

-----------------------------------------------------------------------------
(* Properties *)

\* Deadlines never exceed the longest cooldown of their kind, and the loops'
\* local variables have their types.
TypeOK ==
  /\ connCool \in [Connections -> 0..Longer(AuthCool, Longer(RateCool, RetryAfter))]
  /\ depCool \in [Deployments -> 0..Longer(DeployCool, ServerCool)]
  /\ failures \in [Deployments -> 0..Threshold]
  /\ req \in [Requests -> Request]
  /\ ticks \in 0..MaxTicks /\ clears \in 0..MaxClears

\* A request that a provider may have billed, but did not answer, is never sent
\* again, to the same deployment or to another.
NeverRepeatedBlindly ==
  \A r \in Requests :
    LET t == req[r].traces
    IN  \A i \in DOMAIN t :
          t[i] \notin NotSent \cup {"timeout", "rate", "server"} =>
            i = Len(t) /\ req[r].pc \in {"stream", "done"}

Begins(r) ==
  /\ req'[r].pc = "send" /\ req'[r].try = 1
  /\ req[r].pc # "send" \/ req[r].at # req'[r].at

\* A target, the first one included, is first tried only if neither it nor its
\* connection cools down at that moment: a 429 stops the request itself, and every
\* concurrent one, those in their preflight included, from trying the connection's
\* other deployments.
TargetRechecked ==
  [][\A r \in Requests :
       Begins(r) => ~Cooling(connCool', depCool', Target(req'[r]))]_vars

\* _finalize_attempts: if some provider answered, its answer is returned, and not the network error
\* of a target tried later.
ProviderAnswerKept ==
  \A r \in Requests :
    LET t == req[r].traces
        said == {i \in DOMAIN t : t[i] \in Statuses}
    IN  req[r].pc = "done" /\ ~req[r].required /\ said # {} =>
          req[r].answer # "gateway_error"

=============================================================================
