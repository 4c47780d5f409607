---------------------------- MODULE ConsoleLogin ----------------------------
(***************************************************************************)
(* Access tokens of the memory gateway and the one-time codes that deliver *)
(* a console token to a browser.  A code either comes with a token issued  *)
(* for it, which must not survive the code undelivered, or lends a token   *)
(* that its host already holds, which must survive it.  The plaintext of   *)
(* a token is in the memory of the process only: a death loses it, and     *)
(* with it every request that was between two of its transactions.         *)
(***************************************************************************)
EXTENDS Naturals

CONSTANTS
  Users,
  Tokens, NoToken,
  Codes, NoCode,
  Clients,      \* requests served at a time
  Lifetime,     \* CONSOLE_LOGIN_CODE_TTL_SECONDS
  MaxTime,      \* bound of the model: instants
  Embedded,     \* whether the process is the App's, which links to its console
  HostRevokes   \* whether the command line of the host revokes tokens, too

ASSUME LoginAssumption ==
  /\ {Lifetime, MaxTime} \subseteq Nat \ {0}
  /\ NoToken \notin Tokens
  /\ NoCode \notin Codes
  /\ {Embedded, HostRevokes} \subseteq BOOLEAN
  /\ Users # {}

VARIABLES
  tokens,   \* auth_tokens
  codes,    \* console_login_codes
  pending,  \* the codes whose plaintext token is in memory (_PENDING_TOKENS)
  held,     \* the tokens whose plaintext was shown, delivered or kept in the file
  file,     \* the token in the host's credentials/gateway.txt
  ops,      \* the request each client has under way
  now

loginVars == <<tokens, codes, pending, held, file, ops, now>>

Roles == {"console", "chat"}
Token == [status: {"none", "active", "revoked"}, user: Users, role: Roles]

\* "known": the code was returned to the one who asked for it.
Code == [status: {"none", "open", "used"}, token: Tokens \cup {NoToken},
         owned: BOOLEAN, expires: 0..(MaxTime + Lifetime), known: BOOLEAN]

\* Where a request stands: "auth" past the middleware with a console token,
\* "issued" has created the token of a code, "undo" must revoke it again,
\* "renew" found no valid token in the host's file, "write" has created one
\* for it, "lend" holds a valid token that a code is to deliver, "stash" has
\* stored a code, "marked" has used one up, "lost" found its plaintext gone.
Op == [pc: {"idle", "auth", "issued", "undo", "renew", "write", "lend", "stash",
            "marked", "lost"},
       user: Users, token: Tokens \cup {NoToken}, code: Codes \cup {NoCode}]

LoginTypeOK ==
  /\ tokens \in [Tokens -> Token]
  /\ codes \in [Codes -> Code]
  /\ pending \subseteq Codes
  /\ held \subseteq Tokens
  /\ file \in Tokens \cup {NoToken}
  /\ ops \in [Clients -> Op]
  /\ now \in 0..MaxTime

AnyUser == CHOOSE u \in Users : TRUE
NoOp == [pc |-> "idle", user |-> AnyUser, token |-> NoToken, code |-> NoCode]

LoginInit ==
  /\ tokens = [t \in Tokens |-> [status |-> "none", user |-> AnyUser, role |-> "chat"]]
  /\ codes = [c \in Codes |-> [status |-> "none", token |-> NoToken, owned |-> FALSE,
                               expires |-> 0, known |-> FALSE]]
  /\ pending = {}
  /\ held = {}
  /\ file = NoToken
  /\ ops = [p \in Clients |-> NoOp]
  /\ now = 0

ActiveToken(t) == tokens[t].status = "active"
Console(t) == ActiveToken(t) /\ tokens[t].role = "console"

Expired(c) == codes[c].expires <= now

New(t, u, r) ==
  /\ tokens[t].status = "none"
  /\ tokens' = [tokens EXCEPT ![t] = [status |-> "active", user |-> u, role |-> r]]

\* Revoking leaves the record, and a token revoked before as it is.
Revoked(T) ==
  [t \in Tokens |-> IF t \in T /\ ActiveToken(t) THEN [tokens[t] EXCEPT !.status = "revoked"]
                    ELSE tokens[t]]

Finish(p) == ops' = [ops EXCEPT ![p] = NoOp]
At(p, pc) == ops[p].pc = pc
Goto(p, pc) == ops' = [ops EXCEPT ![p].pc = pc]

-----------------------------------------------------------------------------
(* Tokens *)

\* memgw token create shows the token to the person at the host.
HostCreate(t, u, r) ==
  /\ New(t, u, r)
  /\ held' = held \cup {t}
  /\ UNCHANGED <<codes, pending, file, ops, now>>

HostRevoke(t) ==
  /\ HostRevokes /\ ActiveToken(t)
  /\ tokens' = Revoked({t})
  /\ UNCHANGED <<codes, pending, held, file, ops, now>>

\* The middleware admits a request to /auth with an active console token.  It
\* admits the legacy key like a token that is never revoked, which is left out.
Authenticate(p, t) ==
  /\ At(p, "idle")
  /\ t \in held /\ Console(t)
  /\ ops' = [ops EXCEPT ![p] = [NoOp EXCEPT !.pc = "auth", !.user = tokens[t].user]]
  /\ UNCHANGED <<tokens, codes, pending, held, file, now>>

\* create_auth_token: over HTTP, never a console token.
RestCreate(p, t) ==
  /\ At(p, "auth")
  /\ New(t, ops[p].user, "chat")
  /\ held' = held \cup {t}
  /\ Finish(p)
  /\ UNCHANGED <<codes, pending, file, now>>

\* revoke_auth_token of an active token of the user, but not of the last
\* active console token.
RestRevoke(p, t) ==
  /\ At(p, "auth")
  /\ ActiveToken(t) /\ tokens[t].user = ops[p].user
  /\ Console(t) => \E s \in Tokens \ {t} : Console(s) /\ tokens[s].user = tokens[t].user
  /\ tokens' = Revoked({t})
  /\ Finish(p)
  /\ UNCHANGED <<codes, pending, held, file, now>>

-----------------------------------------------------------------------------
(* Codes are minted *)

\* mint: the token of the code to come.
Issue(p, t) ==
  /\ At(p, "auth")
  /\ New(t, ops[p].user, "console")
  /\ ops' = [ops EXCEPT ![p].pc = "issued", ![p].token = t]
  /\ UNCHANGED <<codes, pending, held, file, now>>

\* console_login_link of the host: the token in its file if that is valid,
\* another one otherwise, which first replaces it in the file.
Link(p) ==
  /\ Embedded
  /\ At(p, "idle")
  /\ \/ /\ file # NoToken /\ Console(file)
        /\ ops' = [ops EXCEPT ![p] = [NoOp EXCEPT !.pc = "lend", !.token = file,
                                                  !.user = tokens[file].user]]
     \/ /\ file # NoToken => ~Console(file)
        /\ ops' = [ops EXCEPT ![p] = [NoOp EXCEPT !.pc = "renew"]]
  /\ UNCHANGED <<tokens, codes, pending, held, file, now>>

Renew(p, t) ==
  /\ At(p, "renew")
  /\ New(t, AnyUser, "console")
  /\ ops' = [ops EXCEPT ![p].pc = "write", ![p].token = t]
  /\ UNCHANGED <<codes, pending, held, file, now>>

\* The revocation of what was issued in vain; it may fail itself, and then
\* the token stays (_revoke_quietly, and the handler of a failed write).
RevokeIssued(p) ==
  /\ tokens' = Revoked({ops[p].token}) \/ tokens' = tokens
  /\ Finish(p)
  /\ UNCHANGED <<codes, pending, held, file, now>>

WriteFails(p) == At(p, "write") /\ RevokeIssued(p)

WriteFile(p) ==
  /\ At(p, "write")
  /\ file' = ops[p].token
  /\ held' = held \cup {ops[p].token}
  /\ IF Console(ops[p].token) THEN Goto(p, "lend") ELSE Finish(p)
  /\ UNCHANGED <<tokens, codes, pending, now>>

\* Slip: only the code is used up.
RetiredNone(C) == {}

\* The tokens that go with the codes C when these are used up undelivered.
Retired(C) == {codes[c].token : c \in {d \in C : codes[d].owned}}

Overdue == {c \in Codes : codes[c].status = "open" /\ Expired(c)}

\* _insert_code retires the codes that are overdue and stores a new one.
InsertCode(p, c) ==
  /\ At(p, "issued") \/ At(p, "lend")
  /\ codes[c].status = "none"
  /\ codes' = [d \in Codes |->
       IF d = c THEN [status |-> "open", token |-> ops[p].token, owned |-> At(p, "issued"),
                      expires |-> now + Lifetime, known |-> FALSE]
       ELSE IF d \in Overdue THEN [codes[d] EXCEPT !.status = "used"] ELSE codes[d]]
  /\ tokens' = Revoked(Retired(Overdue))
  /\ ops' = [ops EXCEPT ![p].pc = "stash", ![p].code = c]
  /\ UNCHANGED <<pending, held, file, now>>

InsertFails(p) ==
  \/ At(p, "issued") /\ Goto(p, "undo") /\ UNCHANGED <<tokens, codes, pending, held, file, now>>
  \/ At(p, "lend") /\ Finish(p) /\ UNCHANGED <<tokens, codes, pending, held, file, now>>

Undo(p) == At(p, "undo") /\ RevokeIssued(p)

\* _stash_pending_token; the code is returned.
Stash(p) ==
  /\ At(p, "stash")
  /\ pending' = {c \in pending : ~Expired(c)} \cup {ops[p].code}
  /\ codes' = [codes EXCEPT ![ops[p].code].known = TRUE]
  /\ Finish(p)
  /\ UNCHANGED <<tokens, held, file, now>>

-----------------------------------------------------------------------------
(* Codes are exchanged *)

\* Slip: a code is good for as long as its row is there.
UnusedEver(c) == codes[c].status # "none"

Unused(c) == codes[c].status = "open"

\* exchange: the code is used up; a late one takes its token with it.
Present(p, c) ==
  /\ At(p, "idle")
  /\ codes[c].known /\ Unused(c)
  /\ codes' = [codes EXCEPT ![c].status = "used"]
  /\ IF Expired(c)
       THEN tokens' = Revoked(Retired({c})) /\ UNCHANGED ops
       ELSE /\ ops' = [ops EXCEPT ![p] = [NoOp EXCEPT !.pc = "marked", !.code = c,
                                                      !.token = codes[c].token]]
            /\ UNCHANGED tokens
  /\ UNCHANGED <<pending, held, file, now>>

\* Slip: the plaintext is read and stays where it is.
ForgetNothing(p) == pending

Forget(p) == pending \ {ops[p].code}

\* _pop_pending_token: the token is delivered, if its plaintext is there.
Pop(p) ==
  /\ At(p, "marked")
  /\ pending' = Forget(p)
  /\ IF ops[p].code \in pending /\ ~Expired(ops[p].code)
       THEN held' = held \cup {ops[p].token} /\ Finish(p)
       ELSE /\ IF codes[ops[p].code].owned THEN Goto(p, "lost") ELSE Finish(p)
            /\ UNCHANGED held
  /\ UNCHANGED <<tokens, codes, file, now>>

RevokeLost(p) == At(p, "lost") /\ RevokeIssued(p)

-----------------------------------------------------------------------------

\* A request is refused, or given up by its client.
Refuse(p) ==
  /\ At(p, "auth")
  /\ Finish(p)
  /\ UNCHANGED <<tokens, codes, pending, held, file, now>>

\* The process dies and is started again.
Die ==
  /\ pending' = {}
  /\ ops' = [p \in Clients |-> NoOp]
  /\ UNCHANGED <<tokens, codes, held, file, now>>

Tick == now < MaxTime /\ now' = now + 1 /\ UNCHANGED <<tokens, codes, pending, held, file, ops>>

Step(p) ==
  \/ \E t \in Tokens :
       Authenticate(p, t) \/ RestCreate(p, t) \/ RestRevoke(p, t) \/ Issue(p, t) \/ Renew(p, t)
  \/ \E c \in Codes : InsertCode(p, c) \/ Present(p, c)
  \/ Link(p) \/ WriteFile(p) \/ WriteFails(p) \/ InsertFails(p) \/ Undo(p) \/ Stash(p)
  \/ Pop(p) \/ RevokeLost(p) \/ Refuse(p)

LoginNext ==
  \/ \E p \in Clients : Step(p)
  \/ \E t \in Tokens : HostRevoke(t) \/ \E u \in Users, r \in Roles : HostCreate(t, u, r)
  \/ Die
  \/ Tick

LoginSpec == LoginInit /\ [][LoginNext]_loginVars

-----------------------------------------------------------------------------
(* What must hold *)

\* No code, whether it expires, is retired, presented twice or lost with the
\* process, takes away a token that somebody holds: only a request to revoke
\* that very token does (console_login.py, token_owned and used_at).
Asked(t) == HostRevoke(t) \/ \E p \in Clients : RestRevoke(p, t)

HeldTokensKept ==
  [][\A t \in held : ActiveToken(t) /\ tokens'[t].status = "revoked" => Asked(t)]_loginVars

\* A console token that works, that nobody holds and that no code or request
\* still answers for.
AnswersFor(p, t) == ops[p].pc # "idle" /\ ops[p].token = t
Stray(t) ==
  /\ Console(t)
  /\ t \notin held
  /\ \A c \in Codes : codes[c].status = "open" => codes[c].token # t
  /\ \A p \in Clients : ~AnswersFor(p, t)

\* Such a token comes about only by a death, or when the revocation of what was
\* issued in vain fails itself: every other failure on the way of a code takes
\* back what was issued for it (console_login.py, mint and exchange).
StraysHaveACause ==
  [][\A t \in Tokens :
       ~Stray(t) /\ Stray(t)'
       => Die \/ \E p \in Clients : AnswersFor(p, t) /\ RevokeIssued(p)]_loginVars

\* A plaintext stays in memory no longer than its code is open, but for the
\* moment between marking and delivering, and for codes that are overdue.
MemoryForgets ==
  \A c \in pending :
    \/ codes[c].status = "open"
    \/ Expired(c)
    \/ \E p \in Clients : At(p, "marked") /\ ops[p].code = c

=============================================================================
