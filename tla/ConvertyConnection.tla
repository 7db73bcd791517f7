------------------------- MODULE ConvertyConnection -------------------------
(***************************************************************************)
(* The stores of Converty a merchant connects.  Every connect creates a    *)
(* shop and a pending row before the browser leaves for Converty; the      *)
(* callback exchanges the code, fills the row and subscribes the webhooks, *)
(* or takes the row and the shop away again.  Converty rotates the refresh *)
(* token at every use.  Requests run at the same time, each statement and  *)
(* each call a step of its own.                                            *)
(***************************************************************************)
EXTENDS Naturals

CONSTANTS
    MaxConnections,  \* bound: connects
    Stores,          \* stores at Converty
    Requests,        \* requests handled at the same time
    MaxRotations,    \* bound: refresh tokens of a connection
    MaxInputs,       \* bound: requests, events around them, and faults
    MaxFaults        \* bound: calls that fail, requests that die

ASSUME ConvertyAssumption ==
    /\ MaxConnections \in Nat \ {0} /\ MaxRotations \in Nat \ {0}
    /\ MaxInputs \in Nat /\ MaxFaults \in Nat

(* Rows and shops in the order of their creation; 0 stands for none.       *)
Connections == 1 .. MaxConnections
None        == 0

VARIABLES
    shop,          \* the shop each connect creates
    row,           \* converty_integrations
    session,       \* the connection the browser's cookie remembers
    redeemed,      \* authorization codes that are used up
    grant,         \* Converty: the refresh token it accepts next
    rejected,      \* Converty: access tokens it refuses despite their clock
    hook,          \* Converty: who made the store's subscription
    req,           \* what each request has read, and where it is
    inputs, faults

connectionVars == <<shop, row, session, redeemed, grant, rejected,
                    hook, req, inputs, faults>>

-----------------------------------------------------------------------------

Tokens == 0 .. MaxRotations
Refs   == SUBSET {"id", "slug"}

(* refs: which of the store's names the row has; hook: the id it stored.   *)
Row  == [status : {"none", "pending", "connected", "error", "deleted"},
         store : Stores, refs : Refs, token : Tokens, fresh : BOOLEAN,
         active : BOOLEAN, hook : {None} \cup Connections]
Shop == {"none", "placeholder", "named", "deleted"}

Request == [op : {"idle", "callback", "refresh", "test", "delete"},
            pc : {"idle", "exchange", "sync", "complete", "rename", "drop",
                  "cleanup", "delshop", "token", "rotate", "save", "use",
                  "retry", "savehook", "mark", "erase"},
            c : {None} \cup Connections, token : Tokens, refs : Refs,
            hook : {None} \cup Connections, again : BOOLEAN, ok : BOOLEAN]

Idle == [op |-> "idle", pc |-> "idle", c |-> None, token |-> 0, refs |-> {},
         hook |-> None, again |-> FALSE, ok |-> FALSE]

(* A row that is deleted keeps nothing but the number of its store.        *)
Deleted(r) == [r EXCEPT !.status = "deleted", !.refs = {}, !.token = 0,
                        !.fresh = FALSE, !.active = FALSE, !.hook = None]

Exists(c) == row[c].status \notin {"none", "deleted"}
Live(c)   == shop[c] \in {"placeholder", "named"}
At(r, pc) == req[r].pc = pc
GoTo(r, pc) == req' = [req EXCEPT ![r].pc = pc]
Finish(r) == req' = [req EXCEPT ![r] = Idle]

Init ==
    \E s \in Stores :
        /\ row = [c \in Connections |->
                    [status |-> "none", store |-> s, refs |-> {}, token |-> 0,
                     fresh |-> FALSE, active |-> FALSE, hook |-> None]]
        /\ shop = [c \in Connections |-> "none"]
        /\ session = None
        /\ redeemed = {}
        /\ grant = [c \in Connections |-> 0]
        /\ rejected = {}
        /\ hook = [t \in Stores |-> None]
        /\ req = [r \in Requests |-> Idle]
        /\ inputs = 0
        /\ faults = 0

Fault == /\ faults < MaxFaults /\ faults' = faults + 1
         /\ inputs < MaxInputs /\ inputs' = inputs + 1
Smooth == UNCHANGED <<inputs, faults>>

Input == inputs < MaxInputs /\ inputs' = inputs + 1 /\ UNCHANGED faults

-----------------------------------------------------------------------------
(* Connecting.                                                             *)

(* handleConvertyConnect: the shop first, the row only with credentials.   *)
(* The cookie remembers one authorization, the latest.                     *)
Connect(s, credentials) ==
    \E c \in Connections :
        /\ shop[c] = "none"
        /\ \A d \in Connections : d < c => shop[d] # "none"
        /\ shop' = [shop EXCEPT ![c] = "placeholder"]
        /\ IF credentials
           THEN /\ row' = [row EXCEPT ![c].status = "pending", ![c].store = s,
                                      ![c].active = TRUE]
                /\ session' = c
           ELSE UNCHANGED <<row, session>>
        /\ UNCHANGED <<redeemed, grant, rejected, hook, req, inputs, faults>>

(* handleConvertyCallback: the browser comes back from the authorization   *)
(* of d, with a code or without; the session, which the answer clears but  *)
(* a reload sends again, names c.  Without a row for c nothing happens.    *)
Callback(r, d, code) ==
    /\ At(r, "idle")
    /\ session # None /\ row[d].status # "none"
    /\ session' \in {session, None}
    /\ IF Exists(session)
       THEN req' = [req EXCEPT ![r] =
                [Idle EXCEPT !.op = "callback", !.c = session,
                             !.pc = IF d = session /\ code THEN "exchange" ELSE "drop"]]
       ELSE UNCHANGED req
    /\ Input
    /\ UNCHANGED <<shop, row, redeemed, grant, rejected, hook>>

(* ClientCredentials and ExchangeCode: a code is good for one exchange.    *)
Exchange(r) ==
    LET c == req[r].c IN
    /\ At(r, "exchange")
    /\ \/ /\ Exists(c) /\ c \notin redeemed
          /\ redeemed' = redeemed \cup {c}
          /\ grant' = [grant EXCEPT ![c] = 1]
          /\ req' = [req EXCEPT ![r].pc = "sync", ![r].token = 1]
          /\ Smooth
       \/ /\ ~Exists(c) \/ c \in redeemed
          /\ GoTo(r, "drop")
          /\ UNCHANGED <<redeemed, grant, inputs, faults>>
       \/ /\ Fault
          /\ redeemed' \in {redeemed, redeemed \cup {c}}
          /\ GoTo(r, "drop")
          /\ UNCHANGED grant
    /\ UNCHANGED <<shop, row, session, rejected, hook>>

(* GetStore; when it fails the tokens are stored without a store.          *)
SyncStore(r) ==
    /\ At(r, "sync")
    /\ \/ req' = [req EXCEPT ![r].pc = "complete", ![r].refs = {"id", "slug"}]
          /\ Smooth
       \/ GoTo(r, "complete") /\ Fault
    /\ UNCHANGED <<shop, row, session, redeemed, grant, rejected, hook>>

(* CompleteIntegration; a row that is gone ends the request.               *)
CompleteIntegration(r) ==
    LET c == req[r].c IN
    /\ At(r, "complete")
    /\ IF Exists(c)
       THEN /\ row' = [row EXCEPT ![c] =
                    [@ EXCEPT !.status = "connected", !.refs = req[r].refs,
                              !.token = req[r].token, !.fresh = TRUE,
                              !.active = TRUE]]
            /\ GoTo(r, "rename")
       ELSE Finish(r) /\ UNCHANGED row
    /\ UNCHANGED <<shop, session, redeemed, grant, rejected, hook, inputs, faults>>

(* Shops.Update; and what subscribeWebhooks finds stored already.          *)
Rename(r) ==
    LET c == req[r].c IN
    /\ At(r, "rename")
    /\ shop' = [shop EXCEPT ![c] =
                    IF req[r].refs # {} /\ Live(c) THEN "named" ELSE @]
    /\ req' = [req EXCEPT ![r].pc = "token",
                          ![r].hook = IF Exists(c) THEN row[c].hook ELSE None]
    /\ UNCHANGED <<row, session, redeemed, grant, rejected, hook, inputs, faults>>

(* dropPending, whatever the row has become meanwhile.                     *)
DropPending(r) ==
    LET c == req[r].c IN
    /\ At(r, "drop")
    /\ row' = [row EXCEPT ![c] = Deleted(@)]
    /\ GoTo(r, "cleanup")
    /\ UNCHANGED <<shop, session, redeemed, grant, rejected, hook, inputs, faults>>

(* cleanupOrphanShop: CountIntegrations and the shop's name; ...           *)
CountOrphan(r) ==
    LET c == req[r].c IN
    /\ At(r, "cleanup")
    /\ IF ~Exists(c) /\ shop[c] = "placeholder" THEN GoTo(r, "delshop") ELSE Finish(r)
    /\ UNCHANGED <<shop, row, session, redeemed, grant, rejected, hook, inputs, faults>>

(* ... Shops.Delete, which takes the rows of the shop with it.             *)
DeleteShop(r) ==
    LET c == req[r].c IN
    /\ At(r, "delshop")
    /\ shop' = [shop EXCEPT ![c] = "deleted"]
    /\ row' = [row EXCEPT ![c] = Deleted(@)]
    /\ Finish(r)
    /\ UNCHANGED <<session, redeemed, grant, rejected, hook, inputs, faults>>

-----------------------------------------------------------------------------
(* The other requests about a connection.                                  *)

RequestFor(op, c) == [Idle EXCEPT !.op = op, !.c = c]

Refresh(r, c) ==
    /\ At(r, "idle") /\ Exists(c)
    /\ req' = [req EXCEPT ![r] = [RequestFor("refresh", c) EXCEPT
                                    !.pc = "rotate", !.token = row[c].token]]
    /\ Input
    /\ UNCHANGED <<shop, row, session, redeemed, grant, rejected, hook>>

TestConnection(r, c) ==
    /\ At(r, "idle") /\ Exists(c)
    /\ req' = [req EXCEPT ![r] = [RequestFor("test", c) EXCEPT !.pc = "token"]]
    /\ Input
    /\ UNCHANGED <<shop, row, session, redeemed, grant, rejected, hook>>

(* handleIntegrationDelete unsubscribes the hook the row had when it was   *)
(* read.                                                                   *)
Delete(r, c) ==
    /\ At(r, "idle") /\ Exists(c)
    /\ req' = [req EXCEPT ![r] = [RequestFor("delete", c) EXCEPT
                                    !.pc = "token", !.hook = row[c].hook]]
    /\ Input
    /\ UNCHANGED <<shop, row, session, redeemed, grant, rejected, hook>>

SetIntegrationActive(c, active) ==
    /\ Exists(c)
    /\ row' = [row EXCEPT ![c].active = active]
    /\ Input
    /\ UNCHANGED <<shop, session, redeemed, grant, rejected, hook, req>>

(* Where a request goes on when it has no access token.                    *)
WithoutToken(op) ==
    CASE op = "callback" -> "savehook"
      [] op = "test"     -> "mark"
      [] op = "delete"   -> "erase"
      [] OTHER           -> "idle"

NoToken(r) ==
    IF req[r].op = "refresh" THEN Finish(r)
    ELSE req' = [req EXCEPT ![r].pc = WithoutToken(req[r].op), ![r].ok = FALSE]

(* AccessToken: the stored one while its clock runs, a new one otherwise.  *)
AccessToken(r) ==
    LET c == req[r].c IN
    /\ At(r, "token")
    /\ IF ~Exists(c)
       THEN NoToken(r)
       ELSE req' = [req EXCEPT ![r].token = row[c].token,
                               ![r].pc = IF row[c].fresh THEN "use" ELSE "rotate"]
    /\ UNCHANGED <<shop, row, session, redeemed, grant, rejected, hook, inputs, faults>>

(* RefreshToken with the refresh token the request has read: Converty      *)
(* accepts the latest one only, once.  An answer may be lost.              *)
Rotate(r) ==
    LET c == req[r].c
        accepted == Exists(c) /\ req[r].token = grant[c] /\ grant[c] # 0
    IN
    /\ At(r, "rotate")
    /\ \/ /\ accepted /\ grant[c] < MaxRotations
          /\ grant' = [grant EXCEPT ![c] = @ + 1]
          /\ rejected' = rejected \ {c}
          /\ \/ /\ req' = [req EXCEPT ![r].pc = "save", ![r].token = @ + 1]
                /\ Smooth
             \/ NoToken(r) /\ Fault
       \/ /\ ~accepted
          /\ NoToken(r)
          /\ UNCHANGED <<grant, rejected, inputs, faults>>
    /\ UNCHANGED <<shop, row, session, redeemed, hook>>

AfterSave(request) ==
    IF request.op = "refresh" THEN Idle
    ELSE [request EXCEPT !.pc = IF request.again THEN "retry" ELSE "use"]

(* Mutated form: only the access token is stored, and the next refresh     *)
(* uses the refresh token that has been replaced.                          *)
SaveAccessToken(r) ==
    LET c == req[r].c IN
    /\ At(r, "save")
    /\ row' = [row EXCEPT ![c].fresh = TRUE]
    /\ req' = [req EXCEPT ![r] = AfterSave(@)]
    /\ UNCHANGED <<shop, session, redeemed, grant, rejected, hook, inputs, faults>>

(* SaveTokens; no row is not an error.                                     *)
SaveTokens(r) ==
    LET c == req[r].c IN
    /\ At(r, "save")
    /\ \/ /\ row' = IF Exists(c)
                    THEN [row EXCEPT ![c].token = req[r].token, ![c].fresh = TRUE,
                                     ![c].status = "connected"]
                    ELSE row
          /\ req' = [req EXCEPT ![r] = AfterSave(@)]
          /\ Smooth
       \/ NoToken(r) /\ Fault /\ UNCHANGED row
    /\ UNCHANGED <<shop, session, redeemed, grant, rejected, hook>>

-----------------------------------------------------------------------------
(* What the token is for.  An access token Converty has revoked is         *)
(* answered 401, and so may be one of an earlier rotation.                 *)

MayWork(r)   == req[r].c \notin rejected
MayBe401(r)  == req[r].c \in rejected \/ req[r].token # grant[req[r].c]

(* TestConnection: GetStore, which also brings the store's slug.  A 401    *)
(* is retried once with a token rotated from the row as it is now.         *)
TestCall(r) ==
    LET c == req[r].c IN
    /\ req[r].op = "test" /\ req[r].pc \in {"use", "retry"}
    /\ \/ /\ MayWork(r)
          /\ row' = IF Exists(c) THEN [row EXCEPT ![c].refs = @ \cup {"slug"}] ELSE row
          /\ req' = [req EXCEPT ![r].pc = "mark", ![r].ok = TRUE]
          /\ Smooth
       \/ /\ At(r, "use") /\ MayBe401(r) /\ Exists(c)
          /\ req' = [req EXCEPT ![r].pc = "rotate", ![r].again = TRUE,
                                ![r].token = row[c].token]
          /\ UNCHANGED <<row, inputs, faults>>
       \/ /\ MayBe401(r) /\ (At(r, "retry") \/ ~Exists(c))
          /\ GoTo(r, "mark")
          /\ UNCHANGED <<row, inputs, faults>>
       \/ Fault /\ GoTo(r, "mark") /\ UNCHANGED row
    /\ UNCHANGED <<shop, session, redeemed, grant, rejected, hook>>

(* Mutated form: a failed test is recorded under a word of its own.        *)
MarkOffline(r) ==
    LET c == req[r].c IN
    /\ At(r, "mark")
    /\ row' = IF Exists(c)
              THEN [row EXCEPT ![c].status = IF req[r].ok THEN "connected" ELSE "offline"]
              ELSE row
    /\ Finish(r)
    /\ UNCHANGED <<shop, session, redeemed, grant, rejected, hook, inputs, faults>>

(* SetIntegrationStatus.                                                   *)
MarkTested(r) ==
    LET c == req[r].c IN
    /\ At(r, "mark")
    /\ row' = IF Exists(c)
              THEN [row EXCEPT ![c].status = IF req[r].ok THEN "connected" ELSE "error"]
              ELSE row
    /\ Finish(r)
    /\ UNCHANGED <<shop, session, redeemed, grant, rejected, hook, inputs, faults>>

(* subscribeWebhooks: a subscription that exists is answered 409, and its  *)
(* id is taken from the list of the store's hooks.                         *)
Subscribe(r) ==
    LET c == req[r].c
        s == row[c].store
    IN
    /\ req[r].op = "callback" /\ At(r, "use")
    /\ \/ /\ MayWork(r)
          /\ hook' = [hook EXCEPT ![s] = IF @ = None THEN c ELSE @]
          /\ req' = [req EXCEPT ![r].pc = "savehook", ![r].hook = hook'[s]]
          /\ Smooth
       \/ /\ MayBe401(r)
          /\ GoTo(r, "savehook")
          /\ UNCHANGED <<hook, inputs, faults>>
       \/ Fault /\ GoTo(r, "savehook") /\ UNCHANGED hook
    /\ UNCHANGED <<shop, row, session, redeemed, grant, rejected>>

SaveWebhookSubscriptions(r) ==
    LET c == req[r].c IN
    /\ At(r, "savehook")
    /\ row' = IF Exists(c) THEN [row EXCEPT ![c].hook = req[r].hook] ELSE row
    /\ Finish(r)
    /\ UNCHANGED <<shop, session, redeemed, grant, rejected, hook, inputs, faults>>

(* UnsubscribeHook; a refusal is logged.                                   *)
Unsubscribe(r) ==
    LET s == row[req[r].c].store IN
    /\ req[r].op = "delete" /\ At(r, "use")
    /\ GoTo(r, "erase")
    /\ \/ /\ MayWork(r)
          /\ hook' = [hook EXCEPT ![s] = IF @ = req[r].hook THEN None ELSE @]
          /\ Smooth
       \/ MayBe401(r) /\ UNCHANGED <<hook, inputs, faults>>
       \/ Fault /\ UNCHANGED hook
    /\ UNCHANGED <<shop, row, session, redeemed, grant, rejected>>

(* DeleteIntegration; the shop stays.                                      *)
DeleteIntegration(r) ==
    LET c == req[r].c IN
    /\ At(r, "erase")
    /\ row' = [row EXCEPT ![c] = Deleted(@)]
    /\ Finish(r)
    /\ UNCHANGED <<shop, session, redeemed, grant, rejected, hook, inputs, faults>>

-----------------------------------------------------------------------------
(* The world around: clocks, Converty, requests that die.                  *)

Expire(c) ==
    /\ Exists(c) /\ row[c].fresh
    /\ row' = [row EXCEPT ![c].fresh = FALSE]
    /\ Input
    /\ UNCHANGED <<shop, session, redeemed, grant, rejected, hook, req>>

Revoke(c) ==
    /\ grant[c] # 0 /\ c \notin rejected
    /\ rejected' = rejected \cup {c}
    /\ Input
    /\ UNCHANGED <<shop, row, session, redeemed, grant, hook, req>>

Die(r) ==
    /\ ~At(r, "idle") /\ Fault
    /\ Finish(r)
    /\ UNCHANGED <<shop, row, session, redeemed, grant, rejected, hook>>

RequestStep(r) ==
    \/ Exchange(r) \/ SyncStore(r) \/ CompleteIntegration(r) \/ Rename(r)
    \/ DropPending(r) \/ CountOrphan(r) \/ DeleteShop(r)
    \/ AccessToken(r) \/ Rotate(r) \/ SaveTokens(r)
    \/ TestCall(r) \/ MarkTested(r)
    \/ Subscribe(r) \/ SaveWebhookSubscriptions(r)
    \/ Unsubscribe(r) \/ DeleteIntegration(r)
    \/ Die(r)

Operator ==
    \/ \E s \in Stores, credentials \in BOOLEAN : Connect(s, credentials)
    \/ \E r \in Requests, d \in Connections, code \in BOOLEAN : Callback(r, d, code)
    \/ \E r \in Requests, c \in Connections :
          Refresh(r, c) \/ TestConnection(r, c) \/ Delete(r, c)
    \/ \E c \in Connections, active \in BOOLEAN : SetIntegrationActive(c, active)

Next ==
    \/ Operator
    \/ \E r \in Requests : RequestStep(r)
    \/ \E c \in Connections : Expire(c) \/ Revoke(c)

-----------------------------------------------------------------------------

(* The shape of the tables and of the requests' memory.                    *)
ConnectionTypeOK ==
    /\ shop \in [Connections -> Shop]
    /\ row \in [Connections -> Row]
    /\ session \in {None} \cup Connections
    /\ redeemed \subseteq Connections
    /\ grant \in [Connections -> Tokens]
    /\ rejected \subseteq Connections
    /\ hook \in [Stores -> {None} \cup Connections]
    /\ req \in [Requests -> Request]
    /\ inputs \in 0 .. MaxInputs
    /\ faults \in 0 .. MaxFaults

(* A request that carries Converty's latest token to the row.              *)
Carries(r, c) ==
    /\ req[r].c = c /\ req[r].token = grant[c]
    /\ req[r].pc \in {"sync", "complete", "save"}

(* Converty accepts a refresh token once, so a row that holds an old one   *)
(* is disconnected for good.  However many requests refresh at once, the   *)
(* row of a connection holds the latest token or a request is about to     *)
(* store it, unless a fault has lost an answer.                            *)
TokenChainKept ==
    \A c \in Connections :
        faults = 0 /\ Exists(c) /\ grant[c] # 0
          => row[c].token = grant[c] \/ \E r \in Requests : Carries(r, c)

-----------------------------------------------------------------------------
(* Promises of comments which the code does not keep.                      *)

(* The placeholder shop is removed "when the authorization was abandoned   *)
(* before any store attached to it".                                       *)
OnlyOrphansRemoved ==
    [][\A c \in Connections :
          shop'[c] = "deleted" /\ shop[c] # "deleted" => grant[c] = 0]_connectionVars

=============================================================================
