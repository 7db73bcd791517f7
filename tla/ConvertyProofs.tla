--------------------------- MODULE ConvertyProofs ---------------------------
(***************************************************************************)
(* The refresh tokens of Converty, for any number of connections, requests *)
(* and rotations: whoever refreshes at the same time, no latest token is   *)
(* left in a request's memory to be forgotten there.                       *)
(*                                                                         *)
(* And the events that come in beside them, for any number of bodies and   *)
(* deliveries: each is handed once, to the shop it is stored under.        *)
(***************************************************************************)
EXTENDS EventIntake, TLAPS

Carrying == {"sync", "complete", "save"}

(* What the steps need of the shape of the variables.                      *)
TablesOK ==
    /\ shop \in [Connections -> Shop]
    /\ row \in [Connections -> Row]
    /\ session \in {None} \cup Connections
    /\ grant \in [Connections -> Tokens]
    /\ hook \in [Stores -> {None} \cup Connections]
    /\ faults \in Nat

ShapeOK == TablesOK /\ req \in [Requests -> Request]

(* Nothing is known of a connection nobody has made, and Converty grants   *)
(* nothing before the code is redeemed.                                    *)
GrantsAreEarned ==
    \A c \in Connections :
        /\ shop[c] = "none" => ~Exists(c) /\ grant[c] = 0
        /\ c \notin redeemed => grant[c] = 0

(* Nobody has a token Converty has not issued yet.                         *)
TokensAreIssued ==
    /\ \A c \in Connections : row[c].token <= grant[c]
    /\ \A r \in Requests : ~At(r, "idle") =>
          req[r].c \in Connections /\ req[r].token <= grant[req[r].c]

(* A request that carries a token to the row carries the latest one; it is *)
(* alone with it, so that nobody can rotate it before it is stored.        *)
OneCarrier ==
    \A r \in Requests : req[r].pc \in Carrying =>
        /\ grant[req[r].c] # 0
        /\ req[r].token = grant[req[r].c]
        /\ row[req[r].c].token < grant[req[r].c]
        /\ \A q \in Requests : q # r /\ req[q].c = req[r].c =>
              /\ req[q].pc \notin Carrying
              /\ At(q, "rotate") => req[q].token < grant[req[r].c]

ChainInv ==
    ShapeOK /\ GrantsAreEarned /\ TokensAreIssued /\ OneCarrier /\ TokenChainKept

-----------------------------------------------------------------------------
(* The steps that rotate nothing and store no token.                       *)

RowsQuiet ==
    /\ grant' = grant /\ redeemed \subseteq redeemed'
    /\ faults' >= faults
    /\ \A c \in Connections :
          /\ row'[c].token = row[c].token \/ (row'[c].token = 0 /\ ~Exists(c)')
          /\ Exists(c)' => Exists(c) \/ (shop[c] = "none" /\ shop'[c] # "none")
          /\ shop'[c] = "none" => shop[c] = "none"

(* A request takes its token from the row or keeps the one it has; it lets *)
(* go of one only for a fault, or when there is no row to store it in.     *)
LetsGo(r, next) ==
    /\ next.pc \notin Carrying
    /\ req[r].pc \in Carrying =>
          faults' > faults \/ \A c \in Connections : req[r].c = c => ~Exists(c)'
    /\ next.pc # "idle" =>
          /\ next.c \in Connections
          /\ \/ next.token \in {0, row[next.c].token}
             \/ ~At(r, "idle") /\ next.token = req[r].token /\ next.c = req[r].c
    /\ next.pc = "rotate" => next.token = row[next.c].token

CarriesOn(r, next) ==
    /\ req[r].pc = "sync" /\ next.pc = "complete"
    /\ next.c = req[r].c /\ next.token = req[r].token

Moves(r, next) == next = req[r] \/ LetsGo(r, next) \/ CarriesOn(r, next)

Quiet == RowsQuiet /\ \A r \in Requests : Moves(r, req'[r])

LEMMA QuietKeepsChain ==
    ASSUME ChainInv, ShapeOK', Quiet
    PROVE  ChainInv'
<1> USE DEF ChainInv
<1>1. /\ \A c \in Connections : grant[c] \in Nat /\ row[c].token \in Nat /\ row'[c].token \in Nat
      /\ \A r \in Requests : req[r].token \in Nat /\ req'[r].token \in Nat
      /\ faults \in Nat /\ faults' \in Nat
  BY DEF ShapeOK, TablesOK, Row, Request, Tokens
<1>2. GrantsAreEarned'
  BY DEF GrantsAreEarned, Quiet, RowsQuiet
<1>3. TokensAreIssued'
  <2>1. \A c \in Connections : row'[c].token <= grant[c]
    BY <1>1 DEF TokensAreIssued, Quiet, RowsQuiet
  <2>2. ASSUME NEW r \in Requests, req'[r].pc # "idle"
        PROVE  req'[r].c \in Connections /\ req'[r].token <= grant[req'[r].c]
    BY <1>1, <2>2 DEF TokensAreIssued, Quiet, Moves, LetsGo, CarriesOn, At
  <2> QED
    BY <2>1, <2>2 DEF TokensAreIssued, Quiet, RowsQuiet, At
<1>4. OneCarrier'
  <2> SUFFICES ASSUME NEW r \in Requests, req'[r].pc \in Carrying
               PROVE  /\ grant[req'[r].c] # 0
                      /\ req'[r].token = grant[req'[r].c]
                      /\ row'[req'[r].c].token < grant[req'[r].c]
                      /\ \A q \in Requests : q # r /\ req'[q].c = req'[r].c =>
                            /\ req'[q].pc \notin Carrying
                            /\ req'[q].pc = "rotate" => req'[q].token < grant[req'[r].c]
    BY DEF OneCarrier, Quiet, RowsQuiet, At
  <2>1. /\ req[r].pc \in Carrying /\ req'[r].c = req[r].c /\ req'[r].token = req[r].token
        /\ req[r].c \in Connections
    BY DEF Quiet, Moves, LetsGo, CarriesOn, Carrying, TokensAreIssued, At
  <2>2. row'[req[r].c].token < grant[req[r].c]
    BY <1>1, <2>1 DEF OneCarrier, Quiet, RowsQuiet
  <2>3. ASSUME NEW q \in Requests, q # r, req'[q].c = req[r].c
        PROVE  /\ req'[q].pc \notin Carrying
               /\ req'[q].pc = "rotate" => req'[q].token < grant[req[r].c]
    BY <2>1, <2>3 DEF OneCarrier, Quiet, Moves, LetsGo, CarriesOn, Carrying, At
  <2> QED
    BY <2>1, <2>2, <2>3 DEF OneCarrier
<1>5. TokenChainKept'
  <2> SUFFICES ASSUME NEW c \in Connections, faults' = 0, Exists(c)', grant[c] # 0
               PROVE  row'[c].token = grant[c] \/ \E r \in Requests : Carries(r, c)'
    BY DEF TokenChainKept, Quiet, RowsQuiet
  <2>1. faults = 0 /\ Exists(c) /\ row'[c].token = row[c].token
    BY <1>1 DEF Quiet, RowsQuiet, GrantsAreEarned
  <2>2. row[c].token = grant[c] \/ \E r \in Requests : Carries(r, c)
    BY <2>1 DEF TokenChainKept
  <2>3. ASSUME NEW r \in Requests, Carries(r, c) PROVE Carries(r, c)'
    BY <1>1, <2>1, <2>3 DEF Carries, Carrying, Quiet, RowsQuiet, Moves, LetsGo, CarriesOn
  <2> QED
    BY <2>1, <2>2, <2>3
<1> QED
  BY <1>2, <1>3, <1>4, <1>5

-----------------------------------------------------------------------------
(* The steps that do.                                                      *)

(* A new token is granted to a request, when nobody carries the old one.   *)
LEMMA GrantKeepsChain ==
    ASSUME ChainInv, ShapeOK', NEW r \in Requests, NEW c \in Connections,
           req[r].c = c, ~At(r, "idle"), Exists(c), UNCHANGED <<row, shop>>,
           grant' = [grant EXCEPT ![c] = @ + 1],
           redeemed' \in {redeemed, redeemed \cup {c}}, c \in redeemed',
           \A q \in Requests : req[q].c = c => req[q].pc \notin Carrying,
           \A q \in Requests \ {r} : req'[q] = req[q],
           req'[r].pc = "idle" \/ (req'[r].c = c /\ req'[r].token <= grant'[c]),
           req'[r].pc # "rotate",
           req'[r].pc \in Carrying => req'[r].token = grant'[c] /\ faults' >= faults,
           req'[r].pc \notin Carrying => faults' > 0
    PROVE  ChainInv'
<1> USE DEF ChainInv
<1>1. /\ \A d \in Connections : grant[d] \in Nat /\ row[d].token \in Nat
      /\ \A q \in Requests : req[q].token \in Nat /\ req'[q].token \in Nat
      /\ faults \in Nat /\ faults' \in Nat
  BY DEF ShapeOK, TablesOK, Row, Request, Tokens
<1>2. /\ grant'[c] = grant[c] + 1
      /\ \A d \in Connections \ {c} : grant'[d] = grant[d]
      /\ grant' \in [Connections -> Tokens]
  BY DEF ShapeOK, TablesOK
<1>3. GrantsAreEarned'
  BY <1>2 DEF GrantsAreEarned, Exists
<1>4. TokensAreIssued'
  <2>1. \A d \in Connections : row[d].token <= grant'[d]
    BY <1>1, <1>2 DEF TokensAreIssued
  <2>2. ASSUME NEW q \in Requests, req'[q].pc # "idle"
        PROVE  req'[q].c \in Connections /\ req'[q].token <= grant'[req'[q].c]
    BY <1>1, <1>2, <2>2 DEF TokensAreIssued, At
  <2> QED
    BY <2>1, <2>2 DEF TokensAreIssued, At
<1>5. OneCarrier'
  <2> SUFFICES ASSUME NEW p \in Requests, req'[p].pc \in Carrying
               PROVE  /\ grant'[req'[p].c] # 0
                      /\ req'[p].token = grant'[req'[p].c]
                      /\ row[req'[p].c].token < grant'[req'[p].c]
                      /\ \A q \in Requests : q # p /\ req'[q].c = req'[p].c =>
                            /\ req'[q].pc \notin Carrying
                            /\ req'[q].pc = "rotate" => req'[q].token < grant'[req'[p].c]
    BY DEF OneCarrier, At
  <2>1. CASE p = r
    <3>1. req'[r].c = c /\ req'[r].token = grant'[c]
      BY <2>1 DEF Carrying
    <3>2. row[c].token <= grant[c]
      BY DEF TokensAreIssued
    <3>3. \A q \in Requests : q # r /\ req'[q].c = c =>
              req'[q].pc \notin Carrying /\ (req'[q].pc = "rotate" => req[q].token <= grant[c])
      BY DEF TokensAreIssued, At
    <3> QED
      BY <1>1, <1>2, <2>1, <3>1, <3>2, <3>3
  <2>2. CASE p # r
    <3>1. req'[p] = req[p] /\ req[p].c \in Connections \ {c} /\ req[p].pc \in Carrying
      BY <2>2 DEF TokensAreIssued, Carrying, At
    <3>2. ASSUME NEW q \in Requests, q # p, req'[q].c = req[p].c
          PROVE  /\ req'[q].pc \notin Carrying
                 /\ req'[q].pc = "rotate" => req'[q].token < grant[req[p].c]
      <4>1. CASE q = r
        BY <3>1, <3>2, <4>1 DEF Carrying
      <4>2. CASE q # r
        BY <3>1, <3>2, <4>2 DEF OneCarrier, At
      <4> QED
        BY <4>1, <4>2
    <3> QED
      BY <1>2, <3>1, <3>2 DEF OneCarrier
  <2> QED
    BY <2>1, <2>2
<1>6. TokenChainKept'
  <2> SUFFICES ASSUME NEW d \in Connections, faults' = 0, Exists(d)', grant'[d] # 0
               PROVE  row[d].token = grant'[d] \/ \E q \in Requests : Carries(q, d)'
    BY DEF TokenChainKept
  <2>1. req'[r].pc \in Carrying /\ faults = 0
    BY <1>1
  <2>2. CASE d = c
    <3>1. Carries(r, c)'
      BY <2>1 DEF Carries, Carrying
    <3> QED
      BY <2>2, <3>1
  <2>3. CASE d # c
    <3>1. row[d].token = grant[d] \/ \E q \in Requests : Carries(q, d)
      BY <1>2, <2>1, <2>3 DEF TokenChainKept, Exists
    <3>2. ASSUME NEW q \in Requests, Carries(q, d) PROVE Carries(q, d)'
      BY <1>2, <2>3, <3>2 DEF Carries
    <3> QED
      BY <1>2, <2>3, <3>1, <3>2
  <2> QED
    BY <2>2, <2>3
<1> QED
  BY <1>3, <1>4, <1>5, <1>6

(* A request stores the token it carries.                                  *)
LEMMA StoreKeepsChain ==
    ASSUME ChainInv, ShapeOK', NEW r \in Requests, NEW c \in Connections,
           req[r].c = c, req[r].pc \in Carrying, Exists(c),
           UNCHANGED <<shop, grant, redeemed, faults>>,
           row'[c].token = req[r].token, \A d \in Connections \ {c} : row'[d] = row[d],
           \A q \in Requests \ {r} : req'[q] = req[q],
           req'[r].pc \notin Carrying \cup {"rotate"},
           req'[r].pc = "idle" \/ (req'[r].c = c /\ req'[r].token = req[r].token)
    PROVE  ChainInv'
<1> USE DEF ChainInv
<1>1. \A d \in Connections : grant[d] \in Nat /\ row[d].token \in Nat
  BY DEF ShapeOK, TablesOK, Row, Tokens
<1>2. /\ req[r].token = grant[c] /\ grant[c] # 0
      /\ \A q \in Requests \ {r} : req[q].c = c => req[q].pc \notin Carrying
  BY DEF OneCarrier
<1>3. GrantsAreEarned'
  BY DEF GrantsAreEarned, Exists
<1>4. TokensAreIssued'
  BY <1>1, <1>2 DEF TokensAreIssued, At, Carrying
<1>5. OneCarrier'
  <2> SUFFICES ASSUME NEW p \in Requests, req'[p].pc \in Carrying
               PROVE  /\ grant[req'[p].c] # 0
                      /\ req'[p].token = grant[req'[p].c]
                      /\ row'[req'[p].c].token < grant[req'[p].c]
                      /\ \A q \in Requests : q # p /\ req'[q].c = req'[p].c =>
                            /\ req'[q].pc \notin Carrying
                            /\ req'[q].pc = "rotate" => req'[q].token < grant[req'[p].c]
    BY DEF OneCarrier, At
  <2>1. p # r /\ req'[p] = req[p] /\ req[p].c \in Connections \ {c}
    BY <1>2 DEF TokensAreIssued, Carrying, At
  <2>2. ASSUME NEW q \in Requests, q # p, req'[q].c = req[p].c
        PROVE  /\ req'[q].pc \notin Carrying
               /\ req'[q].pc = "rotate" => req'[q].token < grant[req[p].c]
    BY <2>1, <2>2 DEF OneCarrier, At
  <2> QED
    BY <2>1, <2>2 DEF OneCarrier
<1>6. TokenChainKept'
  <2> SUFFICES ASSUME NEW d \in Connections, faults = 0, Exists(d)', grant[d] # 0
               PROVE  row'[d].token = grant[d] \/ \E q \in Requests : Carries(q, d)'
    BY DEF TokenChainKept
  <2>1. CASE d = c
    BY <1>2, <2>1
  <2>2. CASE d # c
    <3>1. row[d].token = grant[d] \/ \E q \in Requests : Carries(q, d)
      BY <2>2 DEF TokenChainKept, Exists
    <3>2. ASSUME NEW q \in Requests, Carries(q, d) PROVE Carries(q, d)'
      BY <2>2, <3>2 DEF Carries
    <3> QED
      BY <2>2, <3>1, <3>2
  <2> QED
    BY <2>1, <2>2
<1> QED
  BY <1>3, <1>4, <1>5, <1>6

-----------------------------------------------------------------------------
(* Every action is one of these.                                           *)

LEMMA IdleIsRequest == Idle \in Request /\ Idle.pc = "idle" /\ Idle.pc \notin Carrying
BY ConvertyAssumption DEF Idle, Request, Refs, Tokens, Carrying

(* The connection a request is about.                                      *)
LEMMA AtWork ==
    ASSUME ChainInv, NEW r \in Requests, ~At(r, "idle")
    PROVE  req[r].c \in Connections /\ req[r] \in Request /\ row[req[r].c] \in Row
BY DEF ChainInv, TokensAreIssued, ShapeOK, TablesOK

LEMMA EmptiedIsRow ==
    ASSUME NEW x \in Row, NEW refs \in Refs, NEW token \in Tokens
    PROVE  [x EXCEPT !.status = "deleted", !.refs = refs, !.token = token,
                     !.fresh = FALSE, !.active = FALSE, !.hook = None] \in Row
BY DEF Row

LEMMA DeletedIsRow ==
    ASSUME NEW x \in Row
    PROVE  Deleted(x) \in Row /\ Deleted(x).token = 0 /\ Deleted(x).status = "deleted"
<1>1. 0 \in Tokens /\ {} \in Refs
  BY ConvertyAssumption DEF Refs, Tokens
<1>2. Deleted(x) \in Row
  BY <1>1, EmptiedIsRow DEF Deleted
<1>3. Deleted(x).token = 0 /\ Deleted(x).status = "deleted"
  BY DEF Deleted, Row
<1> QED
  BY <1>2, <1>3

LEMMA RequestForIsRequest ==
    ASSUME NEW c \in Connections, NEW op \in {"callback", "refresh", "test", "delete"}
    PROVE  /\ RequestFor(op, c) \in Request
           /\ RequestFor(op, c).c = c /\ RequestFor(op, c).token = 0
BY IdleIsRequest DEF RequestFor, Request, Idle

(* A step of one request, or of none, which is quiet.                      *)
LEMMA OneMoves ==
    ASSUME ChainInv, TablesOK', RowsQuiet, NEW r \in Requests, NEW next \in Request,
           req' = [req EXCEPT ![r] = next], Moves(r, next)
    PROVE  ChainInv'
<1>1. ShapeOK'
  BY DEF ChainInv, ShapeOK
<1>2. \A q \in Requests : Moves(q, req'[q])
  <2>1. ASSUME NEW q \in Requests PROVE Moves(q, req'[q])
    <3>1. CASE q = r
      BY <3>1 DEF ChainInv, ShapeOK
    <3>2. CASE q # r
      BY <3>2 DEF ChainInv, ShapeOK, Moves
    <3> QED
      BY <3>1, <3>2
  <2> QED
    BY <2>1
<1> QED
  BY <1>1, <1>2, QuietKeepsChain DEF Quiet

LEMMA NoneMoves ==
    ASSUME ChainInv, TablesOK', RowsQuiet, req' = req
    PROVE  ChainInv'
<1>1. ShapeOK' /\ \A r \in Requests : Moves(r, req'[r])
  BY DEF ChainInv, ShapeOK, Moves
<1> QED
  BY <1>1, QuietKeepsChain DEF Quiet

(* The tables are all there is, when no statement writes.                  *)
LEMMA ReadsOnly ==
    ASSUME ChainInv, UNCHANGED <<shop, row, grant>>, redeemed \subseteq redeemed',
           session' \in {session, None}, hook' \in [Stores -> {None} \cup Connections],
           faults' \in {faults, faults + 1}
    PROVE  TablesOK' /\ RowsQuiet
BY DEF ChainInv, ShapeOK, TablesOK, RowsQuiet, Exists

(* A statement writes a row, which keeps its token or loses it with the    *)
(* connection.                                                             *)
LEMMA WritesRow ==
    ASSUME ChainInv, UNCHANGED <<session, grant, redeemed, hook>>,
           NEW c \in Connections, NEW x \in Row, row' = [row EXCEPT ![c] = x],
           shop' = shop \/ shop' = [shop EXCEPT ![c] = "deleted"],
           x.token = row[c].token \/ (x.token = 0 /\ x.status = "deleted"),
           x.status \in {"none", "deleted"} \/ Exists(c),
           faults' \in {faults, faults + 1}
    PROVE  TablesOK' /\ RowsQuiet
<1>1. TablesOK'
  BY DEF ChainInv, ShapeOK, TablesOK, Shop
<1>2. faults' >= faults /\ redeemed \subseteq redeemed' /\ grant' = grant
  BY DEF ChainInv, ShapeOK, TablesOK
<1>3. /\ row'[c] = x /\ \A d \in Connections \ {c} : row'[d] = row[d]
      /\ \A d \in Connections : shop'[d] = "none" => shop[d] = "none"
  BY DEF ChainInv, ShapeOK, TablesOK
<1> QED
  BY <1>1, <1>2, <1>3 DEF RowsQuiet, Exists

-----------------------------------------------------------------------------

LEMMA OperatorStep ==
    ASSUME ChainInv, Operator
    PROVE  ChainInv'
<1>1. ASSUME NEW s \in Stores, NEW credentials \in BOOLEAN, Connect(s, credentials)
      PROVE  ChainInv'
  <2>1. TablesOK'
    BY <1>1 DEF Connect, ChainInv, ShapeOK, TablesOK, Row, Shop
  <2>2. RowsQuiet /\ req' = req
    BY <1>1 DEF Connect, RowsQuiet, Exists, ChainInv, ShapeOK, TablesOK, Row, Shop
  <2> QED
    BY <2>1, <2>2, NoneMoves
<1>2. ASSUME NEW r \in Requests, NEW d \in Connections, NEW code \in BOOLEAN,
             Callback(r, d, code)
      PROVE  ChainInv'
  <2>1. TablesOK' /\ RowsQuiet
    BY <1>2, ReadsOnly DEF Callback, Input, ChainInv, ShapeOK, TablesOK
  <2>2. CASE req' = req
    BY <2>1, <2>2, NoneMoves
  <2>3. CASE ~(req' = req)
    <3> DEFINE next(pc) == [op |-> "callback", pc |-> pc, c |-> session, token |-> 0,
                            refs |-> {}, hook |-> None, again |-> FALSE, ok |-> FALSE]
    <3>1. PICK pc \in {"exchange", "drop"} : req' = [req EXCEPT ![r] = next(pc)]
      BY <1>2, <2>3 DEF Callback, Idle
    <3>2. session \in Connections /\ next(pc) \in Request /\ next(pc).c = session
          /\ next(pc).token = 0 /\ next(pc).pc = pc
      BY <1>2, IdleIsRequest DEF Callback, ChainInv, ShapeOK, TablesOK, Request, Idle
    <3>3. Moves(r, next(pc))
      BY <1>2, <3>2 DEF Callback, At, Moves, LetsGo, Carrying
    <3> HIDE DEF next
    <3> QED
      BY <2>1, <3>1, <3>2, <3>3, OneMoves
  <2> QED
    BY <2>2, <2>3
<1>3. ASSUME NEW r \in Requests, NEW c \in Connections,
             Refresh(r, c) \/ TestConnection(r, c) \/ Delete(r, c)
      PROVE  ChainInv'
  <2>1. row[c] \in Row /\ At(r, "idle")
    BY <1>3 DEF ChainInv, ShapeOK, TablesOK, Refresh, TestConnection, Delete
  <2>2. TablesOK' /\ RowsQuiet
    BY <1>3, ReadsOnly DEF Refresh, TestConnection, Delete, Input, ChainInv, ShapeOK, TablesOK
  <2>3. CASE Refresh(r, c)
    <3> DEFINE first == RequestFor("refresh", c)
               next == [first EXCEPT !.pc = "rotate", !.token = row[c].token]
    <3>1. req' = [req EXCEPT ![r] = next]
      BY <2>3 DEF Refresh
    <3>2. first \in Request /\ first.c = c /\ first.token = 0
      BY RequestForIsRequest
    <3> HIDE DEF first
    <3>3. /\ next \in Request /\ next.c = c
          /\ next.token = row[c].token /\ next.pc = "rotate"
      BY <2>1, <3>2 DEF Request, Row
    <3>4. Moves(r, next)
      BY <2>1, <3>3 DEF Moves, LetsGo, Carrying, At
    <3> HIDE DEF next
    <3> QED
      BY <2>2, <3>1, <3>3, <3>4, OneMoves
  <2>4. CASE TestConnection(r, c)
    <3> DEFINE first == RequestFor("test", c)
               next == [first EXCEPT !.pc = "token"]
    <3>1. req' = [req EXCEPT ![r] = next]
      BY <2>4 DEF TestConnection
    <3>2. first \in Request /\ first.c = c /\ first.token = 0
      BY RequestForIsRequest
    <3> HIDE DEF first
    <3>3. /\ next \in Request /\ next.c = c
          /\ next.token = 0 /\ next.pc = "token"
      BY <2>1, <3>2 DEF Request, Row
    <3>4. Moves(r, next)
      BY <2>1, <3>3 DEF Moves, LetsGo, Carrying, At
    <3> HIDE DEF next
    <3> QED
      BY <2>2, <3>1, <3>3, <3>4, OneMoves
  <2>5. CASE Delete(r, c)
    <3> DEFINE first == RequestFor("delete", c)
               next == [first EXCEPT !.pc = "token", !.hook = row[c].hook]
    <3>1. req' = [req EXCEPT ![r] = next]
      BY <2>5 DEF Delete
    <3>2. first \in Request /\ first.c = c /\ first.token = 0
      BY RequestForIsRequest
    <3> HIDE DEF first
    <3>3. /\ next \in Request /\ next.c = c
          /\ next.token = 0 /\ next.pc = "token"
      BY <2>1, <3>2 DEF Request, Row
    <3>4. Moves(r, next)
      BY <2>1, <3>3 DEF Moves, LetsGo, Carrying, At
    <3> HIDE DEF next
    <3> QED
      BY <2>2, <3>1, <3>3, <3>4, OneMoves
  <2> QED
    BY <1>3, <2>3, <2>4, <2>5
<1>4. ASSUME NEW c \in Connections, NEW active \in BOOLEAN, SetIntegrationActive(c, active)
      PROVE  ChainInv'
  <2>1. row' = [row EXCEPT ![c] = [row[c] EXCEPT !.active = active]] /\ req' = req
    BY <1>4 DEF SetIntegrationActive
  <2>2. /\ [row[c] EXCEPT !.active = active] \in Row
        /\ [row[c] EXCEPT !.active = active].token = row[c].token
    BY DEF ChainInv, ShapeOK, TablesOK, Row
  <2>3. TablesOK' /\ RowsQuiet
    BY <1>4, <2>1, <2>2, WritesRow DEF SetIntegrationActive, Input
  <2> QED
    BY <2>1, <2>3, NoneMoves
<1> QED
  BY <1>1, <1>2, <1>3, <1>4 DEF Operator

LEMMA WorldStep ==
    ASSUME ChainInv, NEW c \in Connections, Expire(c) \/ Revoke(c)
    PROVE  ChainInv'
<1>1. CASE Expire(c)
  <2>0. row[c] \in Row
    BY DEF ChainInv, ShapeOK, TablesOK
  <2>1. row' = [row EXCEPT ![c] = [row[c] EXCEPT !.fresh = FALSE]] /\ req' = req
    BY <1>1 DEF Expire
  <2>2. /\ [row[c] EXCEPT !.fresh = FALSE] \in Row
        /\ [row[c] EXCEPT !.fresh = FALSE].token = row[c].token
        /\ [row[c] EXCEPT !.fresh = FALSE].status = row[c].status
    BY <2>0 DEF Row
  <2>3. TablesOK' /\ RowsQuiet
    BY <1>1, <2>1, <2>2, WritesRow DEF Expire, Input
  <2> QED
    BY <2>1, <2>3, NoneMoves
<1>2. CASE Revoke(c)
  <2>1. TablesOK' /\ RowsQuiet /\ req' = req
    <3>1. hook \in [Stores -> {None} \cup Connections]
      BY DEF ChainInv, ShapeOK, TablesOK
    <3> QED
      BY <1>2, <3>1, ReadsOnly DEF Revoke, Input
  <2> QED
    BY <2>1, NoneMoves
<1> QED
  BY <1>1, <1>2

-----------------------------------------------------------------------------

(* A request goes on with the token it has, or ends.                       *)
LEMMA GoesOn ==
    ASSUME ChainInv, TablesOK', RowsQuiet, NEW r \in Requests, NEW next \in Request,
           req' = [req EXCEPT ![r] = next], ~At(r, "idle"),
           next.pc = "idle" \/ (next.c = req[r].c /\ next.token = req[r].token),
           next.pc \notin Carrying, next.pc # "rotate",
           req[r].pc \in Carrying =>
              faults' > faults \/ \A c \in Connections : req[r].c = c => ~Exists(c)'
    PROVE  ChainInv'
<1>1. Moves(r, next)
  BY AtWork DEF Moves, LetsGo
<1> QED
  BY <1>1, OneMoves

LEMMA Finishes ==
    ASSUME ChainInv, TablesOK', RowsQuiet, NEW r \in Requests, Finish(r), ~At(r, "idle"),
           req[r].pc \in Carrying =>
              faults' > faults \/ \A c \in Connections : req[r].c = c => ~Exists(c)'
    PROVE  ChainInv'
BY IdleIsRequest, GoesOn DEF Finish, Carrying

LEMMA GoesTo ==
    ASSUME ChainInv, TablesOK', RowsQuiet, NEW r \in Requests,
           NEW pc \in {"rename", "drop", "cleanup", "delshop", "token", "use", "retry",
                       "savehook", "mark", "erase"},
           GoTo(r, pc), ~At(r, "idle"), req[r].pc \notin Carrying
    PROVE  ChainInv'
<1> DEFINE next == [req[r] EXCEPT !.pc = pc]
<1>1. req[r] \in Request
  BY AtWork
<1>2. /\ next \in Request /\ next.c = req[r].c /\ next.token = req[r].token /\ next.pc = pc
  BY <1>1 DEF Request
<1>3. req' = [req EXCEPT ![r] = next]
  BY DEF GoTo
<1> HIDE DEF next
<1> QED
  BY <1>2, <1>3, GoesOn DEF Carrying

(* What happens to a request without a token.                              *)
LEMMA NoTokenRecord ==
    ASSUME ChainInv, NEW r \in Requests, NoToken(r), ~At(r, "idle")
    PROVE  \E next \in Request :
              /\ req' = [req EXCEPT ![r] = next]
              /\ next.pc = "idle" \/ (next.c = req[r].c /\ next.token = req[r].token)
              /\ next.pc \notin Carrying /\ next.pc # "rotate"
<1>1. req[r] \in Request
  BY AtWork
<1>2. CASE req[r].op = "refresh"
  BY <1>2, IdleIsRequest DEF NoToken, Finish
<1>3. CASE req[r].op # "refresh"
  <2> DEFINE pc == WithoutToken(req[r].op)
             next == [req[r] EXCEPT !.pc = pc, !.ok = FALSE]
  <2>1. pc \in {"savehook", "mark", "erase", "idle"}
    BY DEF WithoutToken
  <2> HIDE DEF pc
  <2>2. next \in Request /\ next.c = req[r].c /\ next.token = req[r].token /\ next.pc = pc
    BY <1>1, <2>1 DEF Request
  <2>3. req' = [req EXCEPT ![r] = next]
    BY <1>3 DEF NoToken, pc
  <2> HIDE DEF next
  <2> QED
    BY <2>1, <2>2, <2>3 DEF Carrying
<1> QED
  BY <1>2, <1>3

LEMMA CallbackStep ==
    ASSUME ChainInv, NEW r \in Requests,
           \/ Exchange(r) \/ SyncStore(r) \/ CompleteIntegration(r) \/ Rename(r)
           \/ DropPending(r) \/ CountOrphan(r) \/ DeleteShop(r)
    PROVE  ChainInv'
<1> DEFINE c == req[r].c
<1>0. ~At(r, "idle") /\ c \in Connections /\ req[r] \in Request /\ row[c] \in Row
  <2>1. ~At(r, "idle")
    BY DEF At, Exchange, SyncStore, CompleteIntegration, Rename, DropPending, CountOrphan,
           DeleteShop
  <2> QED
    BY <2>1, AtWork
<1>1. /\ faults \in Nat /\ hook \in [Stores -> {None} \cup Connections]
      /\ grant \in [Connections -> Tokens] /\ shop \in [Connections -> Shop]
      /\ row \in [Connections -> Row] /\ session \in {None} \cup Connections
  BY DEF ChainInv, ShapeOK, TablesOK
<1>2. CASE Exchange(r)
  <2>1. At(r, "exchange") /\ UNCHANGED <<shop, row, session, hook>>
    BY <1>2 DEF Exchange
  <2>2. CASE /\ Exists(c) /\ c \notin redeemed
             /\ redeemed' = redeemed \cup {c}
             /\ grant' = [grant EXCEPT ![c] = 1]
             /\ req' = [req EXCEPT ![r].pc = "sync", ![r].token = 1]
             /\ Smooth
    <3> DEFINE next == [req[r] EXCEPT !.pc = "sync", !.token = 1]
    <3>1. grant[c] = 0 /\ 1 \in Tokens
      BY <1>0, <2>2, ConvertyAssumption DEF ChainInv, GrantsAreEarned, Tokens
    <3>2. next \in Request /\ next.c = c /\ next.token = 1 /\ next.pc = "sync"
      BY <1>0, <3>1 DEF Request
    <3>3. req' = [req EXCEPT ![r] = next]
      BY <2>2
    <3> HIDE DEF next
    <3>4. req'[r] = next /\ \A q \in Requests \ {r} : req'[q] = req[q]
      BY <3>3 DEF ChainInv, ShapeOK
    <3>5. grant' = [grant EXCEPT ![c] = @ + 1] /\ grant'[c] = 1
      BY <1>0, <1>1, <2>2, <3>1
    <3>6. \A q \in Requests : req[q].c = c => req[q].pc \notin Carrying
      BY <1>0, <3>1 DEF ChainInv, OneCarrier
    <3>7. ShapeOK' /\ faults' = faults
      BY <1>0, <1>1, <2>1, <2>2, <3>1, <3>2, <3>3 DEF ChainInv, ShapeOK, TablesOK, Smooth
    <3>8. /\ req'[r].pc \in Carrying /\ req'[r].pc # "rotate"
          /\ req'[r].c = c /\ req'[r].token = grant'[c] /\ req'[r].token <= grant'[c]
      BY <3>2, <3>4, <3>5 DEF Carrying
    <3>9. faults' >= faults /\ c \in redeemed' /\ UNCHANGED <<row, shop>>
      BY <1>1, <2>1, <2>2, <3>7
    <3> QED
      BY <1>0, <2>2, <3>4, <3>5, <3>6, <3>7, <3>8, <3>9, GrantKeepsChain
  <2>3. CASE GoTo(r, "drop") /\ UNCHANGED grant /\ redeemed' \in {redeemed, redeemed \cup {c}}
             /\ faults' \in {faults, faults + 1}
    <3>1. TablesOK' /\ RowsQuiet
      BY <1>1, <2>1, <2>3, ReadsOnly
    <3> QED
      BY <1>0, <2>1, <2>3, <3>1, GoesTo DEF At, Carrying
  <2> QED
    BY <1>2, <2>2, <2>3 DEF Exchange, Fault
<1>3. CASE SyncStore(r)
  <2>1. At(r, "sync") /\ TablesOK' /\ RowsQuiet
    BY <1>1, <1>3, ReadsOnly DEF SyncStore, Fault, Smooth
  <2>2. CASE req' = [req EXCEPT ![r].pc = "complete", ![r].refs = {"id", "slug"}]
    <3> DEFINE next == [req[r] EXCEPT !.pc = "complete", !.refs = {"id", "slug"}]
    <3>1. next \in Request /\ next.c = c /\ next.token = req[r].token /\ next.pc = "complete"
      BY <1>0 DEF Request, Refs
    <3>2. req' = [req EXCEPT ![r] = next]
      BY <2>2 DEF GoTo
    <3> HIDE DEF next
    <3> QED
      BY <2>1, <3>1, <3>2, OneMoves DEF Moves, CarriesOn, At
  <2>3. CASE GoTo(r, "complete")
    <3> DEFINE next == [req[r] EXCEPT !.pc = "complete"]
    <3>1. next \in Request /\ next.c = c /\ next.token = req[r].token /\ next.pc = "complete"
      BY <1>0 DEF Request, Refs
    <3>2. req' = [req EXCEPT ![r] = next]
      BY <2>3 DEF GoTo
    <3> HIDE DEF next
    <3> QED
      BY <2>1, <3>1, <3>2, OneMoves DEF Moves, CarriesOn, At
  <2> QED
    BY <1>3, <2>2, <2>3 DEF SyncStore
<1>4. CASE CompleteIntegration(r)
  <2>1. /\ At(r, "complete") /\ req[r].pc \in Carrying
        /\ UNCHANGED <<shop, session, redeemed, grant, hook, faults>>
    BY <1>4 DEF CompleteIntegration, At, Carrying
  <2>2. CASE Exists(c)
    <3> DEFINE next == [req[r] EXCEPT !.pc = "rename"]
               x == [row[c] EXCEPT !.status = "connected", !.refs = req[r].refs,
                                   !.token = req[r].token, !.fresh = TRUE, !.active = TRUE]
    <3>1. next \in Request /\ next.c = c /\ next.token = req[r].token /\ next.pc = "rename"
      BY <1>0 DEF Request
    <3>2. req[r].refs \in Refs /\ req[r].token \in Tokens
      BY <1>0 DEF Request
    <3>3. x \in Row /\ x.token = req[r].token
      BY <1>0, <3>2 DEF Row
    <3>4. req' = [req EXCEPT ![r] = next] /\ row' = [row EXCEPT ![c] = x]
      BY <1>4, <2>2 DEF CompleteIntegration, GoTo
    <3> HIDE DEF next, x
    <3>5. /\ req'[r] = next /\ \A q \in Requests \ {r} : req'[q] = req[q]
          /\ row'[c] = x /\ \A d \in Connections \ {c} : row'[d] = row[d]
          /\ ShapeOK'
      BY <1>0, <1>1, <2>1, <3>1, <3>3, <3>4 DEF ChainInv, ShapeOK, TablesOK
    <3> QED
      BY <1>0, <2>1, <2>2, <3>1, <3>3, <3>5, StoreKeepsChain DEF Carrying
  <2>3. CASE ~Exists(c)
    <3>1. Finish(r) /\ row' = row
      BY <1>4, <2>3 DEF CompleteIntegration
    <3>2. TablesOK' /\ RowsQuiet
      BY <1>1, <2>1, <3>1, ReadsOnly
    <3>3. \A d \in Connections : req[r].c = d => ~Exists(d)'
      BY <2>3, <3>1 DEF Exists
    <3> QED
      BY <1>0, <3>1, <3>2, <3>3, Finishes
  <2> QED
    BY <2>2, <2>3
<1>5. CASE Rename(r)
  <2> DEFINE own == IF Exists(c) THEN row[c].hook ELSE None
             next == [req[r] EXCEPT !.pc = "token", !.hook = own]
  <2>1. own \in {None} \cup Connections
    BY <1>0 DEF Row
  <2> HIDE DEF own
  <2>2. next \in Request /\ next.c = c /\ next.token = req[r].token /\ next.pc = "token"
    BY <1>0, <2>1 DEF Request
  <2>3. req' = [req EXCEPT ![r] = next] /\ At(r, "rename")
    BY <1>5 DEF Rename, own
  <2>4. TablesOK' /\ RowsQuiet
    <3>1. /\ UNCHANGED <<row, session, grant, redeemed, hook, faults>>
          /\ shop' = shop \/ (Live(c) /\ shop' = [shop EXCEPT ![c] = "named"])
      BY <1>0, <1>1, <1>5 DEF Rename
    <3> QED
      BY <1>0, <1>1, <3>1 DEF TablesOK, RowsQuiet, Exists, Shop
  <2> HIDE DEF next
  <2> QED
    BY <1>0, <2>2, <2>3, <2>4, GoesOn DEF At, Carrying
<1>6. CASE DropPending(r)
  <2>1. TablesOK' /\ RowsQuiet
    BY <1>0, <1>6, DeletedIsRow, WritesRow DEF DropPending
  <2> QED
    BY <1>0, <1>6, <2>1, GoesTo DEF DropPending, At, Carrying
<1>7. CASE CountOrphan(r)
  <2>1. TablesOK' /\ RowsQuiet
    BY <1>1, <1>7, ReadsOnly DEF CountOrphan
  <2> QED
    BY <1>0, <1>7, <2>1, GoesTo, Finishes DEF CountOrphan, At, Carrying
<1>8. CASE DeleteShop(r)
  <2>1. TablesOK' /\ RowsQuiet
    BY <1>0, <1>8, DeletedIsRow, WritesRow DEF DeleteShop
  <2> QED
    BY <1>0, <1>8, <2>1, Finishes DEF DeleteShop, At, Carrying
<1> QED
  BY <1>2, <1>3, <1>4, <1>5, <1>6, <1>7, <1>8

LEMMA TokenStep ==
    ASSUME ChainInv, NEW r \in Requests, AccessToken(r) \/ Rotate(r) \/ SaveTokens(r)
    PROVE  ChainInv'
<1> DEFINE c == req[r].c
<1>0. ~At(r, "idle") /\ c \in Connections /\ req[r] \in Request /\ row[c] \in Row
  <2>1. ~At(r, "idle")
    BY DEF At, AccessToken, Rotate, SaveTokens
  <2> QED
    BY <2>1, AtWork
<1>1. /\ faults \in Nat /\ hook \in [Stores -> {None} \cup Connections]
      /\ grant \in [Connections -> Tokens] /\ shop \in [Connections -> Shop]
      /\ row \in [Connections -> Row] /\ session \in {None} \cup Connections
  BY DEF ChainInv, ShapeOK, TablesOK
<1>2. CASE AccessToken(r)
  <2>1. TablesOK' /\ RowsQuiet /\ At(r, "token")
    BY <1>1, <1>2, ReadsOnly DEF AccessToken
  <2>2. CASE NoToken(r)
    BY <1>0, <2>1, <2>2, NoTokenRecord, GoesOn DEF At, Carrying
  <2>3. CASE Exists(c)
    <3> DEFINE pc == IF row[c].fresh THEN "use" ELSE "rotate"
               next == [req[r] EXCEPT !.token = row[c].token, !.pc = pc]
    <3>1. pc \in {"use", "rotate"}
      OBVIOUS
    <3> HIDE DEF pc
    <3>2. next \in Request /\ next.c = c /\ next.token = row[c].token /\ next.pc = pc
      BY <1>0, <3>1 DEF Request, Row
    <3>3. req' = [req EXCEPT ![r] = next]
      BY <1>2, <2>3 DEF AccessToken, pc
    <3> HIDE DEF next
    <3>4. Moves(r, next)
      BY <1>0, <2>1, <3>1, <3>2 DEF Moves, LetsGo, Carrying, At
    <3> QED
      BY <2>1, <3>2, <3>3, <3>4, OneMoves
  <2> QED
    BY <1>2, <2>2, <2>3 DEF AccessToken
<1>3. CASE Rotate(r)
  <2>1. At(r, "rotate") /\ UNCHANGED <<shop, row, session, redeemed, hook>>
    BY <1>3 DEF Rotate
  <2>2. CASE NoToken(r) /\ UNCHANGED <<grant, faults>>
    <3>1. TablesOK' /\ RowsQuiet
      BY <1>1, <2>1, <2>2, ReadsOnly
    <3> QED
      BY <1>0, <2>1, <2>2, <3>1, NoTokenRecord, GoesOn DEF At, Carrying
  <2>3. CASE /\ Exists(c) /\ req[r].token = grant[c] /\ grant[c] # 0
             /\ grant[c] < MaxRotations
             /\ grant' = [grant EXCEPT ![c] = @ + 1]
             /\ \/ /\ req' = [req EXCEPT ![r].pc = "save", ![r].token = @ + 1]
                   /\ Smooth
                \/ NoToken(r) /\ Fault
    <3>1. grant[c] \in Nat /\ grant[c] + 1 \in Tokens /\ grant'[c] = grant[c] + 1
      BY <1>0, <1>1, <2>3, ConvertyAssumption DEF Tokens
    <3>2. \A q \in Requests : req[q].c = c => req[q].pc \notin Carrying
      BY <2>1, <2>3, <3>1 DEF ChainInv, OneCarrier, Carrying, At
    <3>3. c \in redeemed /\ c \in redeemed'
      BY <1>0, <2>1, <2>3 DEF ChainInv, GrantsAreEarned
    <3>4. CASE /\ req' = [req EXCEPT ![r].pc = "save", ![r].token = @ + 1]
               /\ Smooth
      <4> DEFINE token == req[r].token + 1
                 next == [req[r] EXCEPT !.pc = "save", !.token = token]
      <4>1. token \in Tokens /\ token = grant'[c]
        BY <2>3, <3>1
      <4>2. req' = [req EXCEPT ![r] = next]
        BY <3>4
      <4> HIDE DEF token
      <4>3. next \in Request /\ next.c = c /\ next.token = token /\ next.pc = "save"
        BY <1>0, <4>1 DEF Request
      <4> HIDE DEF next
      <4>4. /\ req'[r] = next /\ \A q \in Requests \ {r} : req'[q] = req[q]
            /\ ShapeOK' /\ faults' = faults
        BY <1>0, <1>1, <2>1, <2>3, <3>1, <3>4, <4>2, <4>3
        DEF ChainInv, ShapeOK, TablesOK, Smooth
      <4>5. /\ req'[r].pc \in Carrying /\ req'[r].pc # "rotate" /\ faults' >= faults
            /\ req'[r].c = c /\ req'[r].token = grant'[c] /\ req'[r].token <= grant'[c]
        BY <1>1, <3>1, <4>1, <4>3, <4>4 DEF Carrying
      <4> QED
        BY <1>0, <2>1, <2>3, <3>2, <3>3, <4>4, <4>5, GrantKeepsChain
    <3>5. CASE NoToken(r) /\ Fault
      <4>1. PICK next \in Request :
               /\ req' = [req EXCEPT ![r] = next]
               /\ next.pc = "idle" \/ (next.c = c /\ next.token = req[r].token)
               /\ next.pc \notin Carrying /\ next.pc # "rotate"
        BY <1>0, <3>5, NoTokenRecord
      <4>2. /\ req'[r] = next /\ \A q \in Requests \ {r} : req'[q] = req[q]
            /\ ShapeOK' /\ faults' > 0
        BY <1>0, <1>1, <2>1, <2>3, <3>1, <3>5, <4>1 DEF ChainInv, ShapeOK, TablesOK, Fault
      <4>3. req'[r].pc = "idle" \/ (req'[r].c = c /\ req'[r].token <= grant'[c])
        BY <2>3, <3>1, <4>1, <4>2
      <4> QED
        BY <1>0, <2>1, <2>3, <3>2, <3>3, <4>1, <4>2, <4>3, GrantKeepsChain
    <3> QED
      BY <2>3, <3>4, <3>5
  <2> QED
    BY <1>3, <2>2, <2>3 DEF Rotate
<1>4. CASE SaveTokens(r)
  <2>1. /\ At(r, "save") /\ req[r].pc \in Carrying
        /\ UNCHANGED <<shop, session, redeemed, grant, hook>>
    BY <1>4 DEF SaveTokens, At, Carrying
  <2>2. CASE NoToken(r) /\ Fault /\ UNCHANGED row
    <3>1. TablesOK' /\ RowsQuiet /\ faults' > faults
      BY <1>1, <2>1, <2>2, ReadsOnly DEF Fault
    <3> QED
      BY <1>0, <2>2, <3>1, NoTokenRecord, GoesOn
  <2>3. CASE /\ row' = IF Exists(c)
                       THEN [row EXCEPT ![c].token = req[r].token, ![c].fresh = TRUE,
                                        ![c].status = "connected"]
                       ELSE row
             /\ req' = [req EXCEPT ![r] = AfterSave(@)]
             /\ Smooth
    <3> DEFINE next == AfterSave(req[r])
    <3>1. /\ next \in Request /\ next.pc \notin Carrying \cup {"rotate"}
          /\ next.pc = "idle" \/ (next.c = c /\ next.token = req[r].token)
      <4>1. CASE req[r].op = "refresh"
        BY <4>1, IdleIsRequest DEF AfterSave, Idle, Carrying
      <4>2. CASE req[r].op # "refresh"
        <5> DEFINE pc == IF req[r].again THEN "retry" ELSE "use"
        <5>1. pc \in {"retry", "use"}
          OBVIOUS
        <5> HIDE DEF pc
        <5>2. next = [req[r] EXCEPT !.pc = pc]
          BY <4>2 DEF AfterSave, pc
        <5> QED
          BY <1>0, <5>1, <5>2 DEF Request, Carrying
      <4> QED
        BY <4>1, <4>2
    <3>2. req' = [req EXCEPT ![r] = next]
      BY <2>3
    <3> HIDE DEF next
    <3>3. CASE Exists(c)
      <4> DEFINE x == [row[c] EXCEPT !.token = req[r].token, !.fresh = TRUE,
                                     !.status = "connected"]
      <4>1. req[r].token \in Tokens
        BY <1>0 DEF Request
      <4>2. x \in Row /\ x.token = req[r].token
        BY <1>0, <4>1 DEF Row
      <4>3. row' = [row EXCEPT ![c] = x]
        BY <2>3, <3>3
      <4> HIDE DEF x
      <4>4. faults' = faults
        BY <2>3 DEF Smooth
      <4>5. /\ req'[r] = next /\ \A q \in Requests \ {r} : req'[q] = req[q]
            /\ row'[c] = x /\ \A d \in Connections \ {c} : row'[d] = row[d]
            /\ ShapeOK'
        BY <1>0, <1>1, <2>1, <3>1, <3>2, <4>2, <4>3, <4>4 DEF ChainInv, ShapeOK, TablesOK
      <4> QED
        BY <1>0, <2>1, <3>1, <3>3, <4>2, <4>4, <4>5, StoreKeepsChain
    <3>4. CASE ~Exists(c)
      <4>1. row' = row /\ TablesOK' /\ RowsQuiet
        BY <1>1, <2>1, <2>3, <3>4, ReadsOnly DEF Smooth
      <4>2. \A d \in Connections : req[r].c = d => ~Exists(d)'
        BY <3>4, <4>1 DEF Exists
      <4> QED
        BY <1>0, <3>1, <3>2, <4>1, <4>2, GoesOn
    <3> QED
      BY <3>3, <3>4
  <2> QED
    BY <1>4, <2>2, <2>3 DEF SaveTokens
<1> QED
  BY <1>2, <1>3, <1>4

LEMMA UseStep ==
    ASSUME ChainInv, NEW r \in Requests,
           \/ TestCall(r) \/ MarkTested(r)
           \/ Subscribe(r) \/ SaveWebhookSubscriptions(r)
           \/ Unsubscribe(r) \/ DeleteIntegration(r) \/ Die(r)
    PROVE  ChainInv'
<1> DEFINE c == req[r].c
<1>0. ~At(r, "idle") /\ c \in Connections /\ req[r] \in Request /\ row[c] \in Row
  <2>1. ~At(r, "idle")
    BY DEF At, TestCall, MarkTested, Subscribe, SaveWebhookSubscriptions, Unsubscribe,
           DeleteIntegration, Die
  <2> QED
    BY <2>1, AtWork
<1>1. /\ faults \in Nat /\ hook \in [Stores -> {None} \cup Connections]
      /\ grant \in [Connections -> Tokens] /\ shop \in [Connections -> Shop]
      /\ row \in [Connections -> Row] /\ session \in {None} \cup Connections
  BY DEF ChainInv, ShapeOK, TablesOK
<1>2. CASE TestCall(r)
  <2>1. /\ req[r].pc \in {"use", "retry"}
        /\ UNCHANGED <<shop, session, redeemed, grant, hook>>
    BY <1>2 DEF TestCall
  <2>2. CASE /\ row' = IF Exists(c) THEN [row EXCEPT ![c].refs = @ \cup {"slug"}] ELSE row
             /\ req' = [req EXCEPT ![r].pc = "mark", ![r].ok = TRUE]
             /\ Smooth
    <3> DEFINE next == [req[r] EXCEPT !.pc = "mark", !.ok = TRUE]
               refs == row[c].refs \cup {"slug"}
               x == [row[c] EXCEPT !.refs = refs]
    <3>1. next \in Request /\ next.c = c /\ next.token = req[r].token /\ next.pc = "mark"
      BY <1>0 DEF Request
    <3>2. refs \in Refs
      BY <1>0 DEF Row, Refs
    <3>3. Exists(c) => row' = [row EXCEPT ![c] = x]
      BY <2>2
    <3> HIDE DEF refs
    <3>4. x \in Row /\ x.token = row[c].token
      BY <1>0, <3>2 DEF Row
    <3>5. req' = [req EXCEPT ![r] = next] /\ faults' = faults
      BY <2>2 DEF Smooth
    <3> HIDE DEF next, x
    <3>6. TablesOK' /\ RowsQuiet
      <4>1. CASE Exists(c)
        BY <1>0, <2>1, <3>3, <3>4, <3>5, <4>1, WritesRow
      <4>2. CASE ~Exists(c)
        BY <1>1, <2>1, <2>2, <3>5, <4>2, ReadsOnly
      <4> QED
        BY <4>1, <4>2
    <3> QED
      BY <1>0, <2>1, <3>1, <3>5, <3>6, GoesOn DEF Carrying
  <2>3. CASE /\ Exists(c)
             /\ req' = [req EXCEPT ![r].pc = "rotate", ![r].again = TRUE,
                                   ![r].token = row[c].token]
             /\ UNCHANGED <<row, inputs, faults>>
    <3> DEFINE next == [req[r] EXCEPT !.pc = "rotate", !.again = TRUE, !.token = row[c].token]
    <3>1. row[c].token \in Tokens
      BY <1>0 DEF Row
    <3>2. next \in Request /\ next.c = c /\ next.token = row[c].token /\ next.pc = "rotate"
      BY <1>0, <3>1 DEF Request
    <3>3. req' = [req EXCEPT ![r] = next]
      BY <2>3
    <3> HIDE DEF next
    <3>4. Moves(r, next)
      BY <1>0, <2>1, <3>2 DEF Moves, LetsGo, Carrying
    <3>5. TablesOK' /\ RowsQuiet
      BY <1>1, <2>1, <2>3, ReadsOnly
    <3> QED
      BY <3>2, <3>3, <3>4, <3>5, OneMoves
  <2>4. CASE GoTo(r, "mark") /\ UNCHANGED row /\ faults' \in {faults, faults + 1}
    <3>1. TablesOK' /\ RowsQuiet
      BY <1>1, <2>1, <2>4, ReadsOnly
    <3> QED
      BY <1>0, <2>1, <2>4, <3>1, GoesTo DEF Carrying
  <2> QED
    BY <1>2, <2>2, <2>3, <2>4 DEF TestCall, Fault
<1>3. CASE MarkTested(r)
  <2> DEFINE status == IF req[r].ok THEN "connected" ELSE "error"
             x == [row[c] EXCEPT !.status = status]
  <2>1. status \in {"connected", "error"}
    OBVIOUS
  <2>2. Exists(c) => row' = [row EXCEPT ![c] = x]
    BY <1>3 DEF MarkTested
  <2> HIDE DEF status
  <2>3. x \in Row /\ x.token = row[c].token
    BY <1>0, <2>1 DEF Row
  <2> HIDE DEF x
  <2>4. TablesOK' /\ RowsQuiet
    <3>1. CASE Exists(c)
      BY <1>0, <1>3, <2>2, <2>3, <3>1, WritesRow DEF MarkTested
    <3>2. CASE ~Exists(c)
      BY <1>1, <1>3, <3>2, ReadsOnly DEF MarkTested
    <3> QED
      BY <3>1, <3>2
  <2> QED
    BY <1>0, <1>3, <2>4, Finishes DEF MarkTested, At, Carrying
<1>4. CASE Subscribe(r)
  <2>1. /\ req[r].pc = "use"
        /\ UNCHANGED <<shop, row, session, redeemed, grant>>
    BY <1>4 DEF Subscribe, At
  <2>2. CASE /\ hook' = [hook EXCEPT ![row[c].store] = IF @ = None THEN c ELSE @]
             /\ req' = [req EXCEPT ![r].pc = "savehook", ![r].hook = hook'[row[c].store]]
             /\ Smooth
    <3> DEFINE own == hook'[row[c].store]
               next == [req[r] EXCEPT !.pc = "savehook", !.hook = own]
    <3>1. row[c].store \in Stores
      BY <1>0 DEF Row
    <3>2. hook' \in [Stores -> {None} \cup Connections] /\ own \in {None} \cup Connections
      BY <1>0, <1>1, <2>2, <3>1
    <3>3. own = hook'[row[c].store] /\ faults' = faults
      BY <2>2 DEF Smooth
    <3> HIDE DEF own
    <3>4. req' = [req EXCEPT ![r] = next]
      <4>1. req' = [req EXCEPT ![r].pc = "savehook", ![r].hook = own]
        BY <2>2, <3>3, Zenon
      <4> QED
        BY <4>1
    <3>5. next \in Request /\ next.c = c /\ next.token = req[r].token /\ next.pc = "savehook"
      BY <1>0, <3>2 DEF Request
    <3> HIDE DEF next
    <3>6. TablesOK' /\ RowsQuiet
      BY <2>1, <3>2, <3>3, ReadsOnly
    <3> QED
      BY <1>0, <2>1, <3>4, <3>5, <3>6, GoesOn DEF Carrying
  <2>3. CASE GoTo(r, "savehook") /\ UNCHANGED hook /\ faults' \in {faults, faults + 1}
    <3>1. TablesOK' /\ RowsQuiet
      BY <1>1, <2>1, <2>3, ReadsOnly
    <3> QED
      BY <1>0, <2>1, <2>3, <3>1, GoesTo DEF Carrying
  <2> QED
    BY <1>4, <2>2, <2>3 DEF Subscribe, Fault
<1>5. CASE SaveWebhookSubscriptions(r)
  <2> DEFINE x == [row[c] EXCEPT !.hook = req[r].hook]
  <2>1. req[r].hook \in {None} \cup Connections
    BY <1>0 DEF Request
  <2>2. Exists(c) => row' = [row EXCEPT ![c] = x]
    BY <1>5 DEF SaveWebhookSubscriptions
  <2>3. x \in Row /\ x.token = row[c].token /\ x.status = row[c].status
    BY <1>0, <2>1 DEF Row
  <2> HIDE DEF x
  <2>4. TablesOK' /\ RowsQuiet
    <3>1. CASE Exists(c)
      BY <1>0, <1>5, <2>2, <2>3, <3>1, WritesRow DEF SaveWebhookSubscriptions
    <3>2. CASE ~Exists(c)
      BY <1>1, <1>5, <3>2, ReadsOnly DEF SaveWebhookSubscriptions
    <3> QED
      BY <3>1, <3>2
  <2> QED
    BY <1>0, <1>5, <2>4, Finishes DEF SaveWebhookSubscriptions, At, Carrying
<1>6. CASE Unsubscribe(r)
  <2>1. /\ req[r].pc = "use" /\ GoTo(r, "erase") /\ faults' \in {faults, faults + 1}
        /\ UNCHANGED <<shop, row, session, redeemed, grant>>
    BY <1>6 DEF Unsubscribe, At, Smooth, Fault
  <2>2. hook' \in [Stores -> {None} \cup Connections]
    BY <1>1, <1>6 DEF Unsubscribe
  <2>3. TablesOK' /\ RowsQuiet
    BY <2>1, <2>2, ReadsOnly
  <2> QED
    BY <1>0, <2>1, <2>3, GoesTo DEF Carrying
<1>7. CASE DeleteIntegration(r)
  <2>1. TablesOK' /\ RowsQuiet
    BY <1>0, <1>7, DeletedIsRow, WritesRow DEF DeleteIntegration
  <2> QED
    BY <1>0, <1>7, <2>1, Finishes DEF DeleteIntegration, At, Carrying
<1>8. CASE Die(r)
  <2>1. TablesOK' /\ RowsQuiet /\ faults' > faults
    BY <1>1, <1>8, ReadsOnly DEF Die, Fault
  <2> QED
    BY <1>0, <1>8, <2>1, Finishes DEF Die
<1> QED
  BY <1>2, <1>3, <1>4, <1>5, <1>6, <1>7, <1>8

-----------------------------------------------------------------------------

LEMMA ChainStarts == IntakeInit => ChainInv
<1> SUFFICES ASSUME Init PROVE ChainInv
  BY DEF IntakeInit
<1>1. 0 \in Tokens /\ {} \in Refs
  BY ConvertyAssumption DEF Tokens, Refs
<1>2. TablesOK
  BY <1>1 DEF Init, TablesOK, Row, Shop
<1>3. req \in [Requests -> Request] /\ \A r \in Requests : req[r].pc = "idle"
  BY IdleIsRequest DEF Init
<1>4. \A c \in Connections : grant[c] = 0 /\ row[c].token = 0 /\ ~Exists(c)
  BY DEF Init, Exists
<1> QED
  BY <1>2, <1>3, <1>4
  DEF ChainInv, ShapeOK, GrantsAreEarned, TokensAreIssued, OneCarrier, TokenChainKept,
      At, Carrying

(* A delivery of an event reads connections and leaves them as they are.   *)
LEMMA DeliveryKeepsChain ==
    ASSUME ChainInv, NEW w \in Deliveries, DeliveryStep(w)
    PROVE  ChainInv'
<1>1. UNCHANGED <<shop, row, session, redeemed, grant, hook, req>>
  BY DEF DeliveryStep, Receive, LookupShop, CaptureWebhook, UpsertCustomer, HandOver,
         DeliveryDies, connectionVars, Input
<1>2. faults' \in {faults, faults + 1}
  BY DEF DeliveryStep, Receive, LookupShop, CaptureWebhook, UpsertCustomer, HandOver,
         DeliveryDies, connectionVars, Input, Fault
<1>3. hook \in [Stores -> {None} \cup Connections]
  BY DEF ChainInv, ShapeOK, TablesOK
<1>4. TablesOK' /\ RowsQuiet
  BY <1>1, <1>2, <1>3, ReadsOnly
<1> QED
  BY <1>1, <1>4, NoneMoves

LEMMA ChainStep == ChainInv /\ [IntakeNext]_intakeVars => ChainInv'
<1> SUFFICES ASSUME ChainInv, [IntakeNext]_intakeVars PROVE ChainInv'
  OBVIOUS
<1>1. ASSUME NEW r \in Requests, RequestStep(r) PROVE ChainInv'
  BY <1>1, CallbackStep, TokenStep, UseStep DEF RequestStep
<1>2. CASE UNCHANGED intakeVars
  <2>1. UNCHANGED <<shop, row, session, redeemed, grant, hook, req, faults>>
    BY <1>2 DEF intakeVars, connectionVars
  <2>2. hook \in [Stores -> {None} \cup Connections]
    BY DEF ChainInv, ShapeOK, TablesOK
  <2>3. TablesOK' /\ RowsQuiet
    BY <2>1, <2>2, ReadsOnly
  <2> QED
    BY <2>1, <2>3, NoneMoves
<1> QED
  BY <1>1, <1>2, OperatorStep, WorldStep, DeliveryKeepsChain DEF IntakeNext, Next

(* However many requests refresh, test, connect, delete and die at once,   *)
(* the row of a connection holds the refresh token that Converty accepts   *)
(* next, or one request is on its way to store it, until a call fails.     *)
THEOREM LatestTokenIsKept == IntakeSpec => []TokenChainKept
<1>1. ChainInv => TokenChainKept
  BY DEF ChainInv
<1> QED
  BY <1>1, ChainStarts, ChainStep, PTL DEF IntakeSpec

-----------------------------------------------------------------------------
(* The events.  What a delivery relies on is that a shop which is gone     *)
(* stays gone.                                                             *)

LimitsOK ==
    /\ redeemed \subseteq Connections /\ rejected \subseteq Connections
    /\ inputs \in 0 .. MaxInputs /\ faults \in 0 .. MaxFaults

ShopsMove ==
    \A c \in Connections :
        /\ Live(c) => Live(c)' \/ shop'[c] = "deleted"
        /\ Live(c)' => Live(c) \/ shop[c] = "none"
        /\ shop'[c] = "none" => shop[c] = "none"

Spent == Smooth \/ Fault \/ Input

LEMMA SpentIsLimited ==
    ASSUME LimitsOK, Spent, redeemed' \subseteq Connections, rejected' \subseteq Connections
    PROVE  LimitsOK' /\ faults' >= faults
<1>1. /\ inputs' \in 0 .. MaxInputs /\ faults' \in 0 .. MaxFaults
      /\ faults' >= faults
  BY ConvertyAssumption DEF LimitsOK, Spent, Smooth, Fault, Input
<1> QED
  BY <1>1 DEF LimitsOK

LEMMA OperatorIsLimited ==
    ASSUME ChainInv, Operator
    PROVE  Spent /\ ShopsMove /\ redeemed' = redeemed /\ rejected' = rejected
<1>0. shop \in [Connections -> Shop]
  BY DEF ChainInv, ShapeOK, TablesOK
<1>1. ASSUME NEW s \in Stores, NEW credentials \in BOOLEAN, Connect(s, credentials)
      PROVE  Spent /\ ShopsMove /\ redeemed' = redeemed /\ rejected' = rejected
  BY <1>0, <1>1 DEF Connect, Spent, Smooth, ShopsMove, Live
<1>2. ASSUME NEW r \in Requests, NEW d \in Connections, NEW code \in BOOLEAN, Callback(r, d, code)
      PROVE  Spent /\ ShopsMove /\ redeemed' = redeemed /\ rejected' = rejected
  BY <1>2 DEF Callback, Spent, ShopsMove, Live
<1>3. ASSUME NEW r \in Requests, NEW c \in Connections,
             Refresh(r, c) \/ TestConnection(r, c) \/ Delete(r, c)
      PROVE  Spent /\ ShopsMove /\ redeemed' = redeemed /\ rejected' = rejected
  BY <1>3 DEF Refresh, TestConnection, Delete, Spent, ShopsMove, Live
<1>4. ASSUME NEW c \in Connections, NEW active \in BOOLEAN, SetIntegrationActive(c, active)
      PROVE  Spent /\ ShopsMove /\ redeemed' = redeemed /\ rejected' = rejected
  BY <1>4 DEF SetIntegrationActive, Spent, ShopsMove, Live
<1> QED
  BY <1>1, <1>2, <1>3, <1>4 DEF Operator

LEMMA RequestIsLimited ==
    ASSUME ChainInv, LimitsOK, NEW r \in Requests, RequestStep(r)
    PROVE  /\ Spent /\ ShopsMove
           /\ redeemed' \subseteq Connections /\ rejected' \subseteq Connections
<1> DEFINE Limited == /\ Spent /\ ShopsMove
                      /\ redeemed' \subseteq Connections /\ rejected' \subseteq Connections
<1>0. shop \in [Connections -> Shop]
  BY DEF ChainInv, ShapeOK, TablesOK
<1>1. ASSUME Spent, UNCHANGED <<shop, redeemed>>, rejected' \subseteq rejected
      PROVE  Limited
  BY <1>1 DEF LimitsOK, ShopsMove, Live
<1>2. CASE Exchange(r)
  <2>1. req[r].c \in Connections /\ UNCHANGED <<shop, rejected>>
    BY <1>2, AtWork DEF Exchange, At
  <2>2. redeemed' \in {redeemed, redeemed \cup {req[r].c}} /\ Spent
    BY <1>2 DEF Exchange, Spent, Smooth
  <2> QED
    BY <2>1, <2>2 DEF LimitsOK, ShopsMove, Live
<1>3. CASE SyncStore(r)
  BY <1>1, <1>3 DEF SyncStore, Spent, Smooth
<1>4. CASE CompleteIntegration(r)
  BY <1>1, <1>4 DEF CompleteIntegration, Spent, Smooth
<1>5. CASE Rename(r) \/ DeleteShop(r)
  <2>1. /\ UNCHANGED <<redeemed, rejected, inputs, faults>>
        /\ \/ shop' = [shop EXCEPT ![req[r].c] = "deleted"]
           \/ shop' = shop
           \/ shop' = [shop EXCEPT ![req[r].c] = "named"] /\ Live(req[r].c)
    BY <1>0, <1>5, AtWork DEF Rename, DeleteShop, At
  <2>2. ShopsMove
    BY <1>0, <2>1 DEF ShopsMove, Live
  <2> QED
    BY <2>1, <2>2 DEF Spent, Smooth, LimitsOK
<1>6. CASE DropPending(r) \/ CountOrphan(r)
  BY <1>1, <1>6 DEF DropPending, CountOrphan, Spent, Smooth
<1>7. CASE AccessToken(r)
  BY <1>1, <1>7 DEF AccessToken, Spent, Smooth
<1>8. CASE Rotate(r)
  <2>1. Spent /\ UNCHANGED <<shop, redeemed>>
    BY <1>8 DEF Rotate, Spent, Smooth
  <2>2. rejected' \subseteq rejected
    BY <1>8 DEF Rotate
  <2> QED
    BY <1>1, <2>1, <2>2
<1>9. CASE SaveTokens(r)
  BY <1>1, <1>9 DEF SaveTokens, Spent, Smooth
<1>10. CASE TestCall(r)
  BY <1>1, <1>10 DEF TestCall, Spent, Smooth
<1>11. CASE MarkTested(r) \/ SaveWebhookSubscriptions(r) \/ DeleteIntegration(r)
  BY <1>1, <1>11 DEF MarkTested, SaveWebhookSubscriptions, DeleteIntegration, Spent, Smooth
<1>12. CASE Subscribe(r) \/ Unsubscribe(r)
  BY <1>1, <1>12 DEF Subscribe, Unsubscribe, Spent, Smooth
<1>13. CASE Die(r)
  BY <1>1, <1>13 DEF Die, Spent
<1> QED
  BY <1>2, <1>3, <1>4, <1>5, <1>6, <1>7, <1>8, <1>9, <1>10, <1>11, <1>12, <1>13
  DEF RequestStep

LEMMA NextIsLimited ==
    ASSUME ChainInv, LimitsOK, Next
    PROVE  LimitsOK' /\ faults' >= faults /\ ShopsMove
<1>1. ASSUME NEW c \in Connections, Expire(c) \/ Revoke(c)
      PROVE  /\ Spent /\ ShopsMove
             /\ redeemed' \subseteq Connections /\ rejected' \subseteq Connections
  BY <1>1 DEF Expire, Revoke, Spent, ShopsMove, Live, LimitsOK
<1>2. CASE Operator
  BY <1>2, OperatorIsLimited, SpentIsLimited DEF LimitsOK
<1>3. ASSUME NEW r \in Requests, RequestStep(r)
      PROVE  LimitsOK' /\ faults' >= faults /\ ShopsMove
  BY <1>3, RequestIsLimited, SpentIsLimited
<1> QED
  BY <1>1, <1>2, <1>3, SpentIsLimited DEF Next

(* A delivery that has stored an event, and will hand it over.             *)
Claims(w) == delivery[w].pc \in {"customer", "hand"} /\ ~delivery[w].duplicate

EventTablesOK ==
    /\ stored \subseteq Bodies
    /\ owner \in [Bodies -> {None} \cup Connections]
    /\ customers \subseteq Connections \X Bodies
    /\ delivery \in [Deliveries -> Delivery]
    /\ handed \in [Bodies -> [Connections -> Nat]]

(* Deliveries, and automations that were called, know of shops there are   *)
(* or have been.                                                           *)
ShopsAreMade ==
    /\ \A w \in Deliveries :
          /\ delivery[w].shop # None => shop[delivery[w].shop] # "none"
          /\ delivery[w].pc \in {"customer", "hand"} => delivery[w].shop # None
    /\ \A b \in Bodies, c \in Connections : shop[c] = "none" => handed[b][c] = 0

(* While its shop lives, what a delivery has stored is on record, for this *)
(* shop, and not handed over yet; and nobody else has stored it.           *)
ClaimsHold ==
    \A w \in Deliveries :
        LET b == delivery[w].body
            c == delivery[w].shop
        IN  Claims(w) /\ Live(c) =>
                /\ b \in stored /\ owner[b] = c /\ handed[b][c] = 0
                /\ \A v \in Deliveries :
                      Claims(v) /\ delivery[v].body = b /\ delivery[v].shop = c => v = w

OwnersLive == \A b \in stored : owner[b] # None => Live(owner[b])

(* An event on record with a shop was handed over once, or will be.        *)
HandedOrClaimed ==
    \A b \in stored :
        faults = 0 /\ owner[b] # None =>
            \/ handed[b][owner[b]] = 1
            \/ \E w \in Deliveries :
                  Claims(w) /\ delivery[w].body = b /\ delivery[w].shop = owner[b]

EventsInv ==
    /\ EventTablesOK /\ ShopsAreMade /\ ClaimsHold /\ OwnersLive
    /\ HandedOrClaimed /\ HandedOnceAsStored

IntakeInv == ChainInv /\ LimitsOK /\ EventsInv

-----------------------------------------------------------------------------

LEMMA RestingIsDelivery ==
    ASSUME NEW b \in Bodies, NEW pc \in {"idle", "lookup"}
    PROVE  /\ [Resting(b) EXCEPT !.pc = pc] \in Delivery
           /\ [Resting(b) EXCEPT !.pc = pc].pc = pc
           /\ [Resting(b) EXCEPT !.pc = pc].shop = None
           /\ Resting(b) \in Delivery /\ Resting(b).pc = "idle" /\ Resting(b).shop = None
  BY DEF Resting, Delivery

LEMMA RestIsResting ==
    ASSUME NEW w \in Deliveries, Rest(w)
    PROVE  \E next \in Delivery : /\ delivery' = [delivery EXCEPT ![w] = next]
                                  /\ next.pc = "idle" /\ next.shop = None
<1>1. (CHOOSE b \in Bodies : TRUE) \in Bodies
  BY IntakeAssumption
<1> QED
  BY <1>1, RestingIsDelivery DEF Rest

(* The others' claims stay as they are when one delivery moves.            *)
LEMMA OthersClaims ==
    ASSUME EventTablesOK, NEW w \in Deliveries, NEW next,
           delivery' = [delivery EXCEPT ![w] = next]
    PROVE  /\ delivery'[w] = next
           /\ \A v \in Deliveries : v # w =>
                 delivery'[v] = delivery[v] /\ (Claims(v)' <=> Claims(v))
  BY DEF EventTablesOK, Claims

(* A delivery moves that claims nothing before and after, or fails.        *)
LEMMA NoClaim ==
    ASSUME EventsInv, faults \in Nat, faults' \in Nat, faults' >= faults,
           UNCHANGED <<shop, stored, owner, customers, handed>>,
           NEW w \in Deliveries, NEW next \in Delivery,
           delivery' = [delivery EXCEPT ![w] = next],
           next.pc \notin {"customer", "hand"},
           next.shop # None => shop[next.shop] # "none",
           ~Claims(w) \/ faults' > 0
    PROVE  EventsInv'
<1>0. /\ delivery'[w] = next /\ ~Claims(w)'
      /\ \A v \in Deliveries : v # w =>
            delivery'[v] = delivery[v] /\ (Claims(v)' <=> Claims(v))
  BY OthersClaims DEF EventsInv, Claims
<1>1. EventTablesOK'
  BY DEF EventsInv, EventTablesOK
<1>2. ShopsAreMade'
  BY <1>0 DEF EventsInv, ShopsAreMade
<1>3. ClaimsHold'
  <2> SUFFICES ASSUME NEW v \in Deliveries, Claims(v)', Live(delivery'[v].shop)
               PROVE  /\ delivery'[v].body \in stored
                      /\ owner[delivery'[v].body] = delivery'[v].shop
                      /\ handed[delivery'[v].body][delivery'[v].shop] = 0
                      /\ \A u \in Deliveries :
                            Claims(u)' /\ delivery'[u].body = delivery'[v].body
                                /\ delivery'[u].shop = delivery'[v].shop => u = v
    BY DEF ClaimsHold, Live
  <2>1. v # w /\ Claims(v) /\ delivery'[v] = delivery[v]
    BY <1>0
  <2>2. \A u \in Deliveries : Claims(u)' => Claims(u) /\ delivery'[u] = delivery[u]
    BY <1>0
  <2> QED
    BY <2>1, <2>2 DEF EventsInv, ClaimsHold
<1>4. OwnersLive' /\ HandedOnceAsStored'
  BY DEF EventsInv, OwnersLive, HandedOnceAsStored, Live
<1>5. HandedOrClaimed'
  BY <1>0 DEF EventsInv, HandedOrClaimed
<1> QED
  BY <1>1, <1>2, <1>3, <1>4, <1>5 DEF EventsInv

(* UpsertCustomer: a claim goes on.                                        *)
LEMMA UpsertKeepsEvents ==
    ASSUME EventsInv, NEW w \in Deliveries, UpsertCustomer(w)
    PROVE  EventsInv'
<1> DEFINE next == [delivery[w] EXCEPT !.pc = "hand"]
<1>0. delivery[w] \in Delivery /\ delivery[w].pc = "customer"
  BY DEF EventsInv, EventTablesOK, UpsertCustomer, Is
<1>1. /\ next \in Delivery /\ next.pc = "hand" /\ next.shop = delivery[w].shop
      /\ next.body = delivery[w].body /\ next.duplicate = delivery[w].duplicate
  BY <1>0 DEF Delivery
<1>2. delivery' = [delivery EXCEPT ![w] = next]
  BY DEF UpsertCustomer
<1> HIDE DEF next
<1>3. /\ delivery'[w] = next
      /\ \A v \in Deliveries : v # w =>
            delivery'[v] = delivery[v] /\ (Claims(v)' <=> Claims(v))
  BY <1>2, OthersClaims DEF EventsInv
<1>4. \A v \in Deliveries : /\ Claims(v)' <=> Claims(v)
                            /\ delivery'[v].body = delivery[v].body
                            /\ delivery'[v].shop = delivery[v].shop
  BY <1>0, <1>1, <1>3 DEF Claims
<1>5. UNCHANGED <<shop, stored, owner, handed, faults>>
  BY DEF UpsertCustomer, connectionVars
<1>6. EventTablesOK'
  <2>1. delivery[w].shop \in Connections /\ delivery[w].body \in Bodies
    BY <1>0 DEF EventsInv, ShopsAreMade, Delivery
  <2>2. customers' \subseteq Connections \X Bodies
    BY <2>1 DEF UpsertCustomer, EventsInv, EventTablesOK
  <2> QED
    BY <1>1, <1>2, <1>5, <2>2 DEF EventsInv, EventTablesOK
<1>7. ShopsAreMade'
  BY <1>0, <1>1, <1>3, <1>5 DEF EventsInv, ShopsAreMade
<1>8. ClaimsHold'
  BY <1>4, <1>5 DEF EventsInv, ClaimsHold, Live
<1>9. OwnersLive' /\ HandedOnceAsStored'
  BY <1>5 DEF EventsInv, OwnersLive, HandedOnceAsStored, Live
<1>10. HandedOrClaimed'
  BY <1>4, <1>5 DEF EventsInv, HandedOrClaimed
<1> QED
  BY <1>6, <1>7, <1>8, <1>9, <1>10 DEF EventsInv

(* CaptureWebhook: a body that is new on record gets the one claim.        *)
LEMMA CaptureKeepsEvents ==
    ASSUME EventsInv, faults \in Nat, NEW w \in Deliveries, CaptureWebhook(w)
    PROVE  EventsInv'
<1> DEFINE b == delivery[w].body
           c == delivery[w].shop
<1>0. /\ delivery[w] \in Delivery /\ delivery[w].pc = "insert" /\ ~Claims(w)
      /\ b \in Bodies /\ c \in {None} \cup Connections
      /\ UNCHANGED <<shop, faults, customers, handed>>
  BY DEF EventsInv, EventTablesOK, CaptureWebhook, Is, connectionVars, Delivery, Claims
<1>1. CASE Refused(w)
  <2>1. Rest(w) /\ UNCHANGED <<stored, owner>>
    BY <1>1 DEF CaptureWebhook
  <2> QED
    BY <1>0, <2>1, RestIsResting, NoClaim
<1>2. CASE ~Refused(w)
  <2>0. c # None => Live(c)
    BY <1>2 DEF Refused
  <2>1. PICK next \in Delivery :
           /\ delivery' = [delivery EXCEPT ![w] = next]
           /\ \/ next.pc = "idle" /\ next.shop = None /\ c = None
              \/ /\ next.pc = "customer" /\ c # None /\ next.shop = c /\ next.body = b
                 /\ next.duplicate = (b \in stored)
    <3>1. CASE c = None
      BY <1>2, <3>1, RestIsResting DEF CaptureWebhook, AfterInsert
    <3>2. CASE c # None
      <4>0. (b \in stored) \in BOOLEAN
        OBVIOUS
      <4>1. PICK known \in BOOLEAN : known = (b \in stored)
        BY <4>0, Zenon
      <4> DEFINE next == [delivery[w] EXCEPT !.pc = "customer", !.duplicate = known]
      <4>2. next \in Delivery /\ next.pc = "customer" /\ next.shop = c /\ next.body = b
            /\ next.duplicate = known
        BY <1>0 DEF Delivery
      <4>3. delivery' = [delivery EXCEPT ![w].pc = "customer", ![w].duplicate = (b \in stored)]
        BY <1>2, <3>2 DEF CaptureWebhook, AfterInsert
      <4>4. delivery' = [delivery EXCEPT ![w] = next]
        BY <4>1, <4>3
      <4> HIDE DEF next
      <4> QED
        BY <3>2, <4>1, <4>2, <4>4
    <3> QED
      BY <3>1, <3>2
  <2>2. /\ delivery'[w] = next
        /\ \A v \in Deliveries : v # w =>
              delivery'[v] = delivery[v] /\ (Claims(v)' <=> Claims(v))
    BY <2>1, OthersClaims DEF EventsInv
  <2>3. /\ stored' = stored \cup {b}
        /\ owner' = [owner EXCEPT ![b] = IF b \in stored THEN @ ELSE c]
    BY <1>2 DEF CaptureWebhook
  <2>4. Claims(w)' <=> c # None /\ b \notin stored
    BY <2>1, <2>2 DEF Claims
  <2>5. EventTablesOK'
    BY <1>0, <2>1, <2>3 DEF EventsInv, EventTablesOK
  <2>6. /\ owner \in [Bodies -> {None} \cup Connections]
        /\ \A x \in Bodies : x \in stored => x \in stored' /\ owner'[x] = owner[x]
        /\ \A x \in stored' : x \in stored \/ (x = b /\ owner'[x] = c)
    BY <1>0, <2>3 DEF EventsInv, EventTablesOK
  <2>7. stored \subseteq Bodies /\ handed \in [Bodies -> [Connections -> Nat]]
    BY DEF EventsInv, EventTablesOK
  <2> HIDE DEF b, c
  <2>8. ShopsAreMade'
    <3>1. c # None => shop[c] # "none"
      BY DEF EventsInv, ShopsAreMade, c
    <3>2. \A v \in Deliveries : v # w => delivery'[v] = delivery[v]
      BY <2>2
    <3> QED
      BY <1>0, <2>1, <2>2, <3>1, <3>2 DEF EventsInv, ShopsAreMade
  <2>9. OwnersLive'
    BY <1>0, <2>0, <2>6, <2>7 DEF EventsInv, OwnersLive, Live
  <2>10. HandedOnceAsStored'
    <3> SUFFICES ASSUME NEW x \in Bodies, NEW d \in Connections, Live(d)
                 PROVE  handed[x][d] <= (IF x \in stored' /\ owner'[x] = d THEN 1 ELSE 0)
      BY <1>0 DEF HandedOnceAsStored, Live
    <3>1. handed[x][d] \in Nat
      BY <2>7
    <3>2. handed[x][d] <= (IF x \in stored /\ owner[x] = d THEN 1 ELSE 0)
      BY DEF EventsInv, HandedOnceAsStored
    <3> QED
      BY <2>6, <3>1, <3>2
  <2>11. ClaimsHold'
    <3>1. ASSUME NEW v \in Deliveries, Claims(v)', Live(delivery'[v].shop)
          PROVE  /\ delivery'[v].body \in stored'
                 /\ owner'[delivery'[v].body] = delivery'[v].shop
                 /\ handed[delivery'[v].body][delivery'[v].shop] = 0
                 /\ \A u \in Deliveries :
                       Claims(u)' /\ delivery'[u].body = delivery'[v].body
                           /\ delivery'[u].shop = delivery'[v].shop => u = v
      <4>1. ASSUME NEW u \in Deliveries, u # w, Claims(u)', Live(delivery'[u].shop)
            PROVE  /\ delivery'[u] = delivery[u] /\ Claims(u)
                   /\ delivery[u].body \in stored
                   /\ owner[delivery[u].body] = delivery[u].shop
                   /\ handed[delivery[u].body][delivery[u].shop] = 0
                   /\ \A t \in Deliveries :
                         Claims(t) /\ delivery[t].body = delivery[u].body
                             /\ delivery[t].shop = delivery[u].shop => t = u
        BY <2>2, <4>1 DEF EventsInv, ClaimsHold
      <4>2. CASE v = w
        <5>1. /\ c # None /\ b \notin stored /\ delivery'[v].body = b /\ delivery'[v].shop = c
              /\ Live(c)
          BY <2>0, <2>1, <2>2, <2>4, <3>1, <4>2
        <5>2. c \in Connections /\ b \in stored' /\ owner'[b] = c
          BY <1>0, <2>3, <2>6, <5>1
        <5>3. handed[b][c] = 0
          BY <1>0, <2>7, <5>1, <5>2 DEF EventsInv, HandedOnceAsStored
        <5>4. \A u \in Deliveries : Claims(u)' /\ delivery'[u].body = b /\ delivery'[u].shop = c => u = w
          BY <4>1, <5>1
        <5> QED
          BY <4>2, <5>1, <5>2, <5>3, <5>4
      <4>3. CASE v # w
        <5>1. /\ delivery'[v] = delivery[v] /\ Claims(v)
              /\ delivery[v].body \in stored
              /\ owner[delivery[v].body] = delivery[v].shop
              /\ handed[delivery[v].body][delivery[v].shop] = 0
              /\ \A t \in Deliveries :
                    Claims(t) /\ delivery[t].body = delivery[v].body
                        /\ delivery[t].shop = delivery[v].shop => t = v
          BY <3>1, <4>1, <4>3
        <5>2. Claims(w)' => delivery'[w].body # delivery[v].body
          BY <2>1, <2>2, <2>4, <5>1
        <5> QED
          BY <2>2, <2>6, <2>7, <5>1, <5>2
      <4> QED
        BY <4>2, <4>3
    <3> QED
      BY <1>0, <3>1 DEF ClaimsHold, Live
  <2>12. HandedOrClaimed'
    <3> SUFFICES ASSUME NEW x \in stored', faults = 0, owner'[x] # None
                 PROVE  \/ handed[x][owner'[x]] = 1
                        \/ \E v \in Deliveries :
                              Claims(v)' /\ delivery'[v].body = x /\ delivery'[v].shop = owner'[x]
      BY <1>0 DEF HandedOrClaimed
    <3>1. CASE x \in stored
      <4>1. \/ handed[x][owner[x]] = 1
            \/ \E v \in Deliveries :
                  Claims(v) /\ delivery[v].body = x /\ delivery[v].shop = owner[x]
        BY <2>6, <2>7, <3>1 DEF EventsInv, HandedOrClaimed
      <4> QED
        BY <1>0, <2>2, <2>6, <2>7, <3>1, <4>1
    <3>2. CASE x \notin stored
      BY <2>1, <2>2, <2>4, <2>6, <3>2
    <3> QED
      BY <3>1, <3>2
  <2> QED
    BY <2>5, <2>8, <2>9, <2>10, <2>11, <2>12 DEF EventsInv
<1> QED
  BY <1>1, <1>2

(* HandOver: the automations of a living shop get the event once.          *)
LEMMA HandOverKeepsEvents ==
    ASSUME EventsInv, faults \in Nat, NEW w \in Deliveries, HandOver(w)
    PROVE  EventsInv'
<1> DEFINE b == delivery[w].body
           c == delivery[w].shop
<1>0. /\ delivery[w] \in Delivery /\ delivery[w].pc = "hand"
      /\ b \in Bodies /\ c \in Connections /\ shop[c] # "none"
      /\ UNCHANGED <<shop, customers, stored, owner>>
      /\ handed \in [Bodies -> [Connections -> Nat]]
  BY DEF EventsInv, EventTablesOK, HandOver, Is, connectionVars, Delivery, ShopsAreMade
<1>1. PICK next \in Delivery : /\ delivery' = [delivery EXCEPT ![w] = next]
                               /\ next.pc = "idle" /\ next.shop = None
  BY RestIsResting DEF HandOver
<1>2. CASE handed' = handed /\ (delivery[w].duplicate \/ faults' = faults + 1)
           /\ faults' \in {faults, faults + 1}
  <2>1. /\ faults' \in Nat /\ faults' >= faults
        /\ ~Claims(w) \/ faults' > 0
    BY <1>2 DEF Claims
  <2> QED
    BY <1>0, <1>1, <1>2, <2>1, NoClaim
<1>3. CASE /\ ~delivery[w].duplicate /\ faults' = faults
           /\ handed' = [handed EXCEPT ![b][c] = @ + 1]
  <2>1. /\ ~Claims(w)' /\ Claims(w)
        /\ \A v \in Deliveries : v # w =>
              delivery'[v] = delivery[v] /\ (Claims(v)' <=> Claims(v))
    BY <1>0, <1>1, <1>3, OthersClaims DEF EventsInv, Claims
  <2>2. /\ handed' \in [Bodies -> [Connections -> Nat]]
        /\ handed'[b][c] = handed[b][c] + 1
        /\ \A x \in Bodies, d \in Connections : ~(x = b /\ d = c) => handed'[x][d] = handed[x][d]
    BY <1>0, <1>3
  <2>3. Live(c) => /\ b \in stored /\ owner[b] = c /\ handed[b][c] = 0
                   /\ \A v \in Deliveries :
                         Claims(v) /\ delivery[v].body = b /\ delivery[v].shop = c => v = w
    BY <2>1 DEF EventsInv, ClaimsHold
  <2> HIDE DEF b, c
  <2>4. EventTablesOK'
    BY <1>0, <1>1, <2>2 DEF EventsInv, EventTablesOK
  <2>5. ShopsAreMade'
    <3>1. \A v \in Deliveries : /\ delivery'[v].shop # None => shop[delivery'[v].shop] # "none"
                                /\ delivery'[v].pc \in {"customer", "hand"} => delivery'[v].shop # None
      BY <1>1, <2>1 DEF EventsInv, EventTablesOK, ShopsAreMade
    <3>2. \A x \in Bodies, d \in Connections : shop[d] = "none" => handed'[x][d] = 0
      BY <1>0, <2>2 DEF EventsInv, ShopsAreMade
    <3> QED
      BY <1>0, <3>1, <3>2 DEF ShopsAreMade
  <2>6. OwnersLive'
    BY <1>0 DEF EventsInv, OwnersLive, Live
  <2>7. HandedOnceAsStored'
    <3> SUFFICES ASSUME NEW x \in Bodies, NEW d \in Connections, Live(d)
                 PROVE  handed'[x][d] <= (IF x \in stored /\ owner[x] = d THEN 1 ELSE 0)
      BY <1>0 DEF HandedOnceAsStored, Live
    <3>1. CASE x = b /\ d = c
      BY <2>2, <2>3, <3>1
    <3>2. CASE ~(x = b /\ d = c)
      BY <2>2, <3>2 DEF EventsInv, HandedOnceAsStored
    <3> QED
      BY <3>1, <3>2
  <2>8. ClaimsHold'
    <3> SUFFICES ASSUME NEW v \in Deliveries, Claims(v)', Live(delivery'[v].shop)
                 PROVE  /\ delivery'[v].body \in stored
                        /\ owner[delivery'[v].body] = delivery'[v].shop
                        /\ handed'[delivery'[v].body][delivery'[v].shop] = 0
                        /\ \A u \in Deliveries :
                              Claims(u)' /\ delivery'[u].body = delivery'[v].body
                                  /\ delivery'[u].shop = delivery'[v].shop => u = v
      BY <1>0 DEF ClaimsHold, Live
    <3>1. v # w /\ Claims(v) /\ delivery'[v] = delivery[v]
      BY <2>1
    <3>2. \A u \in Deliveries : Claims(u)' => Claims(u) /\ delivery'[u] = delivery[u]
      BY <2>1
    <3>3. /\ delivery[v].body \in stored
          /\ owner[delivery[v].body] = delivery[v].shop
          /\ handed[delivery[v].body][delivery[v].shop] = 0
          /\ \A u \in Deliveries :
                Claims(u) /\ delivery[u].body = delivery[v].body
                    /\ delivery[u].shop = delivery[v].shop => u = v
      BY <3>1 DEF EventsInv, ClaimsHold
    <3>4. ~(delivery[v].body = b /\ delivery[v].shop = c)
      BY <2>1, <2>3, <3>1
    <3>5. delivery[v].body \in Bodies /\ delivery[v].shop \in Connections
      BY <3>1 DEF EventsInv, EventTablesOK, ShopsAreMade, Delivery, Claims
    <3> QED
      BY <2>2, <3>1, <3>2, <3>3, <3>4, <3>5
  <2>9. HandedOrClaimed'
    <3> SUFFICES ASSUME NEW x \in stored, faults = 0, owner[x] # None
                 PROVE  \/ handed'[x][owner[x]] = 1
                        \/ \E v \in Deliveries :
                              Claims(v)' /\ delivery'[v].body = x /\ delivery'[v].shop = owner[x]
      BY <1>0, <1>3 DEF HandedOrClaimed
    <3>1. \/ handed[x][owner[x]] = 1
          \/ \E v \in Deliveries :
                Claims(v) /\ delivery[v].body = x /\ delivery[v].shop = owner[x]
      BY DEF EventsInv, HandedOrClaimed
    <3>2. x \in Bodies /\ owner[x] \in Connections /\ Live(owner[x])
      BY DEF EventsInv, EventTablesOK, OwnersLive
    <3>3. CASE x = b /\ owner[x] = c
      BY <2>2, <2>3, <3>2, <3>3
    <3>4. CASE ~(x = b /\ owner[x] = c)
      BY <2>1, <2>2, <3>1, <3>2, <3>4 DEF b, c
    <3> QED
      BY <3>3, <3>4
  <2> QED
    BY <2>4, <2>5, <2>6, <2>7, <2>8, <2>9 DEF EventsInv
<1>4. \/ handed' = handed /\ (delivery[w].duplicate \/ faults' = faults + 1)
           /\ faults' \in {faults, faults + 1}
      \/ /\ ~delivery[w].duplicate /\ faults' = faults
         /\ handed' = [handed EXCEPT ![b][c] = @ + 1]
  BY DEF HandOver, connectionVars, Fault
<1> QED
  BY <1>2, <1>3, <1>4

LEMMA DeliveryKeepsEvents ==
    ASSUME ChainInv, EventsInv, NEW w \in Deliveries, DeliveryStep(w)
    PROVE  EventsInv'
<1>0. faults \in Nat
  BY DEF ChainInv, ShapeOK, TablesOK
<1>1. ASSUME NEW b \in Bodies, Receive(w, b) PROVE EventsInv'
  <2> DEFINE next == [Resting(b) EXCEPT !.pc = "lookup"]
  <2>1. next \in Delivery /\ next.pc = "lookup" /\ next.shop = None
    BY RestingIsDelivery
  <2>2. /\ delivery' = [delivery EXCEPT ![w] = next] /\ ~Claims(w)
        /\ UNCHANGED <<shop, stored, owner, customers, handed, faults>>
    BY <1>1 DEF Receive, Is, Claims, Input
  <2> HIDE DEF next
  <2>3. faults' \in Nat /\ faults' >= faults /\ next.pc \notin {"customer", "hand"}
    BY <1>0, <2>1, <2>2
  <2> QED
    BY <1>0, <2>1, <2>2, <2>3, NoClaim
<1>2. CASE LookupShop(w)
  <2>1. /\ delivery[w] \in Delivery /\ ~Claims(w)
        /\ UNCHANGED <<shop, stored, owner, customers, handed>>
        /\ faults' \in {faults, faults + 1}
        /\ delivery[w].shop # None => shop[delivery[w].shop] # "none"
    BY <1>2 DEF LookupShop, Is, Claims, Fault, connectionVars, EventsInv, EventTablesOK, ShopsAreMade
  <2>2. PICK c \in {None} \cup Connections :
            /\ delivery' = [delivery EXCEPT ![w] = [@ EXCEPT !.pc = "insert", !.shop = c]]
            /\ c # None => shop[c] # "none"
    <3>1. \A c \in Named(delivery[w].body) : c \in Connections /\ shop[c] # "none"
      BY DEF Named, ChainInv, GrantsAreEarned
    <3>2. CASE \E c \in IF Named(delivery[w].body) = {} THEN {None} ELSE Named(delivery[w].body) :
                  delivery' = [delivery EXCEPT ![w].pc = "insert", ![w].shop = c]
      <4>1. PICK c \in {None} \cup Named(delivery[w].body) :
                  delivery' = [delivery EXCEPT ![w].pc = "insert", ![w].shop = c]
        BY <3>2
      <4>2. delivery' = [delivery EXCEPT ![w] = [@ EXCEPT !.pc = "insert", !.shop = c]]
        BY <4>1 DEF EventsInv, EventTablesOK
      <4> QED
        BY <3>1, <4>1, <4>2
    <3>3. CASE delivery' = [delivery EXCEPT ![w].pc = "insert"]
      <4>1. [delivery[w] EXCEPT !.pc = "insert", !.shop = delivery[w].shop]
               = [delivery[w] EXCEPT !.pc = "insert"]
        BY <2>1 DEF Delivery
      <4>2. delivery' = [delivery EXCEPT ![w] = [@ EXCEPT !.pc = "insert", !.shop = delivery[w].shop]]
        BY <3>3, <4>1
      <4>3. delivery[w].shop \in {None} \cup Connections
        BY <2>1 DEF Delivery
      <4> QED
        BY <2>1, <4>2, <4>3
    <3> QED
      BY <1>2, <3>2, <3>3 DEF LookupShop
  <2> DEFINE next == [delivery[w] EXCEPT !.pc = "insert", !.shop = c]
  <2>3. next \in Delivery /\ next.pc = "insert" /\ next.shop = c
    BY <2>1 DEF Delivery
  <2>4. delivery' = [delivery EXCEPT ![w] = next]
    BY <2>2
  <2> HIDE DEF next
  <2>5. /\ faults' \in Nat /\ faults' >= faults /\ next.pc \notin {"customer", "hand"}
        /\ next.shop # None => shop[next.shop] # "none"
    BY <1>0, <2>1, <2>2, <2>3
  <2> QED
    BY <1>0, <2>1, <2>3, <2>4, <2>5, NoClaim
<1>3. CASE DeliveryDies(w)
  <2>1. /\ UNCHANGED <<shop, stored, owner, customers, handed>> /\ faults' = faults + 1
    BY <1>3 DEF DeliveryDies, Fault
  <2>2. PICK next \in Delivery : /\ delivery' = [delivery EXCEPT ![w] = next]
                                 /\ next.pc = "idle" /\ next.shop = None
    BY <1>3, RestIsResting DEF DeliveryDies
  <2>3. faults' \in Nat /\ faults' >= faults /\ faults' > 0
    BY <1>0, <2>1
  <2> QED
    BY <1>0, <2>1, <2>2, <2>3, NoClaim
<1> QED
  BY <1>0, <1>1, <1>2, <1>3, CaptureKeepsEvents, UpsertKeepsEvents, HandOverKeepsEvents
  DEF DeliveryStep

(* A connection's step, with the cascade of a shop that is deleted.        *)
LEMMA CascadeKeepsEvents ==
    ASSUME EventsInv, faults \in Nat, faults' \in Nat, faults' >= faults, ShopsMove,
           CascadeEvents, UNCHANGED <<delivery, handed>>
    PROVE  EventsInv'
<1> DEFINE gone == {b \in stored : owner[b] # None /\ shop'[owner[b]] = "deleted"}
<1>0. /\ stored' = stored \ gone
      /\ owner' = [b \in Bodies |-> IF b \in gone THEN None ELSE owner[b]]
      /\ customers' \subseteq customers
  BY DEF CascadeEvents
<1>1. /\ stored' \subseteq stored /\ stored \subseteq Bodies
      /\ owner \in [Bodies -> {None} \cup Connections]
      /\ owner' \in [Bodies -> {None} \cup Connections]
      /\ handed \in [Bodies -> [Connections -> Nat]]
      /\ \A b \in stored' : owner'[b] = owner[b] /\ (owner[b] # None => shop'[owner[b]] # "deleted")
      /\ \A b \in stored : b \in stored' \/ (owner[b] # None /\ shop'[owner[b]] = "deleted")
  BY <1>0 DEF EventsInv, EventTablesOK
<1> HIDE DEF gone
<1>2. \A c \in Connections : shop[c] # "none" /\ Live(c)' => Live(c)
  BY DEF ShopsMove
<1>3. EventTablesOK'
  BY <1>0, <1>1 DEF EventsInv, EventTablesOK
<1>4. \A w \in Deliveries :
          /\ delivery[w].shop \in {None} \cup Connections
          /\ delivery[w].pc \in {"customer", "hand"} =>
                delivery[w].shop \in Connections /\ shop[delivery[w].shop] # "none"
  BY DEF EventsInv, EventTablesOK, ShopsAreMade, Delivery
<1>5. ShopsAreMade'
  BY <1>4 DEF EventsInv, ShopsAreMade, ShopsMove
<1>6. ClaimsHold'
  <2> SUFFICES ASSUME NEW v \in Deliveries, Claims(v), Live(delivery[v].shop)'
               PROVE  /\ delivery[v].body \in stored'
                      /\ owner'[delivery[v].body] = delivery[v].shop
                      /\ handed[delivery[v].body][delivery[v].shop] = 0
                      /\ \A u \in Deliveries :
                            Claims(u) /\ delivery[u].body = delivery[v].body
                                /\ delivery[u].shop = delivery[v].shop => u = v
    BY DEF ClaimsHold, Claims
  <2>1. Live(delivery[v].shop) /\ shop'[delivery[v].shop] # "deleted"
    BY <1>2, <1>4 DEF Claims, Live
  <2>2. /\ delivery[v].body \in stored
        /\ owner[delivery[v].body] = delivery[v].shop
        /\ handed[delivery[v].body][delivery[v].shop] = 0
        /\ \A u \in Deliveries :
              Claims(u) /\ delivery[u].body = delivery[v].body
                  /\ delivery[u].shop = delivery[v].shop => u = v
    BY <2>1 DEF EventsInv, ClaimsHold
  <2> QED
    BY <1>1, <2>1, <2>2
<1>7. OwnersLive'
  BY <1>1 DEF EventsInv, OwnersLive, ShopsMove
<1>8. HandedOrClaimed'
  <2> SUFFICES ASSUME NEW x \in stored', faults = 0, owner'[x] # None
               PROVE  \/ handed[x][owner'[x]] = 1
                      \/ \E v \in Deliveries :
                            Claims(v) /\ delivery[v].body = x /\ delivery[v].shop = owner'[x]
    BY DEF HandedOrClaimed, Claims
  <2> QED
    BY <1>1 DEF EventsInv, HandedOrClaimed
<1>9. HandedOnceAsStored'
  <2> SUFFICES ASSUME NEW x \in Bodies, NEW d \in Connections, Live(d)'
               PROVE  handed[x][d] <= (IF x \in stored' /\ owner'[x] = d THEN 1 ELSE 0)
    BY DEF HandedOnceAsStored
  <2>1. CASE shop[d] = "none"
    BY <2>1 DEF EventsInv, ShopsAreMade
  <2>2. CASE Live(d)
    <3>1. handed[x][d] <= (IF x \in stored /\ owner[x] = d THEN 1 ELSE 0)
      BY <2>2 DEF EventsInv, HandedOnceAsStored
    <3>2. x \in stored /\ owner[x] = d => x \in stored' /\ owner'[x] = d
      BY <1>1 DEF Live
    <3>3. handed[x][d] \in Nat
      BY <1>1
    <3> QED
      BY <3>1, <3>2, <3>3
  <2> QED
    BY <2>1, <2>2 DEF ShopsMove
<1> QED
  BY <1>3, <1>5, <1>6, <1>7, <1>8, <1>9 DEF EventsInv

LEMMA InitIntake == IntakeInit => IntakeInv
<1> SUFFICES ASSUME IntakeInit PROVE IntakeInv
  OBVIOUS
<1>1. LimitsOK
  BY ConvertyAssumption DEF IntakeInit, Init, LimitsOK
<1>2. /\ stored = {} /\ customers = {}
      /\ owner = [b \in Bodies |-> None]
      /\ handed = [b \in Bodies |-> [c \in Connections |-> 0]]
      /\ \A w \in Deliveries : /\ delivery[w].pc = "idle" /\ delivery[w].shop = None
      /\ delivery \in [Deliveries -> Delivery]
  <2>1. (CHOOSE b \in Bodies : TRUE) \in Bodies
    BY IntakeAssumption
  <2> QED
    BY <2>1, RestingIsDelivery DEF IntakeInit
<1>3. EventTablesOK
  BY <1>2 DEF EventTablesOK
<1>4. ShopsAreMade /\ ClaimsHold /\ OwnersLive /\ HandedOrClaimed /\ HandedOnceAsStored
  BY <1>2 DEF ShopsAreMade, ClaimsHold, Claims, OwnersLive, HandedOrClaimed, HandedOnceAsStored
<1> QED
  BY <1>1, <1>3, <1>4, ChainStarts DEF IntakeInv, EventsInv

LEMMA StepIntake == IntakeInv /\ [IntakeNext]_intakeVars => IntakeInv'
<1> SUFFICES ASSUME IntakeInv, [IntakeNext]_intakeVars PROVE IntakeInv'
  OBVIOUS
<1>0. ChainInv' /\ faults \in Nat /\ faults' \in Nat
  BY ChainStep DEF IntakeInv, ChainInv, ShapeOK, TablesOK
<1>1. CASE Next /\ CascadeEvents /\ UNCHANGED <<delivery, handed>>
  <2>1. LimitsOK' /\ faults' >= faults /\ ShopsMove
    BY <1>1, NextIsLimited DEF IntakeInv
  <2>2. EventsInv'
    BY <1>0, <1>1, <2>1, CascadeKeepsEvents DEF IntakeInv
  <2> QED
    BY <1>0, <2>1, <2>2 DEF IntakeInv
<1>2. ASSUME NEW w \in Deliveries, DeliveryStep(w) PROVE IntakeInv'
  <2>1. Spent /\ redeemed' = redeemed /\ rejected' = rejected
    BY <1>2 DEF DeliveryStep, Receive, LookupShop, CaptureWebhook, UpsertCustomer, HandOver,
                DeliveryDies, connectionVars, Spent, Smooth
  <2>2. LimitsOK'
    BY <2>1, SpentIsLimited DEF IntakeInv, LimitsOK
  <2> QED
    BY <1>0, <1>2, <2>2, DeliveryKeepsEvents DEF IntakeInv
<1>3. CASE UNCHANGED intakeVars
  <2>1. /\ LimitsOK' /\ UNCHANGED <<stored, owner, customers, delivery, handed, shop, faults>>
    BY <1>3 DEF intakeVars, connectionVars, IntakeInv, LimitsOK
  <2>2. EventTablesOK' /\ ShopsAreMade' /\ ClaimsHold'
    BY <2>1 DEF IntakeInv, EventsInv, EventTablesOK, ShopsAreMade, ClaimsHold, Claims, Live
  <2>3. OwnersLive' /\ HandedOrClaimed' /\ HandedOnceAsStored'
    BY <2>1 DEF IntakeInv, EventsInv, OwnersLive, HandedOrClaimed, HandedOnceAsStored, Claims, Live
  <2> QED
    BY <1>0, <2>1, <2>2, <2>3 DEF IntakeInv, EventsInv
<1> QED
  BY <1>1, <1>2, <1>3 DEF IntakeNext

THEOREM IntakeInvariant == IntakeSpec => []IntakeInv
<1> QED
  BY InitIntake, StepIntake, PTL DEF IntakeSpec

(* The shape of the tables and of the requests' memory.                    *)
THEOREM IntakeTypes == IntakeSpec => []TypeOK
<1>1. IntakeInv => TypeOK
  BY DEF IntakeInv, ChainInv, ShapeOK, TablesOK, LimitsOK, EventsInv, EventTablesOK,
         TypeOK, ConnectionTypeOK
<1> QED
  BY <1>1, IntakeInvariant, PTL

(* Orders are answered once: however many deliveries of an event are       *)
(* handled at the same time, it goes to the automations of the one shop    *)
(* its record names, and once.                                             *)
THEOREM EventsAreHandedOnce == IntakeSpec => []HandedOnceAsStored
<1>1. IntakeInv => HandedOnceAsStored
  BY DEF IntakeInv, EventsInv
<1> QED
  BY <1>1, IntakeInvariant, PTL

(* And it does reach them, unless a call fails or a request dies.          *)
THEOREM EventsReachTheirShop == IntakeSpec => []AttributedIsHanded
<1>1. IntakeInv => AttributedIsHanded
  <2> SUFFICES ASSUME IntakeInv, NEW b \in stored, faults = 0, owner[b] # None,
                      \A w \in Deliveries : Is(w, "idle") \/ delivery[w].body # b
               PROVE  handed[b][owner[b]] = 1
    BY DEF AttributedIsHanded
  <2>1. \/ handed[b][owner[b]] = 1
        \/ \E w \in Deliveries :
              Claims(w) /\ delivery[w].body = b /\ delivery[w].shop = owner[b]
    BY DEF IntakeInv, EventsInv, HandedOrClaimed
  <2> QED
    BY <2>1 DEF Claims, Is
<1> QED
  BY <1>1, IntakeInvariant, PTL

=============================================================================
