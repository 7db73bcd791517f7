----------------------------- MODULE SendQuota -----------------------------
(***************************************************************************)
(* The send budget: RateLimiter.Allow.  Every send, of an automation or of *)
(* an operator, is counted in a row of the shop and one of the platform,   *)
(* in the window that was current when the call began.  One statement      *)
(* counts both rows, each against its ceiling, and the platform's only     *)
(* when the shop's was counted.  Old rows are pruned now and then, by      *)
(* whichever process has not done so for a while.                          *)
(***************************************************************************)
EXTENDS Naturals

CONSTANTS
    Callers,       \* goroutines that call Allow, one call at a time
    Shops,
    ShopOf,        \* the shop each of them sends for
    PerShop,       \* ceiling of a shop's window
    Global,        \* ceiling of the platform's window
    Platform,      \* the scope "global"
    MaxWindow,     \* bound: windows the clock runs through
    MaxCalls,      \* bound: calls of Allow
    MaxLost        \* bound: statements that fail

ASSUME QuotaAssumption ==
    /\ ShopOf \in [Callers -> Shops]
    /\ PerShop \in Nat \ {0} /\ Global \in Nat \ {0}
    /\ Platform \notin Shops
    /\ MaxWindow \in Nat /\ MaxCalls \in Nat /\ MaxLost \in Nat

VARIABLES
    now,           \* the current window
    counted,       \* send_rate_windows: no row counts as 0
    call,          \* the call of each goroutine
    admitted,      \* history: sends Allow let through, by scope and window
    calls,         \* calls begun so far
    lost           \* statements that failed so far

quotaVars == <<now, counted, call, admitted, calls, lost>>

-----------------------------------------------------------------------------

Scopes  == Shops \cup {Platform}
Windows == 0..MaxWindow
Ceiling(scope) == IF scope = Platform THEN Global ELSE PerShop

Answers == {"none", "allowed", "shop", "platform", "error"}
Call == [pc : {"idle", "counting", "counted"}, window : Windows, answer : Answers]

Resting == [pc |-> "idle", window |-> 0, answer |-> "none"]

QuotaInit ==
    /\ now = 0
    /\ counted = [scope \in Scopes |-> [w \in Windows |-> 0]]
    /\ call = [c \in Callers |-> Resting]
    /\ admitted = [scope \in Scopes |-> [w \in Windows |-> 0]]
    /\ calls = 0
    /\ lost = 0

(* Rows older than the previous window.                                    *)
Stale(w) == w + 1 < now

(* windowStart(time.Now()), computed before the statement is sent.         *)
Ask(c) ==
    /\ call[c].pc = "idle"
    /\ calls < MaxCalls
    /\ calls' = calls + 1
    /\ call' = [call EXCEPT ![c] = [pc |-> "counting", window |-> now, answer |-> "none"]]
    /\ UNCHANGED <<now, counted, admitted, lost>>

(* Mutated form: each upsert stands alone, and the platform's row is       *)
(* counted for a shop that is over its own budget too.                     *)
ScopesCountedAlone(c) ==
    LET w == call[c].window IN
    {scope \in {ShopOf[c], Platform} : counted[scope][w] < Ceiling(scope)}

(* The rows the statement of Allow counts: the shop's while its budget     *)
(* lasts, and then the platform's while its own does.                      *)
ScopesCounted(c) ==
    LET w    == call[c].window
        Room(scope) == counted[scope][w] < Ceiling(scope)
    IN  {scope \in {ShopOf[c], Platform} : Room(ShopOf[c]) /\ Room(scope)}

Verdict(c) ==
    CASE ShopOf[c] \notin ScopesCounted(c) -> "shop"
      [] Platform \notin ScopesCounted(c)  -> "platform"
      [] OTHER                             -> "allowed"

Counted(c) ==
    [scope \in Scopes |->
        IF scope \in ScopesCounted(c)
        THEN [counted[scope] EXCEPT ![call[c].window] = @ + 1]
        ELSE counted[scope]]

(* The statement.                                                          *)
Count(c) ==
    /\ call[c].pc = "counting"
    /\ counted' = Counted(c)
    /\ call' = [call EXCEPT ![c].pc = "counted", ![c].answer = Verdict(c)]
    /\ admitted' = IF Verdict(c) = "allowed"
                   THEN [scope \in Scopes |->
                            IF scope \in {ShopOf[c], Platform}
                            THEN [admitted[scope] EXCEPT ![call[c].window] = @ + 1]
                            ELSE admitted[scope]]
                   ELSE admitted
    /\ UNCHANGED <<now, calls, lost>>

(* The statement fails, or it is committed and its answer is lost: the     *)
(* send is refused with the error either way, without a prune.             *)
CountFails(c) ==
    /\ call[c].pc = "counting"
    /\ lost < MaxLost
    /\ lost' = lost + 1
    /\ counted' \in {counted, Counted(c)}
    /\ call' = [call EXCEPT ![c].pc = "counted", ![c].answer = "error"]
    /\ UNCHANGED <<now, admitted, calls>>

(* Mutated form: the cutoff of the prune is the current window.            *)
PrunedToNow ==
    [scope \in Scopes |-> [w \in Windows |-> IF w < now THEN 0 ELSE counted[scope][w]]]

(* What prune leaves.                                                      *)
Pruned == [scope \in Scopes |-> [w \in Windows |-> IF Stale(w) THEN 0 ELSE counted[scope][w]]]

(* prune, which each process runs at most every five windows and again     *)
(* after a restart, so that any call may be the one that does; it may fail *)
(* unnoticed.  Then Allow returns.                                         *)
Return(c) ==
    /\ call[c].pc = "counted"
    /\ \/ UNCHANGED counted
       \/ call[c].answer # "error" /\ counted' = Pruned
    /\ call' = [call EXCEPT ![c] = Resting]
    /\ UNCHANGED <<now, admitted, calls, lost>>

Tick ==
    /\ now < MaxWindow
    /\ now' = now + 1
    /\ UNCHANGED <<counted, call, admitted, calls, lost>>

QuotaNext ==
    \/ \E c \in Callers : Ask(c) \/ Count(c) \/ CountFails(c) \/ Return(c)
    \/ Tick

QuotaSpec == QuotaInit /\ [][QuotaNext]_quotaVars

-----------------------------------------------------------------------------

QuotaTypeOK ==
    /\ now \in Windows
    /\ counted \in [Scopes -> [Windows -> Nat]]
    /\ call \in [Callers -> Call]
    /\ admitted \in [Scopes -> [Windows -> Nat]]
    /\ calls \in 0..MaxCalls
    /\ lost \in 0..MaxLost

(* "Keeps two sends in the same millisecond from both slipping past the    *)
(* limit": of the current and the previous window, no more sends are let   *)
(* through than the shop's and the platform's budget, also when a call     *)
(* began in one window and is counted in the next.                         *)
QuotaHolds ==
    \A scope \in Scopes, w \in Windows :
        ~Stale(w) => admitted[scope][w] <= Ceiling(scope)

(* "A merchant who is over their own budget must not be able to spend the  *)
(* platform's capacity on sends that never happen": the platform's row     *)
(* counts the sends let through, and besides only those whose answer was   *)
(* lost.                                                                   *)
PlatformCountsSends ==
    \A w \in Windows : ~Stale(w) =>
        /\ admitted[Platform][w] <= counted[Platform][w]
        /\ counted[Platform][w] <= admitted[Platform][w] + lost

-----------------------------------------------------------------------------
(* Promises the code does not keep: TLC finds a counterexample to each.    *)

(* The budget also holds for windows that are long over: a call that was   *)
(* held up for two windows finds its row pruned and starts a new one.      *)
QuotaAlwaysHolds ==
    \A scope \in Scopes, w \in Windows : admitted[scope][w] <= Ceiling(scope)

(* The shop's row counts the shop's sends: it is counted too when the      *)
(* platform then refuses.                                                  *)
ShopCountsSends ==
    \A shop \in Shops, w \in Windows : ~Stale(w) =>
        counted[shop][w] <= admitted[shop][w] + lost

=============================================================================
