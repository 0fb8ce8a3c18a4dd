------------------------------ MODULE RiskGate ------------------------------
(***************************************************************************)
(* The P4 risk manager (yatl/risk): the hash-chained portfolio state, the  *)
(* circuit breakers assessed on it, the latched Kill Switch that consumes  *)
(* the assessments, the authorization that binds them to one strategy      *)
(* decision, and the adapter that turns an authorization into P2 fills.    *)
(* P4 keeps no clock of its own: a caller observes the portfolio bar by    *)
(* bar, feeds the switch, asks for an authorization and hands it to the    *)
(* adapter.  The caller modelled here reports the fills truthfully; only   *)
(* when the state machine refuses the truthful report does it fall back on *)
(* the one it accepts.  Positions are one unit; prices and money are       *)
(* integers (fees and sizing are in RiskSizing).                           *)
(***************************************************************************)
EXTENDS Integers, FiniteSets

CONSTANTS
    Prices,          \* prices a bar may touch
    Brackets,        \* <<stop, target>> of the strategy's setups
    StartCash,       \* initial equity, flat
    SessionLoss,     \* <<n, d>>: max_session_loss_fraction
    Drawdown,        \* <<n, d>>: max_drawdown_fraction
    MaxLosses,       \* max_consecutive_losses
    Day,             \* bars per UTC day
    MaxTime,         \* bound: bars observed
    Prompt           \* the caller finishes a bar before it observes the next

\* The limits of the policy are fixed and positive (RiskPolicy.__post_init__).
ASSUME RiskAssumption ==
    /\ Prices \subseteq Nat \ {0}
    /\ Brackets \subseteq Nat \X Nat
    /\ {StartCash, MaxLosses, Day, MaxTime} \subseteq Nat \ {0}
    /\ {SessionLoss, Drawdown} \subseteq (Nat \ {0}) \X (Nat \ {0})
    /\ Prompt \in BOOLEAN

VARIABLES
    pf,     \* ManagedPortfolioState
    ks,     \* KillSwitchState
    ad,     \* RiskManagedPaperAdapter with its fill engine
    auth,   \* the authorization the caller holds, or NoAuth
    led     \* the paper ledger: cash and unreported close; by the fills alone, the
            \* loss streak and the PnL of the session, and which of them the managed
            \* state misses a trade of that one bar opened and closed

riskVars == <<pf, ks, ad, auth, led>>

Actions == {"ENTER_LONG", "EXIT_LONG", "NO_TRADE"}
NoAuth == [time |-> -1, action |-> "NO_TRADE", approved |-> FALSE, quantity |-> 0]
NoClose == [closed |-> FALSE, pnl |-> 0]
Flat == [quantity |-> 0, entry |-> 0, stop |-> 0, target |-> 0]

Larger(a, b) == IF a > b THEN a ELSE b

\* apply_portfolio_observation(None, ...): flat, sequence zero, new session;
\* the first Kill Switch event is STARTUP.
RiskInit ==
    /\ pf = [time |-> 0, session |-> 0, sessionEquity |-> StartCash,
             equity |-> StartCash, quantity |-> 0, peak |-> StartCash,
             sessionPnl |-> 0, losses |-> 0]
    /\ ks = [mode |-> "TRIGGERED", reason |-> "FAIL_CLOSED_STARTUP",
             breakers |-> {}, circuit |-> [time |-> -1], time |-> -1]
    /\ ad = [pos |-> Flat, last |-> -1]
    /\ auth = NoAuth
    /\ led = [cash |-> StartCash, close |-> NoClose, streak |-> 0, day |-> 0, missed |-> {}]
-----------------------------------------------------------------------------
(* Portfolio state *)

\* What _next_state accepts as the close of an observation
CloseAccepted(close, quantity) ==
    IF close.closed THEN pf.quantity > 0 /\ quantity = 0
    ELSE pf.quantity > 0 => quantity = pf.quantity

\* What the fills themselves amount to: losing closes since the last other
TrueStreak(streak, pnl) == IF pnl < 0 THEN streak + 1 ELSE 0

\* A breakeven does not end the streak
StreakPastBreakeven(streak, close) ==
    IF ~close.closed \/ close.pnl = 0 THEN streak
    ELSE IF close.pnl < 0 THEN streak + 1 ELSE 0

ObservedStreak(streak, close) ==
    IF ~close.closed THEN streak
    ELSE IF close.pnl < 0 THEN streak + 1 ELSE 0

\* One observation of the next bar.  At 00:00 UTC the caller starts a new
\* session, which an observation that reports a close may not do.
Observe(mark) ==
    LET time == pf.time + 1
        quantity == ad.pos.quantity
        equity == led.cash + quantity * mark
        close == IF CloseAccepted(led.close, quantity) THEN led.close ELSE NoClose
        reset == time % Day = 0 /\ ~close.closed
    IN /\ time <= MaxTime
       /\ Prompt => ad.last = pf.time
       /\ CloseAccepted(close, quantity)
       /\ equity > 0
       /\ pf' = [time |-> time,
                 session |-> IF reset THEN time ELSE pf.session,
                 sessionEquity |-> IF reset THEN equity ELSE pf.sessionEquity,
                 equity |-> equity,
                 quantity |-> quantity,
                 peak |-> Larger(pf.peak, equity),
                 sessionPnl |-> IF reset THEN 0 ELSE pf.sessionPnl + close.pnl,
                 losses |-> ObservedStreak(pf.losses, close)]
       /\ led' = [led EXCEPT !.close = NoClose,
                              !.day = IF reset THEN 0 ELSE @,
                              !.missed = IF reset THEN @ \ {"session"} ELSE @]
       /\ UNCHANGED <<ks, ad, auth>>
-----------------------------------------------------------------------------
(* Circuit breakers and Kill Switch *)

AtLeast(amount, base, fraction) == amount * fraction[2] >= base * fraction[1]

Triggered ==
    {b \in {"SESSION_LOSS_LIMIT", "DRAWDOWN_LIMIT", "CONSECUTIVE_LOSS_LIMIT"} :
        CASE b = "SESSION_LOSS_LIMIT" ->
                AtLeast(Larger(-pf.sessionPnl, 0), pf.sessionEquity, SessionLoss)
          [] b = "DRAWDOWN_LIMIT" ->
                AtLeast(pf.peak - pf.equity, pf.peak, Drawdown)
          [] OTHER -> pf.losses >= MaxLosses}

\* RiskRequest: an entry needs a flat portfolio, an exit an open one
RequestValid(action) ==
    /\ action = "ENTER_LONG" => pf.quantity = 0
    /\ action = "EXIT_LONG" => pf.quantity > 0

\* The digest of an assessment stands for the managed state, the strategy's
\* action and the switch flag of the request it was made for.
Evidence(action, active) ==
    [time |-> pf.time, action |-> action, active |-> active]

Active == ks.mode = "TRIGGERED"

EvidenceIsNew == pf.time > ks.circuit.time

\* CIRCUIT_OBSERVATION: breakers accumulate and latch
KillSwitchObserve(action, flag) ==
    /\ RequestValid(action)
    /\ EvidenceIsNew
    /\ ks' = [mode |-> IF Triggered # {} \/ Active THEN "TRIGGERED" ELSE "INACTIVE",
              reason |-> CASE Triggered # {} -> "CIRCUIT_BREAKER_TRIGGERED"
                           [] Triggered = {} /\ Active -> "LATCHED_UNTIL_MANUAL_RESET"
                           [] OTHER -> "CIRCUIT_CLEAR",
              breakers |-> IF Triggered # {} \/ Active THEN ks.breakers \cup Triggered
                           ELSE {},
              circuit |-> Evidence(action, flag), time |-> pf.time]
    /\ UNCHANGED <<pf, ad, auth, led>>

\* MANUAL_RESET: only a triggered switch, only on clear evidence
KillSwitchReset(action, flag) ==
    /\ RequestValid(action)
    /\ EvidenceIsNew
    /\ Active
    /\ Triggered = {}
    /\ ks' = [mode |-> "INACTIVE", reason |-> "MANUAL_RESET", breakers |-> {},
              circuit |-> Evidence(action, flag), time |-> pf.time]
    /\ UNCHANGED <<pf, ad, auth, led>>
-----------------------------------------------------------------------------
(* Authorization *)

\* Any consumed evidence would do
EntryEvidenceOnce == ks.circuit.time >= 0

\* Entry requires the latest consumed circuit evidence
EntryEvidenceConsumed == ks.circuit = Evidence("ENTER_LONG", Active)

EntryApprovedLatched(qualified, protective) ==
    qualified /\ Triggered = {} /\ protective

EntryApproved(qualified, protective) ==
    /\ ~Active
    /\ qualified
    /\ Triggered = {}
    /\ protective

\* authorize_paper_request: an entry is approved or rejected, an exit is
\* always approved, anything else is no action.  The adapter takes the bars
\* in order, none twice and none left out.
Authorize(action) ==
    /\ auth = NoAuth
    /\ pf.time = ad.last + 1
    /\ RequestValid(action)
    /\ action = "ENTER_LONG" =>
          /\ EntryEvidenceConsumed
          /\ Triggered # {} => Active
    /\ \E qualified, protective \in BOOLEAN :
          auth' = [time |-> pf.time, action |-> action,
                   approved |-> \/ action = "EXIT_LONG"
                                \/ /\ action = "ENTER_LONG"
                                   /\ EntryApproved(qualified, protective),
                   quantity |-> pf.quantity]
    /\ UNCHANGED <<pf, ks, ad, led>>
-----------------------------------------------------------------------------
(* Adapter and fill engine *)

Bars == {c \in [open : Prices, low : Prices, high : Prices] :
               c.low <= c.open /\ c.open <= c.high}

\* PaperFillEngine._protective_exit: the price of the stop or target fill
\* within the bar, 0 when neither is touched; the stop has priority.
ProtectiveExit(pos, c) ==
    CASE c.open <= pos.stop -> c.open
      [] c.open > pos.stop /\ c.open >= pos.target -> pos.target
      [] c.open > pos.stop /\ c.open < pos.target /\ c.low <= pos.stop -> pos.stop
      [] c.open > pos.stop /\ c.open < pos.target /\ c.low > pos.stop
            /\ c.high >= pos.target -> pos.target
      [] OTHER -> 0

\* Whatever the state missed of the streak is over with a trade that did not lose
MissedBy(pnl, sameBar) ==
    IF sameBar THEN {"streak", "session"}
    ELSE IF pnl >= 0 THEN led.missed \ {"streak"} ELSE led.missed

Closed(pos, price, cash, sameBar) ==
    LET pnl == price - pos.entry
    IN [cash |-> cash + price, streak |-> TrueStreak(led.streak, pnl),
        close |-> [closed |-> TRUE, pnl |-> pnl],
        day |-> led.day + pnl, missed |-> MissedBy(pnl, sameBar)]

\* RiskManagedPaperAdapter._intent and process: HOLD lets the bar's protective
\* exit happen, EXIT_LONG fills at the open, an approved ENTER_LONG opens the
\* position within the bracket and may be stopped out in the same bar.
ProcessHold(c) ==
    /\ auth # NoAuth
    /\ auth.quantity = ad.pos.quantity
    /\ auth.action # "EXIT_LONG"
    /\ auth.action = "ENTER_LONG" => ~auth.approved
    /\ LET price == IF ad.pos = Flat THEN 0 ELSE ProtectiveExit(ad.pos, c)
       IN IF price = 0
          THEN /\ ad' = [ad EXCEPT !.last = auth.time]
               /\ UNCHANGED led
          ELSE /\ ad' = [pos |-> Flat, last |-> auth.time]
               /\ led' = Closed(ad.pos, price, led.cash, FALSE)
    /\ auth' = NoAuth
    /\ UNCHANGED <<pf, ks>>

ProcessExit(c) ==
    /\ auth # NoAuth /\ auth.action = "EXIT_LONG" /\ auth.approved
    /\ ad.pos # Flat
    /\ ad' = [pos |-> Flat, last |-> auth.time]
    /\ led' = Closed(ad.pos, c.open, led.cash, FALSE)
    /\ auth' = NoAuth
    /\ UNCHANGED <<pf, ks>>

ProcessEnter(c, bracket) ==
    /\ auth # NoAuth /\ auth.action = "ENTER_LONG" /\ auth.approved
    /\ ad.pos = Flat
    /\ bracket[1] < c.open /\ c.open < bracket[2]
    /\ LET pos == [quantity |-> 1, entry |-> c.open,
                   stop |-> bracket[1], target |-> bracket[2]]
           price == ProtectiveExit(pos, c)
       IN IF price = 0
          THEN /\ ad' = [pos |-> pos, last |-> auth.time]
               /\ led' = [led EXCEPT !.cash = @ - c.open]
          ELSE /\ ad' = [pos |-> Flat, last |-> auth.time]
               /\ led' = Closed(pos, price, led.cash - c.open, TRUE)
    /\ auth' = NoAuth
    /\ UNCHANGED <<pf, ks>>

\* The caller drops an authorization the adapter refused (P2 rejected the
\* fill, or the position it was made for is gone).
Abandon ==
    /\ auth # NoAuth
    /\ auth' = NoAuth
    /\ UNCHANGED <<pf, ks, ad, led>>
-----------------------------------------------------------------------------
RiskNext ==
    \/ \E mark \in Prices : Observe(mark)
    \/ \E action \in Actions :
          \/ \E flag \in BOOLEAN : KillSwitchObserve(action, flag) \/ KillSwitchReset(action, flag)
          \/ Authorize(action)
    \/ \E c \in Bars :
          \/ ProcessHold(c) \/ ProcessExit(c)
          \/ \E bracket \in Brackets : ProcessEnter(c, bracket)
    \/ Abandon

RiskSpec == RiskInit /\ [][RiskNext]_riskVars
-----------------------------------------------------------------------------
RiskTypes ==
    /\ pf.time \in 0 .. MaxTime /\ pf.session \in 0 .. pf.time
    /\ pf.quantity \in {0, 1} /\ pf.peak >= pf.equity
    /\ ks.mode \in {"TRIGGERED", "INACTIVE"}
    /\ (ks.mode = "INACTIVE") => ks.breakers = {}
    /\ ks.circuit.time <= pf.time
    /\ auth.action \in Actions

EntryFill == ad.pos = Flat /\ led'.cash < led.cash

\* Every entry fill happens under an inactive switch that consumed the
\* evidence of the very bar the entry was decided on, with no breaker
\* triggered, for a caller that finishes a bar before it observes the next.
EntryGuardedStep ==
    EntryFill => ~Active /\ Triggered = {} /\ ks.circuit.time = pf.time

EntryGuarded == [][EntryGuardedStep]_riskVars

\* The adapter never looks at the switch: an authorization the caller uses
\* late, after more bars and switch events, is filled under an active Kill
\* Switch only if it was given on a state that could not show a trade the bar
\* before opened and closed.
UntoldEntryStep == EntryFill /\ Active => "streak" \in led.missed

\* The portfolio state agrees with the fills once they have been observed: its
\* position always; its loss streak and the PnL of its session except for trades
\* opened and closed within one bar, which _next_state refuses to be told of: the
\* streak until the next trade that does not lose, the PnL until the next session.
StateFollowsFills ==
    (~led.close.closed /\ pf.time > ad.last) =>
        /\ pf.quantity = ad.pos.quantity
        /\ pf.losses = led.streak \/ "streak" \in led.missed
        /\ pf.sessionPnl = led.day \/ "session" \in led.missed

\* The loss-streak breaker has tripped on a flat, fully reported portfolio.
StreakLocked ==
    /\ Active /\ pf.losses >= MaxLosses
    /\ ad.pos = Flat /\ pf.quantity = 0 /\ ~led.close.closed
    /\ ~auth.approved

\* The loss-streak breaker needs a win or a breakeven to clear and blocks the
\* entries that could bring one: once tripped, no operator action
\* and no later bar rearms the switch (only a new state chain does).
StreakLockIsFinalStep == StreakLocked => StreakLocked'

StreakLockIsFinal == [][StreakLockIsFinalStep]_riskVars

\* An entry is filled only while nothing forbids it: for a caller that finishes each
\* bar, on the circuit evidence of that very bar with no breaker tripped; for one that
\* uses its authorizations late, still never under an active Kill Switch, unless a bar
\* opened a position and closed it again, unseen by the state the authorization was
\* given on; and a loss streak at its limit keeps the switch locked
\* (authorize_paper_request, RiskManagedPaperAdapter, kill_switch).
EntriesAreGuardedStep ==
    /\ UntoldEntryStep
    /\ Prompt => EntryGuardedStep
    /\ StreakLockIsFinalStep

EntriesAreGuarded == [][EntriesAreGuardedStep]_riskVars

\* A session begins at the latest midnight the portfolio was observed at.
SessionIsToday == pf.session = pf.time - (pf.time % Day)
=============================================================================
