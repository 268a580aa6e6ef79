----------------------------- MODULE FlexRelay -----------------------------
(***************************************************************************)
(* The dialogue of a Flex sync with its relay (flex/sync.ts): one          *)
(* send-request, then get-statement until Interactive Brokers has the      *)
(* statement ready, every call through a server that allows each user one  *)
(* call a second and ten a minute (ib/throttling.py, ib/api.py), or        *)
(* through the local agent, which has no limit.                            *)
(*                                                                         *)
(* Time is in half-seconds.  A call reaches its relay, is answered after a *)
(* while, and the sync then sleeps: the three are one step, since only the *)
(* instant of the call matters to the server, and `wake` is the time left  *)
(* before the next call.  The two histories of the server are the ages of  *)
(* the calls it has recorded, with the sync that made them.                *)
(***************************************************************************)
EXTENDS Integers, FiniteSets

CONSTANTS
    Sync,           \* syncs of one user: two accounts, two tabs, two in a row
    Latency,        \* how long a call may take to be answered
    Mood,           \* what Interactive Brokers may answer a sync: sets of codes
    Patience        \* bound: the last moment a sync may start, in half-seconds

ASSUME RelayAssumption ==
    /\ Latency \subseteq Nat /\ Patience \in Nat
    /\ Mood \subseteq SUBSET {"generating", "overloaded"}

\* The schedule of the browser, in half-seconds.
FirstStatementWait == 3

\* Mutant: a poll every five seconds.
PollWaitShort == 10

PollWait == 14
Overloaded == 20
MaxAttempts == 12
MaxThrottleWaits == 4
MaxRetryAfter == 130

\* What a statement that is not ready may answer, and how long the sync then sleeps.
RetryWait == [generating |-> PollWait, overloaded |-> Overloaded]

\* The limits of the server: so many calls over so many half-seconds.
Burst == [calls |-> 1, window |-> 2]
Rate == [calls |-> 10, window |-> 120]

Outcome == {"ok", "rate-limited", "refused-by-ib", "flex-retry-exhausted"}
Step == {"unstarted", "send-request", "get-statement", "done"}

VARIABLES
    step,           \* where each sync stands
    relay,          \* who carries it, chosen when it starts
    mood,           \* what Interactive Brokers answers it while not ready
    wake,           \* half-seconds before its next call
    tries,        \* get-statement calls answered
    waits,          \* throttleWaitsLeft
    outcome,        \* how it ended
    burst, rate,    \* the two histories of the server: [by, age]
    clock           \* half-seconds since the beginning, up to Patience

loop == <<step, relay, mood, wake, tries, waits, outcome>>
flexVars == <<loop, burst, rate, clock>>

FlexInit ==
    /\ step = [s \in Sync |-> "unstarted"]
    /\ relay \in [Sync -> {"server", "agent"}]
    /\ mood \in [Sync -> Mood]
    /\ wake = [s \in Sync |-> 0]
    /\ tries = [s \in Sync |-> 0]
    /\ waits = [s \in Sync |-> MaxThrottleWaits]
    /\ outcome = [s \in Sync |-> "none"]
    /\ burst = {} /\ rate = {}
    /\ clock = 0

-----------------------------------------------------------------------------
(* The throttle of the server.                                             *)

Room(history, limit) == Cardinality(history) < limit.calls
Oldest(history) == CHOOSE e \in history : \A f \in history : f.age <= e.age

Record(history, s) == history \cup {[by |-> s, age |-> 0]}

\* Ninja asks both throttles on every call; the one that has room records the call
\* even when the other refuses it.
Allowed == Room(burst, Burst) /\ Room(rate, Rate)
Recorded(history, limit, s) == IF Room(history, limit) THEN Record(history, s) ELSE history

\* The longest of the windows still running, rounded up to a second, and one more
\* second for two clocks that differ, never above the cap.
Remaining(history, limit) ==
    IF Room(history, limit) THEN 0 ELSE limit.window - Oldest(history).age
RetryAfter ==
    LET left == IF Remaining(burst, Burst) > Remaining(rate, Rate)
                THEN Remaining(burst, Burst) ELSE Remaining(rate, Rate)
        seconds == (left + 1) \div 2
    IN  IF 2 * seconds + 2 > MaxRetryAfter THEN MaxRetryAfter ELSE 2 * seconds + 2

-----------------------------------------------------------------------------
(* The loop of the browser.                                                *)

Running(s) == step[s] \in {"send-request", "get-statement"}

Finish(s, how) ==
    /\ step' = [step EXCEPT ![s] = "done"]
    /\ outcome' = [outcome EXCEPT ![s] = how]
    /\ wake' = [wake EXCEPT ![s] = 0]

Start(s) ==
    /\ step[s] = "unstarted"
    /\ step' = [step EXCEPT ![s] = "send-request"]
    /\ UNCHANGED <<relay, mood, wake, tries, waits, outcome, burst, rate, clock>>

\* A call of a sync that is awake: both throttles see it, unless the agent carries it.
Calls(s) ==
    /\ Running(s) /\ wake[s] = 0
    /\ IF relay[s] = "agent" THEN UNCHANGED <<burst, rate>>
       ELSE /\ burst' = Recorded(burst, Burst, s)
            /\ rate' = Recorded(rate, Rate, s)
    /\ UNCHANGED <<relay, mood, clock>>

\* A 429 is waited out, as long as the sync has waits left.
Throttled(s) ==
    /\ Calls(s)
    /\ relay[s] = "server" /\ ~Allowed
    /\ UNCHANGED tries
    /\ \/ /\ waits[s] > 0
          /\ waits' = [waits EXCEPT ![s] = @ - 1]
          /\ wake' = [wake EXCEPT ![s] = RetryAfter]
          /\ UNCHANGED <<step, outcome>>
       \/ /\ waits[s] = 0
          /\ Finish(s, "rate-limited")
          /\ UNCHANGED waits

Through(s) == Calls(s) /\ (relay[s] = "agent" \/ Allowed) /\ UNCHANGED waits

Sent(s) ==
    /\ step[s] = "send-request" /\ Through(s)
    /\ \E delay \in Latency :
          /\ step' = [step EXCEPT ![s] = "get-statement"]
          /\ wake' = [wake EXCEPT ![s] = delay + FirstStatementWait]
    /\ UNCHANGED <<tries, outcome>>

\* The twelfth answer that is not ready ends the sync, after its sleep.
NotReady(s) ==
    /\ step[s] = "get-statement" /\ Through(s)
    /\ tries' = [tries EXCEPT ![s] = @ + 1]
    /\ IF tries[s] + 1 = MaxAttempts
       THEN Finish(s, "flex-retry-exhausted")
       ELSE /\ \E code \in mood[s], delay \in Latency :
                  wake' = [wake EXCEPT ![s] = delay + RetryWait[code]]
            /\ UNCHANGED <<step, outcome>>

Ready(s) == step[s] = "get-statement" /\ Through(s) /\ Finish(s, "ok") /\ UNCHANGED tries

\* The relay times out or Interactive Brokers refuses for good.
Refused(s) == Through(s) /\ Finish(s, "refused-by-ib") /\ UNCHANGED tries

-----------------------------------------------------------------------------
(* Time: to the next call, or by half-seconds while a sync may still start.*)

Aged(history, limit, d) ==
    {[e EXCEPT !.age = @ + d] : e \in {f \in history : f.age + d < limit.window}}

Unstarted == {s \in Sync : step[s] = "unstarted"}
Hurry == \A s \in Sync : step[s] = "unstarted" => clock < Patience

Elapse ==
    /\ \A s \in Sync : Running(s) => wake[s] > 0
    /\ \E s \in Sync : Running(s) \/ step[s] = "unstarted"
    /\ LET next == CHOOSE d \in {wake[s] : s \in {r \in Sync : Running(r)}} :
                      \A s \in Sync : Running(s) => d <= wake[s]
           d == IF Unstarted = {} THEN next ELSE 1
       IN  /\ Hurry
           /\ wake' = [s \in Sync |-> IF Running(s) THEN wake[s] - d ELSE 0]
           /\ burst' = Aged(burst, Burst, d)
           /\ rate' = Aged(rate, Rate, d)
           /\ clock' = IF Unstarted = {} THEN clock ELSE clock + d
    /\ UNCHANGED <<step, relay, mood, tries, waits, outcome>>

FlexNext ==
    \/ \E s \in Sync : Start(s) \/ Throttled(s) \/ Sent(s) \/ NotReady(s) \/ Ready(s) \/ Refused(s)
    \/ Elapse

FlexSpec == FlexInit /\ [][FlexNext]_flexVars

-----------------------------------------------------------------------------
\* The schedule of the browser fits the limits of the server: whatever Interactive
\* Brokers answers and for however long, a sync is never turned away because of its own
\* calls; the first time it is, another sync of the same user has calls in the server's
\* windows.  (Only the first: one throttle records the call the other one refuses, so a
\* sync that others have delayed spends more of its minute than its schedule says.)
LoneSyncNeverRefused ==
    [][\A s \in Sync :
         waits[s] = MaxThrottleWaits /\ waits'[s] < waits[s]
         => \E e \in burst \cup rate : e.by # s]_flexVars

=============================================================================
