---------------------------- MODULE OracleBudget ----------------------------
(***************************************************************************)
(* The daily OpenAI budget of oracle_service (src/rust/oracle_service/src/ *)
(* main.rs, allow_budget and the helpers it calls).  Every request that    *)
(* reaches openai_conflict_check runs, on some tokio worker thread and     *)
(* with no lock:                                                           *)
(*                                                                         *)
(*   st = load_budget()        read oracle_budget.json; unreadable or      *)
(*                             unparsable text gives the default state;    *)
(*   if st.date != today()     reset calls and tokens;                     *)
(*   if over either limit      return false;                               *)
(*   st += (1, 900); save_budget(st)   fs::write: truncate, then write;    *)
(*   return true.                                                          *)
(*                                                                         *)
(* A thread's local copy is `local`; the file is a record or Truncated     *)
(* (created, not yet written: it parses as nothing).  Days are numbers,    *)
(* NoDate is the default state's empty date.                               *)
(***************************************************************************)
EXTENDS Naturals, FiniteSets

CONSTANTS
    Threads,        \* requests in flight at once
    MaxCalls,       \* daily_max_calls
    MaxTokens,      \* daily_max_tokens
    TokensPerCall,  \* add_tokens of openai_conflict_check (900)
    MaxDay,         \* days the model runs
    MaxCrashes,     \* bound on process restarts
    NoDate,         \* the date "" of BudgetState::default()
    Truncated,      \* the file between its truncation and its write
    Missing         \* no file yet

ASSUME BudgetAssumption ==
    /\ Threads # {} /\ IsFiniteSet(Threads)
    /\ MaxCalls \in Nat /\ MaxTokens \in Nat /\ TokensPerCall \in Nat \ {0}
    /\ MaxDay \in Nat /\ MaxCrashes \in Nat
    /\ NoDate \notin Nat /\ Truncated # Missing

Days == 0..MaxDay
Budgets == [date : Days \cup {NoDate}, calls : 0..MaxCalls, tokens : 0..MaxTokens]

\* A truncated or missing file is no budget: it does not parse.
ASSUME MarkerAssumption == Truncated \notin Budgets /\ Missing \notin Budgets

\* The cap allow_budget enforces: daily_max_calls calls, and no more calls
\* than daily_max_tokens pays for.
Cap == IF MaxCalls * TokensPerCall <= MaxTokens THEN MaxCalls
       ELSE MaxTokens \div TokensPerCall

VARIABLES
    day,      \* today()
    file,     \* oracle_budget.json
    pc,       \* pc[t]: "idle", "truncate" (limits passed) or "write" (truncated)
    local,    \* local[t]: the thread's st
    granted,  \* ghost: granted[d] = calls allowed against the budget of day d,
              \* counted up to Cap + 1 (= over the cap)
    crashes

vars == <<day, file, pc, local, granted, crashes>>

TypeOK ==
    /\ day \in Days
    /\ file \in Budgets \cup {Truncated, Missing}
    /\ pc \in [Threads -> {"idle", "truncate", "write"}]
    /\ local \in [Threads -> Budgets]
    /\ granted \in [Days -> 0..Cap + 1]
    /\ crashes \in 0..MaxCrashes

\* BudgetState::default()
Default == [date |-> NoDate, calls |-> 0, tokens |-> 0]

\* load_budget: the file's state, or the default when it is missing or
\* does not parse.
LoadBudget == IF file \in Budgets THEN file ELSE Default

Init ==
    /\ day = 0
    /\ file = Missing
    /\ pc = [t \in Threads |-> "idle"]
    /\ local = [t \in Threads |-> Default]
    /\ granted = [d \in Days |-> 0]
    /\ crashes = 0

\* Mutant: the new date set, the day's counters not zeroed.
ResetDateOnly(st) == IF st.date # day THEN [st EXCEPT !.date = day] ELSE st

\* A new day starts from zero.
ResetForToday(st) ==
    IF st.date # day THEN [date |-> day, calls |-> 0, tokens |-> 0] ELSE st

\* Mutant: the call limit tested with > on the calls made so far.
OverLimitsOffByOne(st) ==
    st.calls > MaxCalls \/ st.tokens + TokensPerCall > MaxTokens

\* The two limit tests of allow_budget: TRUE when the call is refused.
OverLimits(st) ==
    st.calls + 1 > MaxCalls \/ st.tokens + TokensPerCall > MaxTokens

\* allow_budget up to save_budget: load, reset, test, add, and the
\* truncating create of fs::write.  Refused: return false.
Load(t) ==
    /\ pc[t] = "idle"
    /\ LET st == ResetForToday(LoadBudget) IN
         IF OverLimits(st)
         THEN UNCHANGED <<file, pc, local>>
         ELSE /\ local' = [local EXCEPT ![t] = [st EXCEPT !.calls = @ + 1,
                                                         !.tokens = @ + TokensPerCall]]
              /\ pc' = [pc EXCEPT ![t] = "truncate"]
              /\ UNCHANGED file
    /\ UNCHANGED <<day, granted, crashes>>

\* fs::write: File::create truncates the file ...
Truncate(t) ==
    /\ pc[t] = "truncate"
    /\ file' = Truncated
    /\ pc' = [pc EXCEPT ![t] = "write"]
    /\ UNCHANGED <<day, local, granted, crashes>>

\* ... and write_all puts the new state; allow_budget returns true.
Write(t) ==
    /\ pc[t] = "write"
    /\ file' = local[t]
    /\ pc' = [pc EXCEPT ![t] = "idle"]
    /\ granted' = [granted EXCEPT ![local[t].date] = IF @ > Cap THEN @ ELSE @ + 1]
    /\ UNCHANGED <<day, local, crashes>>

NextDay ==
    /\ day < MaxDay
    /\ day' = day + 1
    /\ UNCHANGED <<file, pc, local, granted, crashes>>

\* The process dies: the threads are gone, the file stays as it is.
Crash ==
    /\ crashes < MaxCrashes
    /\ crashes' = crashes + 1
    /\ pc' = [t \in Threads |-> "idle"]
    /\ UNCHANGED <<day, file, local, granted>>

Next ==
    \/ \E t \in Threads : Load(t) \/ Truncate(t) \/ Write(t)
    \/ NextDay \/ Crash

Spec == Init /\ [][Next]_vars

-----------------------------------------------------------------------------
(* Properties.                                                             *)

\* "budget gate" (openai_conflict_check): no day sees more OpenAI calls
\* allowed than the daily limits, whatever the concurrent requests and
\* restarts do to oracle_budget.json.
BudgetRespected == \A d \in Days : granted[d] <= Cap

\* The budget file never counts a call that was not allowed on its date:
\* whatever the races lose, oracle_budget.json errs towards allowing, never
\* towards refusing calls the day has not spent.
NoOvercount ==
    file \in Budgets /\ file.date \in Days => file.calls <= granted[file.date]

=============================================================================
