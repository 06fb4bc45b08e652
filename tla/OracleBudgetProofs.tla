------------------------- MODULE OracleBudgetProofs -------------------------
(***************************************************************************)
(* Proofs about the daily budget of oracle_service, for every number of    *)
(* threads, every pair of limits and every number of days and restarts.    *)
(*                                                                         *)
(*   BudgetTypeCorrect   Spec => []TypeOK                                  *)
(*   BudgetNoOvercount   Spec => []NoOvercount                             *)
(*                                                                         *)
(* NoOvercount speaks of the file only; it is not inductive, because a     *)
(* thread between its load and its write holds the count it will write.    *)
(* InFlight bounds that count by the calls granted on its date plus the    *)
(* one it is about to be granted, and Priced keeps tokens = calls * 900 in *)
(* every copy, so that no copy counts more calls than the cap.             *)
(***************************************************************************)
EXTENDS OracleBudget, TLAPS

\* Every budget, on file or in a thread, charges TokensPerCall per call.
Priced ==
    /\ file \in Budgets => file.tokens = file.calls * TokensPerCall
    /\ \A t \in Threads : local[t].tokens = local[t].calls * TokensPerCall

\* A thread past its limit tests holds today's date (at its load) and a
\* count at most one above what that date has been granted.
InFlight ==
    \A t \in Threads :
        pc[t] # "idle" =>
            /\ local[t].date \in Days
            /\ local[t].calls <= granted[local[t].date] + 1

IInv == TypeOK /\ Priced /\ InFlight /\ NoOvercount

USE BudgetAssumption, MarkerAssumption

-----------------------------------------------------------------------------
(* Lemmas on the operators.                                                *)

\* A count that passes both limit tests is within the cap.
LEMMA WithinCap ==
    ASSUME NEW c \in Nat, c <= MaxCalls, c * TokensPerCall <= MaxTokens
    PROVE  c <= Cap
<1>1. CASE MaxCalls * TokensPerCall <= MaxTokens
    BY <1>1 DEF Cap
<1>2. CASE ~(MaxCalls * TokensPerCall <= MaxTokens)
    <2>1. c <= MaxTokens \div TokensPerCall
        BY Z3
    <2> QED
        BY <1>2, <2>1 DEF Cap
<1> QED
    BY <1>1, <1>2

\* The cap is a natural number.
LEMMA CapType == Cap \in Nat
BY Z3 DEF Cap

\* What load_budget and the reset give a thread: a budget of today, which
\* counts nothing when the file held another day.
LEMMA LoadEffect ==
    ASSUME TypeOK
    PROVE  LET st == ResetForToday(LoadBudget) IN
             /\ st \in Budgets
             /\ st.date = day
             /\ \/ st.calls = 0 /\ st.tokens = 0
                \/ st = file /\ file \in Budgets
<1>1. Default \in Budgets /\ Default.date # day
    BY DEF Default, Budgets, TypeOK, Days
<1>2. LoadBudget \in Budgets
    BY <1>1 DEF LoadBudget
<1>3. CASE LoadBudget.date # day
    <2>1. ResetForToday(LoadBudget) = [date |-> day, calls |-> 0, tokens |-> 0]
        BY <1>3 DEF ResetForToday
    <2> QED
        BY <2>1 DEF Budgets, TypeOK, Days
<1>4. CASE LoadBudget.date = day
    <2>1. ResetForToday(LoadBudget) = LoadBudget
        BY <1>4 DEF ResetForToday
    <2>2. LoadBudget = file /\ file \in Budgets
        BY <1>1, <1>4 DEF LoadBudget
    <2> QED
        BY <1>2, <1>4, <2>1, <2>2
<1> QED
    BY <1>3, <1>4

\* Setting the call count, or the token count, of a budget.
LEMMA SetCalls ==
    ASSUME NEW r \in Budgets, NEW c \in 0..MaxCalls
    PROVE  /\ [r EXCEPT !.calls = c] \in Budgets
           /\ [r EXCEPT !.calls = c].date = r.date
           /\ [r EXCEPT !.calls = c].calls = c
           /\ [r EXCEPT !.calls = c].tokens = r.tokens
BY DEF Budgets

LEMMA SetTokens ==
    ASSUME NEW r \in Budgets, NEW k \in 0..MaxTokens
    PROVE  /\ [r EXCEPT !.tokens = k] \in Budgets
           /\ [r EXCEPT !.tokens = k].date = r.date
           /\ [r EXCEPT !.tokens = k].calls = r.calls
           /\ [r EXCEPT !.tokens = k].tokens = k
BY DEF Budgets

\* Counting one more call in a budget that passed the limit tests.
LEMMA Charge ==
    ASSUME NEW r \in Budgets, ~OverLimits(r)
    PROVE  LET r2 == [r EXCEPT !.calls = @ + 1, !.tokens = @ + TokensPerCall] IN
             /\ r2 \in Budgets
             /\ r2.date = r.date
             /\ r2.calls = r.calls + 1
             /\ r2.tokens = r.tokens + TokensPerCall
<1> DEFINE r1 == [r EXCEPT !.calls = r.calls + 1]
<1>1. [r EXCEPT !.calls = @ + 1, !.tokens = @ + TokensPerCall]
      = [r1 EXCEPT !.tokens = r.tokens + TokensPerCall]
    OBVIOUS
<1>2. r.calls + 1 \in 0..MaxCalls /\ r.tokens + TokensPerCall \in 0..MaxTokens
    BY DEF Budgets, OverLimits
<1>3. r1 \in Budgets /\ r1.date = r.date /\ r1.calls = r.calls + 1 /\ r1.tokens = r.tokens
    BY <1>2, SetCalls
<1> QED
    BY <1>1, <1>2, <1>3, SetTokens

-----------------------------------------------------------------------------
(* Type correctness.                                                       *)

LEMMA BudgetTypeStep == TypeOK /\ [Next]_vars => TypeOK'
<1> SUFFICES ASSUME TypeOK, [Next]_vars PROVE TypeOK'
    OBVIOUS
<1>0. Cap \in Nat
    BY CapType
<1>1. ASSUME NEW t \in Threads, Load(t) PROVE TypeOK'
    <2> DEFINE st == ResetForToday(LoadBudget)
    <2>1. st \in Budgets /\ st.date = day
        BY LoadEffect
    <2>2. CASE OverLimits(st)
        BY <1>1, <2>2 DEF Load, TypeOK
    <2>3. CASE ~OverLimits(st)
        <3>1. [st EXCEPT !.calls = @ + 1, !.tokens = @ + TokensPerCall] \in Budgets
            BY <2>1, <2>3, Charge
        <3>2. local' = [local EXCEPT ![t] = [st EXCEPT !.calls = @ + 1,
                                                       !.tokens = @ + TokensPerCall]]
              /\ pc' = [pc EXCEPT ![t] = "truncate"]
            BY <1>1, <2>3 DEF Load
        <3> QED
            BY <1>1, <3>1, <3>2 DEF Load, TypeOK
    <2> QED
        BY <2>2, <2>3
<1>2. ASSUME NEW t \in Threads, Truncate(t) PROVE TypeOK'
    BY <1>2 DEF Truncate, TypeOK
<1>3. ASSUME NEW t \in Threads, Write(t) PROVE TypeOK'
    <2>1. granted' \in [Days -> 0..Cap + 1]
        <3>1. CASE local[t].date \in Days
            BY <1>0, <1>3, <3>1 DEF Write, TypeOK
        <3>2. CASE local[t].date \notin Days
            BY <1>3, <3>2 DEF Write, TypeOK
        <3> QED
            BY <3>1, <3>2
    <2> QED
        BY <1>3, <2>1 DEF Write, TypeOK
<1>4. CASE NextDay
    BY <1>4 DEF NextDay, TypeOK, Days
<1>5. CASE Crash
    BY <1>5 DEF Crash, TypeOK
<1>6. CASE UNCHANGED vars
    BY <1>6 DEF vars, TypeOK
<1> QED
    BY <1>1, <1>2, <1>3, <1>4, <1>5, <1>6 DEF Next

\* Every reachable state of the budget file and the threads is well typed.
THEOREM BudgetTypeCorrect == Spec => []TypeOK
<1>1. Init => TypeOK
    <2>1. Cap \in Nat
        BY CapType
    <2> QED
        BY <2>1 DEF Init, TypeOK, Default, Budgets, Days
<1> QED
    BY <1>1, BudgetTypeStep, PTL DEF Spec

-----------------------------------------------------------------------------
(* The inductive invariant.                                                *)

LEMMA IInvInit == Init => IInv
<1>1. Cap \in Nat
    BY CapType
<1> QED
    BY <1>1 DEF Init, IInv, TypeOK, Priced, InFlight, NoOvercount, Default, Budgets, Days

\* A load that passes the limit tests: the thread holds a budget of today,
\* charged one call, counting at most one call more than today was granted.
LEMMA LoadStep ==
    ASSUME IInv, NEW t \in Threads, Load(t)
    PROVE  Priced' /\ InFlight' /\ NoOvercount'
<1> DEFINE st == ResetForToday(LoadBudget)
<1>1. /\ st \in Budgets
      /\ st.date = day
      /\ \/ st.calls = 0 /\ st.tokens = 0
         \/ st = file /\ file \in Budgets
    BY LoadEffect DEF IInv
<1>2. st.tokens = st.calls * TokensPerCall /\ st.calls <= granted[day]
    <2>1. granted[day] \in Nat
        BY DEF IInv, TypeOK, Days
    <2>2. CASE st.calls = 0 /\ st.tokens = 0
        BY <2>1, <2>2
    <2>3. CASE st = file /\ file \in Budgets
        <3>1. file.tokens = file.calls * TokensPerCall
            BY <2>3 DEF IInv, Priced
        <3>2. file.calls <= granted[file.date]
            BY <1>1, <2>3 DEF IInv, NoOvercount, TypeOK
        <3> QED
            BY <1>1, <2>3, <3>1, <3>2
    <2> QED
        BY <1>1, <2>2, <2>3
<1>3. CASE OverLimits(st)
    BY <1>3 DEF Load, IInv, Priced, InFlight, NoOvercount
<1>4. CASE ~OverLimits(st)
    <2> DEFINE st2 == [st EXCEPT !.calls = @ + 1, !.tokens = @ + TokensPerCall]
    <2>1. /\ st2 \in Budgets /\ st2.date = day
          /\ st2.calls = st.calls + 1 /\ st2.tokens = st.tokens + TokensPerCall
        BY <1>1, <1>4, Charge
    <2>2. local' = [local EXCEPT ![t] = st2] /\ pc' = [pc EXCEPT ![t] = "truncate"]
          /\ UNCHANGED <<file, granted, day>>
        BY <1>4 DEF Load
    <2>3. st2.tokens = st2.calls * TokensPerCall
        <3>1. st.calls \in Nat
            BY <1>1 DEF Budgets
        <3>2. \A c \in Nat : c * TokensPerCall + TokensPerCall = (c + 1) * TokensPerCall
            OBVIOUS
        <3> QED
            BY <1>2, <2>1, <3>1, <3>2
    <2>4. st2.calls <= granted[st2.date] + 1
        <3>1. st.calls \in Nat /\ granted[day] \in Nat
            BY <1>1 DEF Budgets, IInv, TypeOK
        <3> QED
            BY <1>2, <2>1, <3>1
    <2>5. Priced'
        BY <2>2, <2>3 DEF IInv, Priced, TypeOK
    <2>6. InFlight'
        BY <2>1, <2>2, <2>4 DEF IInv, InFlight, TypeOK, Days
    <2>7. NoOvercount'
        BY <2>2 DEF IInv, NoOvercount
    <2> QED
        BY <2>5, <2>6, <2>7
<1> QED
    BY <1>3, <1>4

\* The write of a thread's budget: the call it counts is granted on the
\* budget's date, and no date loses a grant.
LEMMA WriteStep ==
    ASSUME IInv, NEW t \in Threads, Write(t)
    PROVE  Priced' /\ InFlight' /\ NoOvercount'
<1> DEFINE d == local[t].date
<1>1. d \in Days /\ local[t].calls <= granted[d] + 1 /\ local[t] \in Budgets
    BY DEF Write, IInv, InFlight, TypeOK
<1>2. local[t].calls <= Cap
    BY <1>1, WithinCap DEF IInv, Priced, Budgets
<1>3. Cap \in Nat
    BY CapType
<1>4. granted'[d] >= local[t].calls
    <2>1. granted' = [granted EXCEPT ![d] = IF @ > Cap THEN @ ELSE @ + 1]
        BY DEF Write
    <2>2. granted[d] \in 0..Cap + 1
        BY <1>1 DEF IInv, TypeOK
    <2>3. CASE granted[d] > Cap
        <3>1. granted'[d] = granted[d]
            BY <1>1, <2>1, <2>3 DEF IInv, TypeOK
        <3> QED
            BY <1>1, <1>2, <1>3, <2>2, <2>3, <3>1 DEF Budgets
    <2>4. CASE ~(granted[d] > Cap)
        BY <1>1, <1>2, <1>3, <2>1, <2>2, <2>4 DEF IInv, TypeOK
    <2> QED
        BY <2>3, <2>4
<1>5. \A e \in Days : granted'[e] >= granted[e]
    BY <1>1 DEF Write, IInv, TypeOK
<1>6. file' = local[t] /\ pc' = [pc EXCEPT ![t] = "idle"] /\ UNCHANGED local
    BY DEF Write
<1>7. Priced'
    BY <1>6 DEF IInv, Priced
<1>8. InFlight'
    <2> SUFFICES ASSUME NEW u \in Threads, pc'[u] # "idle"
                 PROVE  local'[u].date \in Days /\ local'[u].calls <= granted'[local'[u].date] + 1
        BY DEF InFlight
    <2>1. u # t /\ pc[u] # "idle" /\ local'[u] = local[u]
        BY <1>6 DEF IInv, TypeOK
    <2>2. local[u].date \in Days /\ local[u].calls <= granted[local[u].date] + 1
        BY <2>1 DEF IInv, InFlight
    <2>3. granted[local[u].date] \in Nat /\ granted'[local[u].date] \in Nat
        BY <2>2, BudgetTypeStep DEF IInv, TypeOK, Write
    <2>4. granted'[local[u].date] >= granted[local[u].date]
        BY <1>5, <2>2
    <2>5. local[u].calls \in Nat
        BY DEF IInv, TypeOK, Budgets
    <2> QED
        BY <2>1, <2>2, <2>3, <2>4, <2>5
<1>9. NoOvercount'
    BY <1>1, <1>4, <1>6 DEF NoOvercount
<1> QED
    BY <1>7, <1>8, <1>9

LEMMA IInvStep == IInv /\ [Next]_vars => IInv'
<1> SUFFICES ASSUME IInv, [Next]_vars PROVE IInv'
    OBVIOUS
<1>0. TypeOK'
    BY BudgetTypeStep DEF IInv
<1>1. ASSUME NEW t \in Threads, Load(t) PROVE IInv'
    BY <1>0, <1>1, LoadStep DEF IInv
<1>2. ASSUME NEW t \in Threads, Truncate(t) PROVE IInv'
    BY <1>0, <1>2 DEF Truncate, IInv, Priced, InFlight, NoOvercount
<1>3. ASSUME NEW t \in Threads, Write(t) PROVE IInv'
    BY <1>0, <1>3, WriteStep DEF IInv
<1>4. CASE NextDay
    BY <1>0, <1>4 DEF NextDay, IInv, Priced, InFlight, NoOvercount
<1>5. CASE Crash
    BY <1>0, <1>5 DEF Crash, IInv, Priced, InFlight, NoOvercount
<1>6. CASE UNCHANGED vars
    BY <1>0, <1>6 DEF vars, IInv, Priced, InFlight, NoOvercount
<1> QED
    BY <1>1, <1>2, <1>3, <1>4, <1>5, <1>6 DEF Next

\* allow_budget's races and restarts only ever lose counts: the budget on
\* file never counts more calls than its date was granted.
THEOREM BudgetNoOvercount == Spec => []NoOvercount
<1>1. IInv => NoOvercount
    BY DEF IInv
<1> QED
    BY IInvInit, IInvStep, <1>1, PTL DEF Spec

=============================================================================
