----------------------------- MODULE Inference -----------------------------
(***************************************************************************)
(* Admission of model calls (runtime/inference.py): a call estimates its   *)
(* input, reserves tokens of its run and of the tenant's day under the     *)
(* router's quota lock, calls the model, records what was used and         *)
(* releases the reservation.  Child assignments (collaboration) allocate   *)
(* tokens of their parent run, and run with a router of their own          *)
(* (RuntimeFactory.create_member).  A run and a router both keep           *)
(* reserved_tokens: they are the accounts a reservation is booked to.      *)
(***************************************************************************)
EXTENDS Integers, FiniteSetsExt, Functions

CONSTANTS Calls,           \* model calls
          InferenceRuns,   \* the runs of one tenant
          RunOf,           \* [Calls -> InferenceRuns]
          Routers,         \* the InferenceRouters of the tenant's runtime and of its members
          RouterOf,        \* [InferenceRuns -> Routers]
          Estimates,       \* estimated input sizes
          Reports,         \* tokens a call turns out to have used
          MaxRunTokens,    \* [InferenceRuns -> max_run_tokens]
          DailyTokens, ResponseReserve, JobTokens

VARIABLES total,       \* [run -> total_tokens of its budget]
          usage,       \* [run -> total_tokens of its saved run_usage]
          daily,       \* tokens of the tenant's saved usage of the day
          reserved,    \* [account -> reserved_tokens]
          quotaLock,   \* [router -> the call that holds its _quota_lock, or NoCall]
          call,        \* [Calls -> [at, est, remaining, seen, res, used]]
          allocated,   \* [run -> sum of budget_tokens of its child jobs]
          unreserved,  \* history: [account -> tokens booked beyond what it reserved ...]
          late         \* ... and those booked since a call last took the quota lock]

inferenceVars == <<total, usage, daily, reserved, quotaLock, call, allocated, unreserved, late>>

NoCall == "none"
NewCall == [at |-> "new", est |-> 0, remaining |-> 0, seen |-> 0, res |-> 0, used |-> 0]
CallOver == [NewCall EXCEPT !.at = "over"]

Accounts == InferenceRuns \cup Routers
RouterFor(c) == RouterOf[RunOf[c]]
AccountsOf(c) == {RunOf[c], RouterFor(c)}

\* A run's account is limited by max_run_tokens, a router's by what is left of the day.
Spent(a) == IF a \in InferenceRuns THEN total[a] ELSE daily
Limit(a) == IF a \in InferenceRuns THEN MaxRunTokens[a] ELSE DailyTokens

ASSUME InferenceBounds ==
  /\ IsFiniteSet(Calls) /\ NoCall \notin Calls /\ RunOf \in [Calls -> InferenceRuns]
  /\ RouterOf \in [InferenceRuns -> Routers] /\ InferenceRuns \cap Routers = {}
  /\ MaxRunTokens \in [InferenceRuns -> Nat \ {0}]
  /\ Estimates \cup Reports \cup {DailyTokens, ResponseReserve, JobTokens} \subseteq Nat

----------------------------------------------------------------------------
\* _prepare: the run's budget is not used up by what is sent.
prepare(c, est) ==
  LET r == RunOf[c] IN
  /\ call[c].at = "new"
  /\ call' = [call EXCEPT ![c] = IF total[r] + est >= MaxRunTokens[r] THEN CallOver
                                 ELSE [@ EXCEPT !.at = "wait", !.est = est]]
  /\ UNCHANGED <<total, usage, daily, reserved, quotaLock, allocated, unreserved, late>>

\* Mutant: the quota lock is not taken.
ReserveUnlocked(c) ==
  LET r == RunOf[c] IN
  /\ call[c].at = "wait"
  /\ call' = [call EXCEPT ![c] = [@ EXCEPT !.at = "reserve",
                                           !.remaining = MaxRunTokens[r] - total[r] - reserved[r]]]
  /\ late' = [a \in Accounts |-> IF a \in AccountsOf(c) THEN 0 ELSE late[a]]
  /\ UNCHANGED <<total, usage, daily, reserved, quotaLock, allocated, unreserved>>

\* _reserve: what remains of the run, as the budget has it before the
\* allocations are read from the database.
reserve(c) ==
  LET r == RunOf[c] IN
  /\ call[c].at = "wait" /\ quotaLock[RouterFor(c)] = NoCall
  /\ quotaLock' = [quotaLock EXCEPT ![RouterFor(c)] = c]
  /\ call' = [call EXCEPT ![c] = [@ EXCEPT !.at = "reserve",
                                           !.remaining = MaxRunTokens[r] - total[r] - reserved[r]]]
  /\ late' = [a \in Accounts |-> IF a \in AccountsOf(c) THEN 0 ELSE late[a]]
  /\ UNCHANGED <<total, usage, daily, reserved, allocated, unreserved>>

\* _reserve reads the allocations to child jobs and the day's usage.
reserve_read(c) ==
  /\ call[c].at = "reserve"
  /\ call' = [call EXCEPT ![c] =
                [call[c] EXCEPT !.at = "quota", !.seen = daily,
                                !.remaining = call[c].remaining - allocated[RunOf[c]]]]
  /\ UNCHANGED <<total, usage, daily, reserved, quotaLock, allocated, unreserved, late>>

\* The reservation: the estimate and room for the response.
ReservationOf(remaining, est) == est + Min({ResponseReserve, remaining - est})

DailyAdmits(c, res) ==
  DailyTokens = 0 \/ call[c].seen + reserved[RouterFor(c)] + res <= DailyTokens

\* _reserve decides, by what it has read.
reserve_rest(c) ==
  LET res == ReservationOf(call[c].remaining, call[c].est)
  IN /\ call[c].at = "quota"
     /\ IF call[c].remaining <= call[c].est \/ ~DailyAdmits(c, res)
        THEN /\ call' = [call EXCEPT ![c] = CallOver]
             /\ UNCHANGED <<reserved, unreserved>>
        ELSE /\ call' = [call EXCEPT ![c] = [NewCall EXCEPT !.at = "model", !.res = res]]
             /\ reserved' = [a \in Accounts |-> IF a \in AccountsOf(c) THEN reserved[a] + res
                                                ELSE reserved[a]]
             /\ unreserved' = [a \in Accounts |-> IF a \in AccountsOf(c) THEN late[a]
                                                  ELSE unreserved[a]]
     /\ quotaLock' = [quotaLock EXCEPT ![RouterFor(c)] = NoCall]
     /\ UNCHANGED <<total, usage, daily, allocated, late>>

\* History: so much was booked beside the reservations of each account.
Beside(extra) ==
  /\ unreserved' = [a \in Accounts |-> unreserved[a] + extra[a]]
  /\ late' = [a \in Accounts |-> late[a] + extra[a]]

Excess(c, used) == IF used <= call[c].res THEN 0 ELSE used - call[c].res

\* The model has answered, or a stream was ended: _record adds what the
\* provider reports, or an estimate, to the budget.  Either may exceed what
\* was reserved ...
complete(c, used) ==
  LET r == RunOf[c] IN
  /\ call[c].at = "model"
  /\ \A d \in Calls : RunOf[d] = r => call[d].at # "record"   \* usage_lock
  /\ total' = [total EXCEPT ![r] = @ + used]
  /\ call' = [call EXCEPT ![c] = [@ EXCEPT !.at = "record", !.used = used]]
  /\ Beside([a \in Accounts |-> IF a = r THEN Excess(c, used) ELSE 0])
  /\ UNCHANGED <<usage, daily, reserved, quotaLock, allocated>>

\* ... and then, in one transaction, to the run's and the day's saved usage.
record(c) ==
  LET r == RunOf[c] IN
  /\ call[c].at = "record"
  /\ usage' = [usage EXCEPT ![r] = total[r]]
  /\ daily' = daily + call[c].used
  /\ call' = [call EXCEPT ![c] = [@ EXCEPT !.at = "release", !.used = 0]]
  /\ Beside([a \in Accounts |-> IF a \in InferenceRuns THEN 0
                                ELSE IF a = RouterFor(c) THEN Excess(c, call[c].used)
                                ELSE call[c].used])
  /\ UNCHANGED <<total, reserved, quotaLock, allocated>>

\* A call that raises, before it has a usage to record or in recording it.
CallFails(c) ==
  /\ call[c].at \in {"model", "record"}
  /\ call' = [call EXCEPT ![c] = [@ EXCEPT !.at = "release", !.used = 0]]
  /\ UNCHANGED <<total, usage, daily, reserved, quotaLock, allocated, unreserved, late>>

\* _release, once the quota lock is free.
release(c) ==
  /\ call[c].at = "release" /\ quotaLock[RouterFor(c)] = NoCall
  /\ reserved' = [a \in Accounts |-> IF a \in AccountsOf(c) THEN reserved[a] - call[c].res
                                     ELSE reserved[a]]
  /\ call' = [call EXCEPT ![c] = CallOver]
  /\ UNCHANGED <<total, usage, daily, quotaLock, allocated, unreserved, late>>

\* create_job for a parent run: against its saved usage and its other jobs.
allocate(r) ==
  /\ allocated[r] + usage[r] + JobTokens <= MaxRunTokens[r]
  /\ allocated' = [allocated EXCEPT ![r] = @ + JobTokens]
  /\ UNCHANGED <<total, usage, daily, reserved, quotaLock, call, unreserved, late>>

\* The process stops; a recovered run loads its saved usage.
Restart ==
  /\ \E c \in Calls : call[c].at \notin {"new", "over"}
  /\ total' = usage
  /\ reserved' = [a \in Accounts |-> 0] /\ quotaLock' = [q \in Routers |-> NoCall]
  /\ call' = [c \in Calls |-> IF call[c].at = "new" THEN NewCall ELSE CallOver]
  /\ UNCHANGED <<usage, daily, allocated, unreserved, late>>

----------------------------------------------------------------------------
InferenceInit ==
  /\ total = [r \in InferenceRuns |-> 0] /\ usage = total /\ allocated = total
  /\ daily = 0 /\ quotaLock = [q \in Routers |-> NoCall]
  /\ reserved = [a \in Accounts |-> 0] /\ unreserved = reserved /\ late = reserved
  /\ call = [c \in Calls |-> NewCall]

InferenceNext ==
  \/ \E c \in Calls :
       \/ \E est \in Estimates : prepare(c, est)
       \/ reserve(c) \/ reserve_read(c) \/ reserve_rest(c)
       \/ record(c) \/ CallFails(c) \/ release(c)
       \/ \E used \in Reports : complete(c, used)
  \/ \E r \in InferenceRuns : allocate(r)
  \/ Restart

InferenceSpec == InferenceInit /\ [][InferenceNext]_inferenceVars

----------------------------------------------------------------------------
(* Properties *)

InferenceTypeOK ==
  /\ \A q \in Routers : quotaLock[q] \in Calls \cup {NoCall}
  /\ \A r \in InferenceRuns : total[r] >= usage[r]
  /\ \A a \in Accounts : reserved[a] >= 0 /\ unreserved[a] >= 0

\* The reservations of the calls whose use is not booked yet: to the run's
\* total when the model answers, to the day when that is saved.
Outstanding(a) ==
  LET unbooked == IF a \in InferenceRuns THEN {"model"} ELSE {"model", "record"}
  IN SumFunction([c \in Calls |-> IF a \in AccountsOf(c) /\ call[c].at \in unbooked
                                  THEN call[c].res ELSE 0])

\* A run's total, and the day's usage as each router sees it, stay within
\* max_run_tokens and the daily limit together with what calls under way have
\* reserved, however many there are and although a call reads both before it
\* waits for the database (_reserve, _release).  They pass a limit only by
\* what no reservation covers and the last call admitted could not see: what
\* a provider reported beyond a call's reservation since, and for the day what
\* was used through another router.  Whatever was booked before that call
\* took the quota lock it is admitted within the limit with.
WithinLimits ==
  \A a \in Accounts : Limit(a) > 0 => Spent(a) + Outstanding(a) <= Limit(a) + unreserved[a]

=============================================================================
