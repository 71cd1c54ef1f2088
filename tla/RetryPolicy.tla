---------------------------- MODULE RetryPolicy ----------------------------
(***************************************************************************)
(* The bounded retry policy of apps/worker/task_control.py and the         *)
(* classification of a terminated child that feeds it, from                *)
(* apps/worker/subprocess_supervisor.py.  Pure operators, no state.        *)
(***************************************************************************)
EXTENDS Naturals

\* DEFAULT_MAX_ATTEMPTS of the code bounds this column to 1..3.
CONSTANT MaxAttempts

ASSUME MaxAttemptsAssumption == MaxAttempts \in 1..3

\* FailureKind.  BUDGET_PAUSE and RESOURCE_PAUSE take the same branch
\* everywhere and are the single kind "pause"; BROWSER has no producer.
FailureKind == {"transient", "data_integrity", "memory_guard", "crashed", "pause"}

\* How a child ended, as the supervisor sees it: exit 0, a non-zero exit whose
\* stderr is plain, fatal, a rate-limit error or a scheduler-pause marker, the
\* RSS guard, and a termination by the supervisor itself (timeout, lease lost,
\* spawn or control error: one branch of _failure_kind).
Outcomes == {"ok", "crash", "fatal", "rate_limited", "pause_marker",
             "rss_guard", "interrupted"}

\* A pause marker is honoured for rows of the priority-daily configuration only.
scheduler_pause_marker(priority, outcome) == priority /\ outcome = "pause_marker"

failure_kind(priority, outcome) ==
  CASE scheduler_pause_marker(priority, outcome) -> "pause"
    [] outcome \in {"ok", "fatal"}               -> "data_integrity"
    [] outcome = "rss_guard"                     -> "memory_guard"
    [] outcome \in {"rate_limited", "interrupted"} -> "transient"
    [] OTHER                                     -> "crashed"

\* The error_code written on the row and the attempt; the many wordings of an
\* ordinary failure are the one code "error".
failure_error_code(priority, outcome) ==
  CASE scheduler_pause_marker(priority, outcome) -> "pause"
    [] outcome = "rate_limited"                  -> "douyin_rate_limited"
    [] OTHER                                     -> "error"

\* The status a failed attempt leaves its job in.  A pause never looks at the
\* attempt number; every other kind counts attempts net of pauses.
retry_policy(kind, attempt_number, quota_pause_count, previous_exit_type) ==
  LET exhausted == attempt_number >= MaxAttempts + quota_pause_count
      fatal == \/ kind = "data_integrity"
               \/ kind = "memory_guard" /\ previous_exit_type = "resource_guard"
               \/ exhausted
  IN  IF kind # "pause" /\ fatal THEN "failed" ELSE "retry_wait"

attempt_exit_type(kind, decision) ==
  CASE kind = "pause"          -> "retryable_failure"
    [] kind = "memory_guard"   -> "resource_guard"
    [] kind = "crashed"        -> "crashed"
    [] decision = "retry_wait" -> "retryable_failure"
    [] OTHER                   -> "fatal_failure"
=============================================================================
