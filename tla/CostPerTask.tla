---------------------------- MODULE CostPerTask ----------------------------
(***************************************************************************)
(* proofs/p1_cost_per_task.py: every strategy over every task, one attempt *)
(* after the other, each answered through the budget and graded by the     *)
(* panel, or from the desk's memory of verdicts.  What the budget does to  *)
(* a call (refuse it, or take it to a cheaper rung) is left open here; the *)
(* budget has its own model.  A rung is its place on the ladder.           *)
(***************************************************************************)
EXTENDS RubricJudge, SequencesExt

CONSTANTS
  Tasks, Expected,  \* tasks in order, and those with an expectation
  Answers, Empty,   \* texts a model may answer with; the empty one
  Top,              \* the most capable rung, the cheapest being 1
  Chosen,           \* the strategies that run, in order
  MaxAttempts,      \* strategies.max_attempts
  CheapestRetries,  \* strategies.cheapest_retries
  Escalate,         \* strategies.escalate
  Start,            \* the rung strategies.start resolves to
  Price             \* what a call on a rung costs

(* load_tasks refuses an empty file.  Left out here: a run that names no   *)
(* strategy, or one twice, which would drop the rows of its first pass     *)
(* (results is a dict).                                                    *)
ASSUME CostAssumption ==
  /\ Tasks \in Seq(ToSet(Tasks)) \ {<<>>}
  /\ Chosen \in Seq({"A", "B", "C"}) \ {<<>>} /\ IsInjective(Chosen)
  /\ Empty \in Answers /\ Top \in Nat \ {0} /\ Start \in 1..Top
  /\ MaxAttempts \in Nat \ {0} /\ CheapestRetries \in Nat /\ Escalate \in BOOLEAN
  /\ Price \in [1..Top -> Nat \ {0}]

VARIABLES
  phase,     \* "answer", "desk", "panel", "over"
  at, on,    \* places of the strategy and of the task
  tier,      \* the rung the attempt asks for
  reply,     \* the attempt's answer, or error, and the rung charged
  attempts,  \* attempts of the row so far
  desk,      \* JudgeDesk.verdicts
  calls,     \* MeteredTransport.calls
  rows       \* the rows that are done

vars == <<phase, at, on, tier, reply, attempts, desk, calls, rows, judgeVars>>

(* strategies_for *)
Strategy(key) ==
  CASE key = "A" -> [start |-> Top, attempts |-> 1, escalate |-> FALSE]
    [] key = "B" -> [start |-> 1, escalate |-> FALSE,
                     attempts |-> Min({MaxAttempts, 1 + CheapestRetries})]
    [] OTHER -> [start |-> Start, attempts |-> MaxAttempts, escalate |-> Escalate]

Mine == Strategy(Chosen[at])

(* next_tier *)
NextTier == IF Mine.escalate THEN Min({tier + 1, Top}) ELSE tier

Idle == [answer |-> Empty, error |-> "", charged |-> 0]

Init ==
  /\ JudgeInit
  /\ phase = "answer" /\ at = 1 /\ on = 1 /\ tier = Strategy(Chosen[1]).start
  /\ reply = Idle /\ attempts = <<>> /\ desk = <<>> /\ rows = <<>>
  /\ calls = 0

Attempted(r) == phase = "answer" /\ phase' = "desk" /\ reply' = r

Rest == <<at, on, tier, attempts, desk, rows, judgeVars>>

(* MeteredTransport: a call counts when it came back. *)
Metered == calls' = calls + 1

(* controller.complete: a charged answer, of the rung asked for or of one  *)
(* the budget went down to; or an error, be it of the call or a refusal.   *)
Answer ==
  /\ \E t \in 1..tier, a \in Answers :
       Attempted([answer |-> a, error |-> "", charged |-> t])
  /\ Metered
  /\ UNCHANGED Rest

NoAnswer ==
  /\ Attempted([Idle EXCEPT !.error = "error"])
  /\ UNCHANGED <<calls, Rest>>

Key == <<on, reply.error, reply.answer>>

(* The row's next attempt, or the row, or the end: run_one after a verdict,*)
(* and the loops of _measure.                                              *)
Conclude(v) ==
  LET tried == Append(attempts, [tier |-> tier, charged |-> reply.charged, error |-> reply.error,
                                 answer |-> reply.answer, verdict |-> v])
      stop  == v.status \in {"resolved", "judge_failed"} \/ Len(tried) = Mine.attempts
      nextAt == IF on < Len(Tasks) THEN at ELSE at + 1
  IN  /\ reply' = Idle /\ samples' = <<>>
      /\ IF stop
         THEN /\ rows' = Append(rows, [strategy |-> Chosen[at], task |-> on, attempts |-> tried])
              /\ attempts' = <<>>
              /\ on' = (on % Len(Tasks)) + 1 /\ at' = nextAt
              /\ IF nextAt > Len(Chosen) THEN phase' = "over" /\ UNCHANGED tier
                 ELSE phase' = "answer" /\ tier' = Strategy(Chosen[nextAt]).start
         ELSE /\ attempts' = tried /\ tier' = NextTier
              /\ phase' = "answer" /\ UNCHANGED <<at, on, rows>>

(* verdict_for, from memory. *)
Reuse ==
  /\ phase = "desk" /\ Key \in DOMAIN desk
  /\ Conclude(desk[Key])
  /\ UNCHANGED <<desk, calls, failed, meter>>

Remember(v) == desk' = [k \in DOMAIN desk \cup {Key} |-> IF k = Key THEN v ELSE desk[k]]

NothingToGrade == reply.error # "" \/ reply.answer = Empty

(* An empty or errored answer is unresolved without a call. *)
GradeNothing ==
  /\ phase = "desk" /\ Key \notin DOMAIN desk /\ NothingToGrade
  /\ LET v == [status |-> "unresolved", usable |-> 0, calls |-> 0]
     IN  Remember(v) /\ Conclude(v)
  /\ UNCHANGED <<calls, failed, meter>>

AskPanel ==
  /\ phase = "desk" /\ Key \notin DOMAIN desk /\ ~NothingToGrade
  /\ phase' = "panel"
  /\ UNCHANGED <<at, on, tier, reply, attempts, desk, calls, rows, judgeVars>>

Sample ==
  /\ phase = "panel" /\ JudgeNext
  /\ UNCHANGED <<phase, at, on, tier, reply, attempts, desk, calls, rows>>

Judge ==
  /\ phase = "panel" /\ PanelDone
  /\ LET v == [status |-> Decided(Applicable(Tasks[on] \in Expected)),
               usable |-> Cardinality(DOMAIN Usable), calls |-> Called]
     IN  Remember(v) /\ Conclude(v)
  /\ UNCHANGED <<calls, failed, meter>>

Next == \/ Answer \/ NoAnswer
        \/ Reuse \/ GradeNothing \/ AskPanel \/ Sample \/ Judge

(* One coroutine runs it all, and every call in it returns or raises. *)
Spec == Init /\ [][Next]_vars /\ WF_vars(Next)

-----------------------------------------------------------------------------
(* summarise: what the rows of a strategy add up to. *)
RowsOf(key) == {i \in DOMAIN rows : rows[i].strategy = key}
Resolved(row) == row.attempts[Len(row.attempts)].verdict.status = "resolved"
Charged(row) == {k \in DOMAIN row.attempts : row.attempts[k].charged # 0}
SpendOf(row) == SumFunction([k \in Charged(row) |-> Price[row.attempts[k].charged]])

Summary(key) ==
  [tasks    |-> Cardinality(RowsOf(key)),
   spend    |-> SumFunction([i \in RowsOf(key) |-> SpendOf(rows[i])]),
   calls    |-> SumFunction([i \in RowsOf(key) |-> Cardinality(Charged(rows[i]))]),
   resolved |-> Cardinality({i \in RowsOf(key) : Resolved(rows[i])})]

(* divergences: the tasks one strategy resolved and the other did not. *)
Divergent(left, right) ==
  {t \in DOMAIN Tasks : \E i \in RowsOf(left), j \in RowsOf(right) :
     /\ rows[i].task = t /\ rows[j].task = t
     /\ Resolved(rows[i]) /\ ~Resolved(rows[j])}

\* Mutant of BreakEven: the first call of a resolved task is paid twice.
BreakEvenTwice(cheap, dear, k) ==
  LET below == dear.spend * cheap.calls + k * dear.resolved * cheap.spend
  IN  <<Min({k * dear.resolved * cheap.spend, below}), below>>

(* break_even_resolution_rate, as numerator and denominator. *)
BreakEven(cheap, dear, k) ==
  LET below == dear.spend * cheap.calls + (k - 1) * dear.resolved * cheap.spend
  IN  <<Min({k * dear.resolved * cheap.spend, below}), below>>

(* finding: B against another strategy. *)
Finding(cheap, dear, k) ==
  LET rate == BreakEven(cheap, dear, k)
  IN  [cheaper  |-> /\ cheap.calls > 0 /\ dear.calls > 0
                    /\ cheap.spend * dear.calls < dear.spend * cheap.calls,
       dearer   |-> /\ cheap.resolved > 0 /\ dear.resolved > 0
                    /\ cheap.spend * dear.resolved > dear.spend * cheap.resolved,
       never    |-> cheap.resolved = 0 /\ dear.resolved > 0,
       below    |-> cheap.resolved * rate[2] < rate[1] * cheap.tasks]
=============================================================================
