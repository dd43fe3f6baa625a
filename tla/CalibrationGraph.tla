-------------------------- MODULE CalibrationGraph --------------------------
(***************************************************************************)
(* The pure part of CalibrationDAG (src/qpi-driver/py/qpi_driver/tuners/    *)
(* base/dag.py): in which order routines run, which of them a partial run   *)
(* repeats, and which one a diagnosis blames. A graph is `names`, the       *)
(* routines in registration order, and `depends`, the set each comes after; *)
(* `sorted` is `names` in alphabetical order.                               *)
(***************************************************************************)
EXTENDS Naturals, Sequences, SequencesExt

NamesOf(names) == {names[i] : i \in DOMAIN names}

----------------------------------------------------------------------------
(* execution_order: Kahn's algorithm over one FIFO queue *)

\* One turn of the loop: the head of the queue is visited, and its dependents,
\* in registration order, join the queue when it was the last they waited for.
KahnTurn(names, depends, s) ==
    IF s.queue = <<>> THEN s
    ELSE LET node == Head(s.queue)
             left == [n \in DOMAIN s.waiting |-> s.waiting[n] \ {node}]
             ready == SelectSeq(names, LAMBDA n : node \in depends[n]
                                                    /\ left[n] = {})
         IN  [queue |-> Tail(s.queue) \o ready,
              visited |-> Append(s.visited, node),
              waiting |-> left]

Visited(names, sorted, depends) ==
    LET start == [queue |-> SelectSeq(sorted, LAMBDA n : depends[n] = {}),
                  visited |-> <<>>,
                  waiting |-> depends]
    IN  FoldLeft(LAMBDA s, n : KahnTurn(names, depends, s), start, names).visited

DependsOnUnknown(names, depends) ==
    \E n \in NamesOf(names) : ~ (depends[n] \subseteq NamesOf(names))

HasCycle(names, sorted, depends) ==
    Len(Visited(names, sorted, depends)) < Len(names)

\* A disabled routine is dropped last, so it still relays the ordering.
ExecutionOrder(names, sorted, depends, enabled) ==
    SelectSeq(Visited(names, sorted, depends), LAMBDA n : n \in enabled)

----------------------------------------------------------------------------
(* partial_order: the targets and everything downstream of them *)

Downstream(names, depends, targets) ==
    FoldLeft(LAMBDA S, n :
                 S \cup {m \in NamesOf(names) : depends[m] \cap S # {}},
             targets \cap NamesOf(names), names)

PartialOrder(names, sorted, depends, enabled, targets) ==
    LET affected == Downstream(names, depends, targets)
    IN  SelectSeq(ExecutionOrder(names, sorted, depends, enabled),
                  LAMBDA n : n \in affected)

----------------------------------------------------------------------------
(* check: the worst verdict over the targets that could be checked *)

Unknown == [passed |-> TRUE, margin |-> 0, evaluable |-> FALSE]

\* _worse_than: a failure outranks any pass, the margin ranks within each.
WorseThan(candidate, incumbent) ==
    IF candidate.passed # incumbent.passed
    THEN incumbent.passed
    ELSE candidate.margin > incumbent.margin

\* A check that raises, or has no schedule, says nothing about its target.
Check(outcomes) ==
    FoldLeft(LAMBDA worst, o :
                 IF ~ o.evaluable THEN worst
                 ELSE IF ~ worst.evaluable \/ WorseThan(o, worst) THEN o
                 ELSE worst,
             Unknown, outcomes)

----------------------------------------------------------------------------
(* diagnose: blame moves up the failing dependencies *)

\* `verdict` is "passed", "failed" or "unknown": no check, or none evaluable.
Blame(names, depends, verdict) ==
    LET blame[n \in NamesOf(names)] ==
            IF verdict[n] = "passed" THEN {}
            ELSE LET upstream == UNION {blame[d] :
                                  d \in {x \in depends[n] : verdict[x] = "failed"}}
                 IN  IF upstream = {} THEN {n} ELSE upstream
    IN  blame

Blamed(names, depends, verdict, seeds) ==
    UNION {Blame(names, depends, verdict)[s] : s \in seeds \cap NamesOf(names)}

Diagnose(names, sorted, depends, enabled, verdict, seeds) ==
    PartialOrder(names, sorted, depends, enabled,
                 Blamed(names, depends, verdict, seeds))

=============================================================================
