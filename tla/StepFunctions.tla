--------------------------- MODULE StepFunctions ---------------------------
(***************************************************************************)
(* Step Functions (services/stepfunctions): the interpreter of the Amazon  *)
(* States Language, and the service that runs it.  A JSON value is         *)
(* [str |-> s], [arr |-> sequence] or [obj |-> function]; a definition is  *)
(* a record of a start state and its states.  StartExecution reads the     *)
(* definition under one guard of the store, interprets it under none and   *)
(* records the execution under another.                                    *)
(***************************************************************************)
EXTENDS Integers, Sequences, FiniteSets, SequencesExt

CONSTANTS
    Machines,     \* names of state machines
    Definitions,  \* the definitions that they are given
    Inputs,       \* the inputs of executions
    ExecNames,    \* names of executions
    Starters,     \* clients that start executions
    Nil,
    MAX_ITER      \* states that one run visits at most (1000 in the code)

VARIABLES
    machines,    \* state_machines: per name a definition or Nil
    executions,  \* executions: per machine and name an execution or Nil
    starting     \* per client: Nil, or its StartExecution between the guards

vars == <<machines, executions, starting>>

NoError == "none"

-----------------------------------------------------------------------------
(* The interpreter *)

\* eval_choice_rule: a comparison of a variable is the set of strings that satisfy it, with Nil in
\* it when so does a value of another type (StringEquals with what is no string: None equals None).
RECURSIVE EvalChoiceRule(_, _)
EvalChoiceRule(rule, v) ==
    CASE rule.op = "in"  -> (IF "str" \in DOMAIN v THEN v.str ELSE Nil) \in rule.set
      [] rule.op = "and" -> \A i \in DOMAIN rule.rules : EvalChoiceRule(rule.rules[i], v)
      [] rule.op = "or"  -> \E i \in DOMAIN rule.rules : EvalChoiceRule(rule.rules[i], v)
      [] rule.op = "not" -> ~EvalChoiceRule(rule.rule, v)
      [] OTHER -> FALSE

\* What visiting a state leads to: the end of the run, or a next state with its input.
Ended(v, error) == [ended |-> TRUE, output |-> v, error |-> error]

Goto(name, v) == [ended |-> FALSE, state |-> name, value |-> v]

\* End before Next; neither ends the run as well.
Leave(s, v) == IF s.end \/ s.next = Nil THEN Ended(v, NoError) ELSE Goto(s.next, v)

\* The Result replaces the input; a ResultPath then adds the Result to itself.
PassOutput(s, v) ==
    IF s.result = Nil THEN v
    ELSE IF s.path = Nil \/ "obj" \notin DOMAIN s.result THEN s.result
    ELSE [obj |-> [k \in DOMAIN s.result.obj \cup {s.path} |->
                      IF k = s.path THEN s.result ELSE s.result.obj[k]]]

\* The items of a Map: the input or one of its fields, when that is an array.
ItemsOf(s, v) ==
    LET at == IF s.items = Nil THEN v
              ELSE IF "obj" \in DOMAIN v /\ s.items \in DOMAIN v.obj THEN v.obj[s.items] ELSE [str |-> "null"]
    IN  IF "arr" \in DOMAIN at THEN at.arr ELSE <<>>

\* Branches and items run one after the other; the first that fails ends the whole run.
Joined(s, outs) ==
    LET failed == SelectInSeq(outs, LAMBDA o : o.error # NoError)
    IN  IF failed # 0 THEN Ended(outs[failed].output, outs[failed].error)
        ELSE Leave(s, [arr |-> [i \in DOMAIN outs |-> outs[i].output]])

\* The first choice that has a next state and whose rule holds, or the default.
Choose(s, v) ==
    LET taken == SelectInSeq(s.choices, LAMBDA c : c.next # Nil /\ EvalChoiceRule(c.rule, v))
    IN  IF taken # 0 THEN Goto(s.choices[taken].next, v)
        ELSE IF s.default # Nil THEN Goto(s.default, v) ELSE Ended(v, "NoChoiceMatched")

\* One turn of the loop in run_asl; Wait, Task and unknown types pass their input on.
\* Run is the run of a branch or of an item.
Visit(d, name, v, Run(_, _)) ==
    IF name \notin DOMAIN d.states THEN Ended(v, "StateNotFound")
    ELSE LET s == d.states[name]
         IN  CASE s.type = "Pass" -> Leave(s, PassOutput(s, v))
               [] s.type = "Succeed" -> Ended(v, NoError)
               [] s.type = "Fail" -> Ended(v, "States.TaskFailed")
               [] s.type = "Choice" -> Choose(s, v)
               [] s.type = "Parallel" -> Joined(s, [i \in DOMAIN s.branches |-> Run(s.branches[i], v)])
               [] s.type = "Map" -> Joined(s, [i \in DOMAIN ItemsOf(s, v) |-> Run(s.iterator, ItemsOf(s, v)[i])])
               [] OTHER -> Leave(s, v)

\* Mutant: the limit counts the state about to be visited.
Visits_ByOne == [i \in 1..(MAX_ITER - 1) |-> i]

\* The turns that one run may take
Visits == [i \in 1..MAX_ITER |-> i]

\* The loop: it turns until the run ends or the limit is reached.
Loop(d, v, Run(_, _)) ==
    LET turn(at, i) == IF at.ended THEN at ELSE Visit(d, at.state, at.value, Run)
        last == FoldLeft(turn, Goto(d.start, v), Visits)
    IN  IF last.ended THEN last ELSE Ended(last.value, "TooManyIterations")

RunAslWith(d, v, Run(_, _)) ==
    IF "states" \notin DOMAIN d THEN Ended(v, "NoStates")
    ELSE IF d.start = Nil THEN Ended(v, "NoStartAt")
    ELSE Loop(d, v, Run)

\* run_asl of a definition without branches and items, and of one whose branches and items
\* are such definitions: the bound on nesting, which the code leaves to the stack.
RunFlat(d, v) == RunAslWith(d, v, LAMBDA e, w : Ended(w, "States.Runtime"))

RunAsl(d, v) == RunAslWith(d, v, RunFlat)

-----------------------------------------------------------------------------
(* The service *)

\* A name that is taken gets the new definition.
CreateStateMachine(m, d) ==
    /\ machines' = [machines EXCEPT ![m] = d]
    /\ UNCHANGED <<executions, starting>>

\* The executions of the machine stay.
DeleteStateMachine(m) ==
    /\ machines' = [machines EXCEPT ![m] = Nil]
    /\ UNCHANGED <<executions, starting>>

\* A definition that does not parse is not taken, and the update succeeds.
UpdateStateMachine(m, d) ==
    /\ machines[m] # Nil
    /\ machines' = [machines EXCEPT ![m] = d]
    /\ UNCHANGED <<executions, starting>>

\* StartExecution up to the end of the first guard
StartExecution(c, m, x, input) ==
    /\ starting[c] = Nil /\ machines[m] # Nil
    /\ starting' = [starting EXCEPT ![c] = [key |-> <<m, x>>, def |-> machines[m], input |-> input]]
    /\ UNCHANGED <<machines, executions>>

\* Mutant: the machine is not looked for again.
RecordExecution_NoRecheck(c) ==
    LET r == starting[c]
        out == RunAsl(r.def, r.input)
    IN  /\ r # Nil
        /\ starting' = [starting EXCEPT ![c] = Nil]
        /\ executions' = [executions EXCEPT ![r.key] =
               [status |-> IF out.error = NoError THEN "SUCCEEDED" ELSE "FAILED", input |-> r.input,
                out |-> out, def |-> r.def, under |-> machines[r.key[1]] # Nil]]
        /\ UNCHANGED machines

\* The run, and the record of it if the machine is still there; an execution of the same name
\* is overwritten.  def and under are history: the definition that ran, and whether the
\* machine was there when the run was recorded.
RecordExecution(c) ==
    LET r == starting[c]
        out == RunAsl(r.def, r.input)
    IN  /\ r # Nil
        /\ starting' = [starting EXCEPT ![c] = Nil]
        /\ executions' = IF machines[r.key[1]] = Nil THEN executions
                         ELSE [executions EXCEPT ![r.key] =
                                  [status |-> IF out.error = NoError THEN "SUCCEEDED" ELSE "FAILED", input |-> r.input,
                                   out |-> out, def |-> r.def, under |-> machines[r.key[1]] # Nil]]
        /\ UNCHANGED machines

\* An execution that has ended is aborted as well; its output stays.
StopExecution(m, x) ==
    /\ executions[<<m, x>>] # Nil
    /\ executions' = [executions EXCEPT ![<<m, x>>].status = "ABORTED"]
    /\ UNCHANGED <<machines, starting>>

\* DescribeExecution
DescribeExecution(k) == executions[k]

\* ListExecutions, for a machine and a status
ListExecutions(m, status) ==
    {k \in Machines \X ExecNames : k[1] = m /\ executions[k] # Nil /\ executions[k].status = status}

-----------------------------------------------------------------------------
Init ==
    /\ machines = [m \in Machines |-> Nil]
    /\ executions = [k \in Machines \X ExecNames |-> Nil]
    /\ starting = [c \in Starters |-> Nil]

Next ==
    \/ \E m \in Machines, d \in Definitions : CreateStateMachine(m, d) \/ UpdateStateMachine(m, d)
    \/ \E m \in Machines : DeleteStateMachine(m)
    \/ \E c \in Starters, m \in Machines, x \in ExecNames, i \in Inputs : StartExecution(c, m, x, i)
    \/ \E c \in Starters : RecordExecution(c)
    \/ \E m \in Machines, x \in ExecNames : StopExecution(m, x)

-----------------------------------------------------------------------------
(* Properties *)

\* The configurations, a state with its input, that a run meets, as far as one beyond the limit.
Orbit(d, v) ==
    LET visit(c) == Visit(d, c[1], c[2], RunFlat)
        step(met, i) == met \cup {<<visit(c).state, visit(c).value>> : c \in {b \in met : ~visit(b).ended}}
    IN  FoldLeft(step, {<<d.start, v>>}, [i \in 1..MAX_ITER |-> i])

\* How a run of a definition must end: as the one configuration at the end of its orbit, when
\* it has one and it is not beyond the limit.
Outcomes(d, v) ==
    LET orbit == Orbit(d, v)
        ends == {w \in {Visit(d, c[1], c[2], RunFlat) : c \in orbit} : w.ended}
    IN  IF Cardinality(orbit) > MAX_ITER THEN {} ELSE ends

\* Every execution that the service shows ended as its definition prescribes: with the outcome
\* of the only path through it when that visits at most MAX_ITER states, and with
\* TooManyIterations when it goes round or is longer; its status says which, or that it was
\* stopped; and it was recorded for a machine that was there, whatever happened while it ran.
ExecutionsRunTheirMachine ==
    \A k \in Machines \X ExecNames :
        LET e == DescribeExecution(k)
        IN  e # Nil =>
                /\ e.under
                /\ k \in ListExecutions(k[1], e.status)
                /\ e.status \in {"ABORTED", IF e.out.error = NoError THEN "SUCCEEDED" ELSE "FAILED"}
                /\ "states" \in DOMAIN e.def /\ e.def.start # Nil =>
                       IF Outcomes(e.def, e.input) = {} THEN e.out.error = "TooManyIterations"
                       ELSE Outcomes(e.def, e.input) = {e.out}
=============================================================================
