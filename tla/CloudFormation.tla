--------------------------- MODULE CloudFormation ---------------------------
(***************************************************************************)
(* CloudFormation (services/cloudformation): stacks of resources that are  *)
(* given physical ids but never made, and the outputs that refer to them.  *)
(* A template is a record of resources (logical id to type) and outputs    *)
(* (name to expression); a string is a sequence of pairs, a word and the   *)
(* number of the random suffix that follows it (0 for none).  Only the     *)
(* insertion of a stack is under the guard of the store, and it is there   *)
(* that its name is looked for.                                            *)
(***************************************************************************)
EXTENDS Integers, Sequences, FiniteSets, SequencesExt

CONSTANTS
    StackNames, Templates, Parameters,  \* parameters: the maps that clients pass
    Creators,      \* clients that create stacks
    Nil,
    MaxSuffixes    \* bound: random suffixes drawn

VARIABLES
    stacks,    \* CloudFormationStore.stacks: per name Nil or a stack
    creating,  \* per client: Nil, or its CreateStack before the guard
    suffixes   \* number of suffixes drawn

vars == <<stacks, creating, suffixes>>

Word(w) == <<<<w, 0>>>>

-----------------------------------------------------------------------------
(* Physical ids and intrinsic functions *)

\* make_physical_id: tables, functions and roles are named as in the template.
MakePhysicalId(logical, type, suffix) ==
    IF type \in {"Table", "Function", "Role"} THEN Word(logical) ELSE <<<<logical, suffix>>>>

\* resolve_value.  A parameter hides a resource of its name; a Ref to neither is the name.  Sub puts
\* what its names stand for between the texts around them.  What is no string in the end reads as
\* the empty one: GetAtt of an unknown resource, Select beyond the list, Split and plain objects.
RECURSIVE ResolveValue(_, _, _)
ResolveValue(e, resources, params) ==
    CASE e.fn = "literal" -> e.value
      [] e.fn = "Ref" -> IF e.name \in DOMAIN params THEN params[e.name]
                         ELSE IF e.name \in DOMAIN resources THEN resources[e.name] ELSE Word(e.name)
      [] e.fn = "GetAtt" -> IF e.name \notin DOMAIN resources THEN <<>>
                            ELSE (IF e.attr = "Arn" THEN Word("arn") ELSE <<>>) \o resources[e.name]
      [] e.fn = "Join" ->
             FoldLeftDomain(LAMBDA acc, i : acc \o (IF i = 1 THEN <<>> ELSE e.sep)
                                                \o ResolveValue(e.items[i], resources, params), <<>>, e.items)
      [] e.fn = "Sub" ->
             FoldLeft(LAMBDA acc, part : acc \o ResolveValue(part, resources, params), <<>>, e.parts)
      [] e.fn = "Select" -> IF e.index >= Len(e.items) THEN <<>>
                            ELSE ResolveValue(e.items[e.index + 1], resources, params)
      [] e.fn = "If" -> ResolveValue(e.then, resources, params)
      [] OTHER -> <<>>

\* Every resource gets an id; the suffixes are drawn here, one for each.
IdsOf(t, first) ==
    LET order == SetToSeq(DOMAIN t.resources)
    IN  [r \in DOMAIN t.resources |->
            MakePhysicalId(r, t.resources[r], first + (CHOOSE i \in DOMAIN order : order[i] = r))]

OutputsOf(t, resources, params) == [o \in DOMAIN t.outputs |-> ResolveValue(t.outputs[o], resources, params)]

-----------------------------------------------------------------------------
(* Operations *)

\* CreateStack up to the guard; a template without resources is refused.
PrepareStack(c, n, t, params) ==
    /\ creating[c] = Nil
    /\ DOMAIN t.resources # {} /\ suffixes + Cardinality(DOMAIN t.resources) <= MaxSuffixes
    /\ LET resources == IdsOf(t, suffixes)
       IN  creating' = [creating EXCEPT ![c] =
               [name |-> n, stack |-> [status |-> "CREATE_COMPLETE", template |-> t, parameters |-> params,
                                       resources |-> resources, outputs |-> OutputsOf(t, resources, params),
                                       origin |-> t]]]
    /\ suffixes' = suffixes + Cardinality(DOMAIN t.resources)
    /\ UNCHANGED stacks

\* CreateStack under the guard: the second of two with one name fails.
CreateStack(c) ==
    /\ creating[c] # Nil
    /\ stacks' = IF stacks[creating[c].name] # Nil THEN stacks
                 ELSE [stacks EXCEPT ![creating[c].name] = creating[c].stack]
    /\ creating' = [creating EXCEPT ![c] = Nil]
    /\ UNCHANGED suffixes

\* Mutant: the resources are made anew for the template, the outputs are not.
UpdateStack_NewIds(n, t) ==
    /\ stacks[n] # Nil
    /\ stacks' = [stacks EXCEPT ![n].template = t, ![n].status = "UPDATE_COMPLETE",
                                ![n].resources = IdsOf(t, suffixes)]
    /\ UNCHANGED <<creating, suffixes>>

\* The template alone is replaced: resources and outputs stay those of the creation.
UpdateStack(n, t) ==
    /\ stacks[n] # Nil
    /\ stacks' = [stacks EXCEPT ![n].template = t, ![n].status = "UPDATE_COMPLETE"]
    /\ UNCHANGED <<creating, suffixes>>

DeleteStack(n) ==
    /\ stacks' = [stacks EXCEPT ![n] = Nil]
    /\ UNCHANGED <<creating, suffixes>>

-----------------------------------------------------------------------------
(* Answers *)

DescribeStacks == {n \in StackNames : stacks[n] # Nil}

DescribeStackResources(n) == stacks[n].resources

GetTemplate(n) == stacks[n].template

-----------------------------------------------------------------------------
Init ==
    /\ stacks = [n \in StackNames |-> Nil]
    /\ creating = [c \in Creators |-> Nil]
    /\ suffixes = 0

Next ==
    \/ \E c \in Creators, n \in StackNames, t \in Templates, p \in Parameters : PrepareStack(c, n, t, p)
    \/ \E c \in Creators : CreateStack(c)
    \/ \E n \in StackNames, t \in Templates : UpdateStack(n, t)
    \/ \E n \in StackNames : DeleteStack(n)

-----------------------------------------------------------------------------
(* Properties *)

\* What a stack's outputs name are the resources that the same stack lists: the ids of its own
\* creation, whoever created a stack of that name at the same time and however it was
\* updated since.  Ids with a suffix are never those of another stack, and an updated
\* stack shows the template of its update.
OutputsNameResources ==
    /\ \A n \in DescribeStacks :
           LET s == stacks[n]
           IN  /\ s.outputs = OutputsOf(s.origin, DescribeStackResources(n), s.parameters)
               /\ GetTemplate(n) # s.origin => s.status = "UPDATE_COMPLETE"
    /\ \A m, n \in DescribeStacks : m # n =>
           \A a \in DOMAIN stacks[m].resources, b \in DOMAIN stacks[n].resources :
               stacks[m].resources[a] = stacks[n].resources[b] => stacks[m].resources[a][1][2] = 0
=============================================================================
