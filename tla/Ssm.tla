-------------------------------- MODULE Ssm --------------------------------
(***************************************************************************)
(* The parameter store (services/ssm).  Parameters have hierarchical       *)
(* names, a name here being the sequence of its characters, and a version  *)
(* that counts the values put under the name since it was last created.    *)
(* Every handler is one step under the guard of the store.                 *)
(***************************************************************************)
EXTENDS Integers, Sequences, FiniteSets, SequencesExt

CONSTANTS
    ParamNames,  \* names of parameters
    Paths,       \* paths that clients ask for
    Nil,         \* no parameter
    MaxPuts      \* bound: values put

VARIABLES
    parameters,  \* SsmStore.parameters: per name a parameter or Nil
    puts,        \* number of values put; a value is the number of its put
    accepted     \* history: per name, the values put since it was created

vars == <<parameters, puts, accepted>>

Present == {n \in ParamNames : parameters[n] # Nil}

-----------------------------------------------------------------------------
(* Operations *)

\* Mutant: a put without Overwrite starts the versions anew instead of failing.
PutParameter_Unguarded(n, overwrite) ==
    /\ puts < MaxPuts
    /\ puts' = puts + 1
    /\ LET version == IF n \in Present /\ overwrite THEN parameters[n].version + 1 ELSE 1
       IN  parameters' = [parameters EXCEPT ![n] = [value |-> puts + 1, version |-> version]]
    /\ accepted' = [accepted EXCEPT ![n] = Append(@, puts + 1)]

\* Of several puts without Overwrite the first creates the parameter and the others fail.
PutParameter(n, overwrite) ==
    /\ puts < MaxPuts
    /\ puts' = puts + 1
    /\ IF n \in Present /\ ~overwrite
       THEN UNCHANGED <<parameters, accepted>>
       ELSE LET version == IF n \in Present THEN parameters[n].version + 1 ELSE 1
            IN  /\ parameters' = [parameters EXCEPT ![n] = [value |-> puts + 1, version |-> version]]
                /\ accepted' = [accepted EXCEPT ![n] = Append(@, puts + 1)]

Forget(names) ==
    /\ parameters' = [n \in ParamNames |-> IF n \in names THEN Nil ELSE parameters[n]]
    /\ accepted' = [n \in ParamNames |-> IF n \in names THEN <<>> ELSE accepted[n]]
    /\ UNCHANGED puts

DeleteParameter(n) == n \in Present /\ Forget({n})

\* Names that are not there are reported and the others deleted.
DeleteParameters(names) == Forget(names)

-----------------------------------------------------------------------------
(* Answers *)

\* GetParameter
GetParameter(n) == parameters[n]

\* GetParameters: those found, and the names that are not
GetParameters(names) ==
    [found |-> {<<n, parameters[n]>> : n \in names \cap Present}, invalid |-> names \ Present]

RECURSIVE TrimSlashes(_)
TrimSlashes(rest) == IF rest # <<>> /\ Head(rest) = "/" THEN TrimSlashes(Tail(rest)) ELSE rest

\* GetParametersByPath compares characters: "/a" is a prefix of "/ab" as well.
GetParametersByPath(path, recursive) ==
    {n \in Present :
        /\ IsPrefix(path, n)
        /\ recursive \/ "/" \notin ToSet(TrimSlashes(SubSeq(n, Len(path) + 1, Len(n))))}

\* DescribeParameters
DescribeParameters == {<<n, parameters[n].version>> : n \in Present}

-----------------------------------------------------------------------------
Init ==
    /\ parameters = [n \in ParamNames |-> Nil]
    /\ puts = 0
    /\ accepted = [n \in ParamNames |-> <<>>]

Next ==
    \/ \E n \in ParamNames, overwrite \in BOOLEAN : PutParameter(n, overwrite)
    \/ \E n \in ParamNames : DeleteParameter(n)
    \/ \E names \in SUBSET ParamNames : Cardinality(names) = 2 /\ DeleteParameters(names)

-----------------------------------------------------------------------------
(* Properties *)

\* The name of the level that a parameter is in: everything to its last "/".
Level(n) == SubSeq(n, 1, SelectLastInSeq(n, LAMBDA c : c = "/"))

\* Every answer shows the value accepted last, under a version that counts the values accepted
\* since the parameter was created, so that no version of a parameter ever names two values; a
\* request for several names accounts for each; and a path that ends in "/" answers its level,
\* or with Recursive its subtree, of the hierarchy.
ParametersReadBack ==
    /\ \A n \in ParamNames :
           GetParameter(n) = IF accepted[n] = <<>> THEN Nil
                             ELSE [value |-> Last(accepted[n]), version |-> Len(accepted[n])]
    /\ \A p \in DescribeParameters : p[2] = Len(accepted[p[1]])
    /\ LET all == GetParameters(ParamNames)
       IN  {p[1] : p \in all.found} \cup all.invalid = ParamNames
    /\ \A path \in Paths : path # <<>> /\ Last(path) = "/" =>
           /\ GetParametersByPath(path, FALSE) = {n \in Present : Level(n) = path}
           /\ GetParametersByPath(path, TRUE) = {n \in Present : IsPrefix(path, Level(n))}
=============================================================================
