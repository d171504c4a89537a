----------------------------- MODULE ApiGateway -----------------------------
(***************************************************************************)
(* The management API of the API gateway (services/apigateway): REST APIs, *)
(* their resources and methods, deployments and stages.  A resource is     *)
(* created in two steps, checked under one guard of the store and inserted *)
(* under another; every other handler is one step.                         *)
(***************************************************************************)
EXTENDS Integers, Sequences, SequencesExt, FiniteSets

CONSTANTS
    Creators,     \* clients that create resources
    PathParts,    \* the last parts of paths, "" among them
    HttpMethods, StageNames, Uris,
    Nil,
    MaxApis, MaxResources, MaxDeployments   \* bounds: ids made of each kind

VARIABLES
    apis,         \* ApiGatewayStore.apis: the ids that exist
    resources,    \* ApiGatewayStore.resources: per id Nil or [api, parent, path, methods]
    deployments,  \* ApiGatewayStore.deployments: per id the API, Nil when there is none
    stages,       \* ApiGatewayStore.stages: per API and name the deployment or Nil
    made,         \* number of ids made: [apis, resources, deployments]
    adding,       \* per creator, Nil or the resource between its check and its insertion
    straddled     \* history: resources inserted after their API was deleted

vars == <<apis, resources, deployments, stages, made, adding, straddled>>

Apis == 1 .. MaxApis
ResourceIds == 1 .. MaxResources

\* No method, a method without an integration, or the URI of its integration.
NoMethod == "none"
Bare == "bare"

NoMethods == [h \in HttpMethods |-> NoMethod]

-----------------------------------------------------------------------------
(* Reads *)

GetRestApi(a) == a \in apis

GetResources(a) == {r \in ResourceIds : resources[r] # Nil /\ resources[r].api = a}

GetDeployments(a) == {d \in 1 .. MaxDeployments : deployments[d] = a}

GetStages(a) == {s \in StageNames : stages[a][s] # Nil}

-----------------------------------------------------------------------------
(* APIs *)

\* The API comes with its root, the resource without a parent whose path is empty.
CreateRestApi ==
    /\ made.apis < MaxApis /\ made.resources < MaxResources
    /\ made' = [made EXCEPT !.apis = @ + 1, !.resources = @ + 1]
    /\ apis' = apis \cup {made.apis + 1}
    /\ resources' = [resources EXCEPT ![made.resources + 1] =
                        [api |-> made.apis + 1, parent |-> Nil, path |-> <<>>, methods |-> NoMethods]]
    /\ UNCHANGED <<deployments, stages, adding, straddled>>

\* Mutant: the stages of the API stay.
DeleteRestApi_KeepsStages(a) ==
    /\ apis' = apis \ {a}
    /\ resources' = [r \in ResourceIds |-> IF r \in GetResources(a) THEN Nil ELSE resources[r]]
    /\ deployments' = [d \in DOMAIN deployments |-> IF deployments[d] = a THEN Nil ELSE deployments[d]]
    /\ UNCHANGED <<stages, made, adding, straddled>>

\* An API that does not exist is deleted all the same, with the resources that name it.
DeleteRestApi(a) ==
    /\ apis' = apis \ {a}
    /\ resources' = [r \in ResourceIds |-> IF r \in GetResources(a) THEN Nil ELSE resources[r]]
    /\ deployments' = [d \in DOMAIN deployments |-> IF deployments[d] = a THEN Nil ELSE deployments[d]]
    /\ stages' = [stages EXCEPT ![a] = [s \in StageNames |-> Nil]]
    /\ UNCHANGED <<made, adding, straddled>>

-----------------------------------------------------------------------------
(* Resources and methods *)

\* The path of a resource below another; an empty part below the root gives the root's path again.
Below(path, part) == IF path = <<>> /\ part = "" THEN <<>> ELSE Append(path, part)

\* The parent may be a resource of another API, or none: the resource is then below the root.
CheckResource(w, a, parent, part) ==
    /\ adding[w] = Nil /\ made.resources < MaxResources
    /\ a \in apis
    /\ parent # Nil => resources[parent] # Nil
    /\ made' = [made EXCEPT !.resources = @ + 1]
    /\ adding' = [adding EXCEPT ![w] =
                     [id |-> made.resources + 1, api |-> a, parent |-> parent,
                      path |-> Below(IF parent = Nil THEN <<>> ELSE resources[parent].path, part)]]
    /\ UNCHANGED <<apis, resources, deployments, stages, straddled>>

\* Neither the API nor the parent is looked at again.
InsertResource(w) ==
    /\ adding[w] # Nil
    /\ LET r == adding[w]
       IN /\ resources' = [resources EXCEPT ![r.id] =
                              [api |-> r.api, parent |-> r.parent, path |-> r.path, methods |-> NoMethods]]
          /\ straddled' = IF r.api \in apis THEN straddled ELSE straddled \cup {r.id}
    /\ adding' = [adding EXCEPT ![w] = Nil]
    /\ UNCHANGED <<apis, deployments, stages, made>>

\* A method that is put again loses its integration.
PutMethod(r, h) ==
    /\ resources[r] # Nil
    /\ resources' = [resources EXCEPT ![r].methods[h] = Bare]
    /\ UNCHANGED <<apis, deployments, stages, made, adding, straddled>>

PutIntegration(r, h, uri) ==
    /\ resources[r] # Nil /\ resources[r].methods[h] # NoMethod
    /\ resources' = [resources EXCEPT ![r].methods[h] = uri]
    /\ UNCHANGED <<apis, deployments, stages, made, adding, straddled>>

-----------------------------------------------------------------------------
(* Deployments *)

CreateDeployment(a, s) ==
    /\ a \in apis /\ made.deployments < MaxDeployments
    /\ made' = [made EXCEPT !.deployments = @ + 1]
    /\ deployments' = [deployments EXCEPT ![made.deployments + 1] = a]
    /\ stages' = [stages EXCEPT ![a][s] = made.deployments + 1]
    /\ UNCHANGED <<apis, resources, adding, straddled>>

-----------------------------------------------------------------------------
Init ==
    /\ apis = {} /\ straddled = {}
    /\ resources = [r \in ResourceIds |-> Nil]
    /\ deployments = [d \in 1 .. MaxDeployments |-> Nil]
    /\ stages = [a \in Apis |-> [s \in StageNames |-> Nil]]
    /\ made = [apis |-> 0, resources |-> 0, deployments |-> 0]
    /\ adding = [w \in Creators |-> Nil]

Next ==
    \/ CreateRestApi
    \/ \E a \in 1 .. made.apis : DeleteRestApi(a)
    \/ \E w \in Creators, a \in Apis, part \in PathParts, parent \in ResourceIds \cup {Nil} :
          CheckResource(w, a, parent, part)
    \/ \E w \in Creators : InsertResource(w)
    \/ \E r \in ResourceIds, h \in HttpMethods :
          PutMethod(r, h) \/ \E uri \in Uris : PutIntegration(r, h, uri)
    \/ \E a \in Apis, s \in StageNames : CreateDeployment(a, s)

Spec == Init /\ [][Next]_vars

-----------------------------------------------------------------------------
(* Properties *)

\* An API that exists has its root, its stages name deployments of its own, and a resource's path
\* goes on from its parent's by one part at most; of an API that was deleted nothing is shown but a resource that was
\* being created while it was (CreateResource inserts without a second look, DeleteRestApi cleans
\* four maps by hand).
ApisAreWhole ==
    \A a \in Apis :
        IF GetRestApi(a)
        THEN /\ \E r \in GetResources(a) : resources[r].parent = Nil /\ resources[r].path = <<>>
             /\ \A s \in GetStages(a) : stages[a][s] \in GetDeployments(a)
             /\ \A r \in GetResources(a) :
                   LET p == resources[r].parent
                   IN (p # Nil /\ resources[p] # Nil) =>
                          /\ IsPrefix(resources[p].path, resources[r].path)
                          /\ Len(resources[r].path) <= Len(resources[p].path) + 1
        ELSE /\ GetResources(a) \subseteq straddled
             /\ GetDeployments(a) = {} /\ GetStages(a) = {}
=============================================================================
