---------------------------- MODULE Configuration -----------------------------
(***************************************************************************)
(* An experiment specification and what a repetition is built from it: the *)
(* graph of services with its validation and call order (core/schema.py),  *)
(* the policy each service resolves to (core/policies.py), the mechanisms  *)
(* built from it (core/builders.py), and the failures and network links    *)
(* routed to the services (experiments/runner.py, services/network.py).    *)
(*                                                                         *)
(* A specification is written edit by edit.  A policy is a dictionary of   *)
(* sections, each None or a dictionary of fields: retry, which validation  *)
(* may turn off; circuit_breaker, which stands for concurrency as well;    *)
(* and backoff, which may not be None and whose fields must fit together.  *)
(* The timeout (not built from a section of Nones) is left out; enabled    *)
(* and size stand for the fields of a mechanism.  Every value is within    *)
(* the limits of its field, and every duration parses.                     *)
(***************************************************************************)
EXTENDS Integers, Sequences, FiniteSets, FiniteSetsExt, SequencesExt

CONSTANTS Names,      \* names of services
          MaxEdits,   \* bound: edits of a specification
          MaxDepends  \* bound: dependencies of a service

ASSUME ConfigurationAssumption ==
  IsFiniteSet(Names) /\ MaxEdits \in Nat /\ MaxDepends \in Nat

VARIABLES services,   \* SystemSpec.services: [name, depends]
          failures,   \* ExperimentSpec.failure: the targets
          edges,      \* NetworkSpec.edges: [source, target]
          workload,   \* WorkloadSpec, as written: warmup and duration
          policy,     \* ExperimentSpec.policy, as written
          overrides   \* ExperimentSpec.policies, as written

configurationVars == <<services, failures, edges, workload, policy, overrides>>

Mechanisms == {"retry", "circuit_breaker"}
Sections == Mechanisms \union {"backoff"}
Null == [null |-> TRUE]

FieldsOf(s) == IF s = "backoff" THEN {"base", "maximum"} ELSE {"enabled", "size"}

\* The value a field has by default: enabled, and otherwise one that is not among those
\* the specifications here give.
DefaultOf(field) == IF field \in {"enabled", "base"} THEN 1 ELSE 3

\* What a section may hold: None, or some of its fields.  A base that is written may be
\* above a maximum that is written, or a default base above it.
Partial(s) ==
  LET values == IF s = "backoff" THEN {0, 2} ELSE {0, 1} IN
  {Null} \union {f : f \in UNION {[d -> values] : d \in SUBSET FieldsOf(s)}}

Written(d) == Cardinality(DOMAIN d)
Edits == Len(services) + Len(failures) + Len(edges)
           + Written(workload) + Written(policy) + Written(overrides)

ConfigurationInit ==
  /\ services = <<>> /\ failures = <<>> /\ edges = <<>>
  /\ workload = <<>> /\ policy = <<>> /\ overrides = <<>>

Put(d, k, v) == [x \in DOMAIN d \union {k} |-> IF x = k THEN v ELSE d[x]]

AddService(name, depends) ==
  /\ services' = Append(services, [name |-> name, depends |-> depends])
  /\ UNCHANGED <<failures, edges, workload, policy, overrides>>

AddFailure(target) ==
  /\ failures' = Append(failures, target)
  /\ UNCHANGED <<services, edges, workload, policy, overrides>>

AddEdge(source, target) ==
  /\ edges' = Append(edges, [source |-> source, target |-> target])
  /\ UNCHANGED <<services, failures, workload, policy, overrides>>

WriteWorkload(field, value) ==
  /\ field \notin DOMAIN workload
  /\ workload' = Put(workload, field, value)
  /\ UNCHANGED <<services, failures, edges, policy, overrides>>

WriteSection(section, value) ==
  /\ section \notin DOMAIN policy
  /\ policy' = Put(policy, section, value)
  /\ UNCHANGED <<services, failures, edges, workload, overrides>>

WriteOverride(name, section, value) ==
  /\ name \notin DOMAIN overrides
  /\ overrides' = Put(overrides, name, Put(<<>>, section, value))
  /\ UNCHANGED <<services, failures, edges, workload, policy>>

Depends == UNION {[1..n -> Names] : n \in 0..MaxDepends}

ConfigurationNext ==
  /\ Edits < MaxEdits
  /\ \/ \E name \in Names, depends \in Depends : AddService(name, depends)
     \/ \E name \in Names : AddFailure(name)
     \/ \E name \in Names, source \in {"order_api", "other"} : AddEdge(source, name)
     \/ \E field \in {"warmup", "duration"}, value \in 1..2 : WriteWorkload(field, value)
     \/ \E section \in Sections : \E value \in Partial(section) :
          \/ WriteSection(section, value)
          \/ \E name \in Names : WriteOverride(name, section, value)

ConfigurationSpec == ConfigurationInit /\ [][ConfigurationNext]_configurationVars

-------------------------------------------------------------------------------
Declared == {services[k].name : k \in DOMAIN services}
DependsOf(name) == (CHOOSE s \in ToSet(services) : s.name = name).depends

\* The names are unique, and each dependency is another declared service.
NamesValid ==
  /\ \A j, k \in DOMAIN services : j # k => services[j].name # services[k].name
  /\ \A s \in ToSet(services) : ToSet(s.depends) \subseteq Declared \ {s.name}

\* visited of visit(), and whether it raised: it does when it meets a service that it
\* is inside of.
Unseen == 0
Entered == 1
Left == 2
Walks == [seen : [Names -> {Unseen, Entered, Left}], cyclic : BOOLEAN]

\* A function of names that calls itself for the dependencies is a function of how deep
\* it may still go; no walk is inside of more services than there are names.
Depths == 0..Cardinality(Names)

\* The loop over some names, each time with the function that goes one deeper.
ForEach(names, deeper, start) == FoldLeft(LAMBDA x, name : deeper[<<name, x>>], start, names)

\* Plausible slip: a service that was met before is met again.
MutVisited(name, walk, deeper) ==
  IF walk.cyclic \/ walk.seen[name] = Left THEN walk
  ELSE IF walk.seen[name] = Entered THEN [walk EXCEPT !.cyclic = TRUE]
  ELSE ForEach(DependsOf(name), deeper, [walk EXCEPT !.seen[name] = Entered])

\* visit(): a service and, before it is left, what it depends on.
Visited(name, walk, deeper) ==
  IF walk.cyclic \/ walk.seen[name] = Left THEN walk
  ELSE IF walk.seen[name] = Entered THEN [walk EXCEPT !.cyclic = TRUE]
  ELSE LET inside == ForEach(DependsOf(name), deeper, [walk EXCEPT !.seen[name] = Entered])
       IN [inside EXCEPT !.seen[name] = Left]

visit[depth \in Depths] ==
  LET deeper == IF depth = 0 THEN [p \in Names \X Walks |-> p[2]] ELSE visit[depth - 1]
  IN [p \in Names \X Walks |-> Visited(p[1], p[2], deeper)]

DeclaredNames == [k \in DOMAIN services |-> services[k].name]

\* SystemSpec._check_graph().
Walk ==
  ForEach(DeclaredNames, visit[Cardinality(Names)],
          [seen |-> [n \in Names |-> Unseen], cyclic |-> FALSE])

GraphAccepted == NamesValid /\ ~Walk.cyclic

\* place(): the dependencies first, then the service.
Placed(name, ordered, deeper) ==
  IF Contains(ordered, name) THEN ordered
  ELSE Append(ForEach(DependsOf(name), deeper, ordered), name)

Orders == Seq(Names)

place[depth \in Depths] ==
  LET deeper == IF depth = 0 THEN [p \in Names \X Orders |-> p[2]] ELSE place[depth - 1]
  IN [p \in Names \X Orders |-> Placed(p[1], p[2], deeper)]

\* SystemSpec.call_order(), service_names(): the one default service if none is declared.
DefaultService == "payment_service"
CallOrder ==
  IF services = <<>> THEN <<DefaultService>>
  ELSE ForEach(DeclaredNames, place[Cardinality(Names)], <<>>)

-------------------------------------------------------------------------------
\* A section with the defaults of the fields that are not there.
Filled(s, v) ==
  IF v = Null THEN Null
  ELSE [f \in FieldsOf(s) |-> IF f \in DOMAIN v THEN v[f] ELSE DefaultOf(f)]

\* PolicySpec.model_validate(): what is not written is None, but for the backoff, and a
\* retry that is not enabled becomes None.
Validated(d) ==
  [s \in Sections |->
     LET v == IF s \in DOMAIN d THEN Filled(s, d[s])
              ELSE IF s = "backoff" THEN [f \in FieldsOf(s) |-> DefaultOf(f)] ELSE Null
     IN IF s = "retry" /\ v # Null /\ v.enabled = 0 THEN Null ELSE v]

\* Whether it raises: BackoffSpec is not optional, and _check_consistency() compares.
Valid(d) ==
  LET backoff == Validated(d)["backoff"] IN backoff # Null /\ backoff.base <= backoff.maximum

MergeFields(base, over) ==
  [f \in DOMAIN base \union DOMAIN over |-> IF f \in DOMAIN over THEN over[f] ELSE base[f]]

\* Plausible slip: a section of an override replaces the section of the default.
MutMerge(base, over) ==
  [s \in DOMAIN base \union DOMAIN over |-> IF s \in DOMAIN over THEN over[s] ELSE base[s]]

\* merge_policy_dicts(): dictionaries merge, everything else replaces.
Merge(base, over) ==
  [s \in DOMAIN base \union DOMAIN over |->
     IF s \notin DOMAIN over THEN base[s]
     ELSE IF s \in DOMAIN base /\ base[s] # Null /\ over[s] # Null
          THEN MergeFields(base[s], over[s])
          ELSE over[s]]

\* PolicyResolver.resolve().
Resolved(name) ==
  IF name \in DOMAIN overrides
  THEN Validated(Merge(Validated(policy), overrides[name]))
  ELSE Validated(policy)

\* build_policy(): the mechanisms that are built.  A circuit breaker (and a limiter) is
\* built from its section whatever its field enabled says.
Built(name) == {s \in Mechanisms : Resolved(name)[s] # Null}

LengthOf(field) ==
  IF field \in DOMAIN workload THEN workload[field] ELSE IF field = "warmup" THEN 0 ELSE 2

\* ExperimentSpec._check_warmup(): with declared services, failures and overrides name
\* declared ones; every policy that the overrides make is validated.
Accepted ==
  /\ GraphAccepted
  /\ Valid(policy)
  /\ LengthOf("warmup") < LengthOf("duration")
  /\ services # <<>> => ToSet(failures) \subseteq Declared /\ DOMAIN overrides \subseteq Declared
  /\ \A name \in DOMAIN overrides : Valid(Merge(Validated(policy), overrides[name]))

\* _injectors_by_service(): whose injectors the k-th failure joins.
RoutedTo(k) == IF services = <<>> THEN DefaultService ELSE failures[k]

\* resolve_network_link(): the edge of a call to a service, 0 for the default link.
LinkOf(name) ==
  LET exact == SelectInSeq(edges, LAMBDA e : e.source = "order_api" /\ e.target = name) IN
  IF exact # 0 THEN exact ELSE SelectInSeq(edges, LAMBDA e : e.target = name)

-------------------------------------------------------------------------------
\* A graph is accepted exactly when its names are valid and no service depends on
\* itself through others; it is then called in an order that has each service once and
\* after everything it depends on, the declared order if that is such an order.
Closed(S)  == \A m \in S : ToSet(DependsOf(m)) \subseteq S
Reaches(n) ==
  {m \in Declared :
     \A S \in SUBSET Declared : ToSet(DependsOf(n)) \subseteq S /\ Closed(S) => m \in S}

RespectsDependencies(order) ==
  \A j \in DOMAIN order : \A d \in ToSet(DependsOf(order[j])) :
    \E k \in 1..(j - 1) : order[k] = d

GraphDecided ==
  LET order == CallOrder IN
  /\ GraphAccepted <=> NamesValid /\ \A n \in Declared : n \notin Reaches(n)
  /\ GraphAccepted /\ services # <<>> =>
       /\ IsInjective(order) /\ ToSet(order) = Declared
       /\ RespectsDependencies(order)
       /\ RespectsDependencies(DeclaredNames) => order = DeclaredNames

\* docs/policies.md: a partial override merges onto the default, explicit values win
\* and None turns a mechanism off.  What an override leaves out is what the default
\* says - where the default has the mechanism on; every service has a backoff that can
\* be built, though base and maximum may come from different places; a failure and a
\* network link reach only services that are called.
SectionAsWritten(name, s) ==
  LET default == Validated(policy)[s]
      own == name \in DOMAIN overrides /\ s \in DOMAIN overrides[name]
      over == overrides[name][s]
      result == Resolved(name)[s]
  IN /\ ~own => result = default
     /\ own /\ over = Null => s \notin Built(name)
     /\ own /\ over # Null /\ result # Null =>
          \A f \in FieldsOf(s) :
            result[f] = IF f \in DOMAIN over THEN over[f]
                        ELSE IF default # Null THEN default[f] ELSE DefaultOf(f)
     /\ own /\ over # Null /\ result = Null => s = "retry"

ServicesAsConfigured ==
  Accepted =>
    /\ \A name \in ToSet(CallOrder) :
         /\ \A s \in Sections : SectionAsWritten(name, s)
         /\ LET backoff == Resolved(name)["backoff"] IN
            backoff # Null /\ backoff.base <= backoff.maximum
    /\ \A k \in DOMAIN failures : RoutedTo(k) \in ToSet(CallOrder)
    /\ \A name \in ToSet(CallOrder) : LinkOf(name) # 0 =>
         /\ edges[LinkOf(name)].target = name
         /\ \A e \in ToSet(edges) : e = [source |-> "order_api", target |-> name] =>
              edges[LinkOf(name)].source = "order_api"
===============================================================================
