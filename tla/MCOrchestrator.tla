--------------------------- MODULE MCOrchestrator ---------------------------
EXTENDS Orchestrator, TLC

CONSTANTS c1, c2, c3

MCPrerequisites == ("db" :> {}) @@ ("rest" :> {"db"})
MCOrder == <<"db", "rest">>
OnePrerequisites == "db" :> {}
OneOrder == <<"db">>

MCActivation == [s \in Services |-> "lazy"]

OperationsOn(ops, s) == {[op |-> o, id |-> s] : o \in ops}

\* Two connections to the dependent, one to its prerequisite, and a stop of the latter.
WakeOperations ==
     ("c1" :> OperationsOn({"connect"}, "rest"))
  @@ ("c2" :> OperationsOn({"connect", "stop"}, "db") \union OperationsOn({"ready"}, "rest"))
  @@ ("c3" :> OperationsOn({"connect"}, "rest") \union OperationsOn({"inspect"}, "db"))

\* Explicit requests and traffic that cross each other and the services' failures.
RequestOperations ==
     ("c1" :> OperationsOn({"start", "connect"}, "rest"))
  @@ ("c2" :> OperationsOn({"restart", "stop"}, "db") \union OperationsOn({"arm", "stop"}, "rest"))

\* Storage work and a destroy of a service that traffic woke.
RemovalOperations ==
     ("c1" :> OperationsOn({"destroy"}, "db"))
  @@ ("c2" :> OperationsOn({"storage", "stop"}, "db"))
  @@ ("c3" :> OperationsOn({"connect", "stop"}, "db"))

\* A start that crosses the destroy of its service.
DestroyOperations ==
  ("c1" :> OperationsOn({"start"}, "db")) @@ ("c2" :> OperationsOn({"destroy"}, "db"))
=============================================================================
