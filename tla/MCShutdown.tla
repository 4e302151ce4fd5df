----------------------------- MODULE MCShutdown -----------------------------
EXTENDS Shutdown, TLC

MCPrerequisites == ("db" :> {}) @@ ("rest" :> {"db"})
MCOrder == <<"db", "rest">>
MCActivation == [s \in Services |-> "lazy"]

\* A start, a connection that wakes the service, and an instance's destroy, each
\* of which the shutdown may cross.
MCOperations ==
     ("c1" :> {[op |-> op, id |-> "rest"] : op \in {"start", "connect", "destroy"}})
  @@ ("owner" :> {})
=============================================================================
