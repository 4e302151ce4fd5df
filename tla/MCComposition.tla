--------------------------- MODULE MCComposition ---------------------------
EXTENDS Composition, LifecycleOrder

MCPrerequisites == ("db" :> {}) @@ ("rest" :> {"db"})
MCOrder == <<"db", "rest">>
MCActivation == ("db" :> "lazy") @@ ("rest" :> "eager")

On(ops, s) == {[op |-> o, id |-> s] : o \in ops}

\* One caller of its own, next to the composition's.
MCOperations ==
  [c \in Clients |->
     IF c \in Services THEN {}
     ELSE On({"connect"}, "rest") \union On({"restart"}, "db")]
=============================================================================
