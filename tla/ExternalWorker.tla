---------------------------- MODULE ExternalWorker --------------------------
(***************************************************************************)
(* The External worker (workers/External/src/startup.cc).  It connects     *)
(* through the receptionist or through the locator, and does nothing but   *)
(* process operations.                                                     *)
(***************************************************************************)
EXTENDS Worker

ExternalInit == WorkerInit

(* What the arguments come to: the type of connection, and how many they   *)
(* are.  argc = 1 stands for the defaults of a local deployment.           *)
ExternalArguments ==
  { [ type |-> "receptionist", size |-> 4, id |-> "random" ] }
    \cup [ type : { "receptionist", "locator", "other" },
           size : 1 .. MaxArguments, id : { "given" } ]

InOrder(arguments) ==
  \/ arguments.type = "locator" /\ arguments.size = 5
  \/ arguments.type = "receptionist" /\ arguments.size = 4

ExternalUsage ==
  /\ \E arguments \in ExternalArguments : ~InOrder(arguments)
  /\ PrintUsage

ExternalConnect ==
  \E arguments \in ExternalArguments, port \in Ports :
    /\ InOrder(arguments)
    /\ arguments.id = "random" => port = 7777
    /\ Connect(IF arguments.type = "locator"
               THEN [ via |-> "locator" ]
               ELSE [ via |-> "receptionist", port |-> Port(port), id |-> arguments.id ])

ExternalRegister == RegisterOnLogMessage({})

ExternalEndOfList == EndOfList("loop")

ExternalStep ==
  \/ CommonStep
  \/ ExternalUsage
  \/ ExternalConnect
  \/ ExternalRegister
  \/ ExternalEndOfList

=============================================================================
