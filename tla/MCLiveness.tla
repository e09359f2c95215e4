----------------------------- MODULE MCLiveness -----------------------------
(***************************************************************************)
(* What must come about in the end, in one run: the deployments with their *)
(* queue, the connections to the customer's cloud, and the stream of a     *)
(* deployment's events. The three share no state here, so Init chooses the *)
(* one that acts, under its own fairness, and the others stay as they      *)
(* start. The safety of the last two is checked here too.                  *)
(***************************************************************************)
EXTENDS DeploymentSystem, Connections, EventStream, TLC

VARIABLE part

\* Two processes: the clock of one is behind the database's by more than lies
\* between two attempts, or right, that of the other right, or ahead of the
\* attempt's start.
MCBehind == CHOOSE v \in Validators : TRUE
MCSkews  == [ v \in Validators |-> IF v = MCBehind THEN { -2, 0 } ELSE { 0, 2 } ]

LivenessInit ==
  /\ part \in { "deployments", "connections", "events" }
  /\ Init /\ ConnInit /\ StreamInit
  /\ part # "connections" => ~usesToken
  /\ part # "events" => events = << "state" >>

LivenessNext ==
  /\ UNCHANGED part
  /\ IF part = "deployments" THEN Next       ELSE UNCHANGED vars
  /\ IF part = "connections" THEN ConnNext   ELSE UNCHANGED connVars
  /\ IF part = "events"      THEN StreamNext ELSE UNCHANGED streamVars

livenessVars == << part, vars, connVars, streamVars >>

\* Fairness, ConnFairness and StreamFairness, each of them while its part acts.
LivenessFairness ==
  /\ \A w \in Workers     : WF_vars(part = "deployments" /\ WorkerStep(w))
  /\ \A d \in Deployments : WF_vars(part = "deployments" /\ Queue(d))
  /\ WF_vars(part = "deployments" /\ Dispatching)
  /\ SF_vars(part = "deployments" /\ Publishing)
  /\ SF_vars(part = "deployments" /\ Marking)
  /\ WF_connVars(part = "connections" /\ Recovers)
  /\ WF_connVars(part = "connections" /\ Age)
  /\ \A c \in StreamIds   : WF_streamVars(part = "events" /\ ServeStream(c))
  /\ WF_streamVars(part = "events" /\ Follow)
  /\ SF_streamVars(part = "events" /\ CheckEnded)

LivenessSpec == LivenessInit /\ [][LivenessNext]_livenessVars /\ LivenessFairness

=============================================================================
