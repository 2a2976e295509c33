------------------------------ MODULE Session -------------------------------
(***************************************************************************)
(* A worker gets a Connection through a future, and then either reports    *)
(* metrics over it or manages entities: the two share nothing but the      *)
(* Connection, which keeps no state of either, and here one connected by a *)
(* Locator does the former, any other the latter.  With a list of          *)
(* deployments it does nothing more.                                       *)
(***************************************************************************)
EXTENDS Futures, Metrics, EntityRequests

sessionVars == << futureVars, metricsVars, requestVars >>

SessionInit == FutureInit /\ MetricsInit /\ RequestInit

(* The future has been used and is gone; the connection is the user's.     *)
Connected == owner = "user" /\ ~impl.there

Connecting ==
  /\ FutureStep \/ FutureEnvironment
  /\ UNCHANGED << metricsVars, requestVars >>

Using ==
  /\ Connected
  /\ \/ /\ kind = "locator" /\ MetricsStep
        /\ UNCHANGED requestVars
     \/ /\ kind = "receptionist" /\ (RequestStep \/ RequestEnvironment)
        /\ UNCHANGED metricsVars
  /\ UNCHANGED futureVars

SessionNext == Connecting \/ Using

SessionSpec == SessionInit /\ [][SessionNext]_sessionVars
=============================================================================
