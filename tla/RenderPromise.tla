--------------------------- MODULE RenderPromise ---------------------------
(***************************************************************************)
(* What Chunklet promises the operator (README, "Persistence"): at most    *)
(* one render at a time; "Complete" is reported once every target column   *)
(* is durable; what is durable stays durable, through failures, stops and  *)
(* restarts.                                                               *)
(***************************************************************************)
CONSTANTS
  Requests,     \* the target sets the operator may ask for
  None          \* no render

VARIABLES
  request,      \* the columns being rendered, or None
  report,       \* how the last render ended
  durable       \* columns in the database

promiseVars == <<request, report, durable>>

NoReport == [outcome |-> "none", columns |-> None]
Report(outcome) == [outcome |-> outcome, columns |-> request]
Grows == durable \subseteq durable'

PromiseInit ==
  /\ request = None
  /\ report = NoReport
  /\ durable = {}

Accept(r) ==
  /\ request = None
  /\ request' = r
  /\ UNCHANGED <<report, durable>>

Store ==
  /\ Grows
  /\ UNCHANGED <<request, report>>

Complete ==
  /\ request # None
  /\ Grows
  /\ request \subseteq durable'
  /\ request' = None
  /\ report' = Report("complete")

GiveUp ==
  /\ request # None
  /\ Grows
  /\ request' = None
  /\ report' \in {Report("failed"), Report("stopped")}

Restart ==
  /\ Grows
  /\ request' = None
  /\ report' = NoReport

PromiseNext ==
  \/ \E r \in Requests : Accept(r)
  \/ Store
  \/ Complete
  \/ GiveUp
  \/ Restart

PromiseSpec ==
  /\ PromiseInit
  /\ [][PromiseNext]_promiseVars
=============================================================================
