SPECIFICATION Spec
CONSTANTS
  Calls = {c1}
  Instances = {admin, worker, tools}
  AdminCallers = {admin, tools}
  WorkerCallers = {worker}
  Tools = tools
  Subjects = {s1}
  ClientCodes <- OlderCodes
  Used = {"put_account", "get_account", "close_period", "inspect_delivery", "resolve_delivery", "reconcile_next"}
  MaxActivations = 2
INVARIANTS
  TypeOK
  AuthorityIsWitnessed
  DomainErrorsChangeNothing
  FailuresAreNoSuccess
  RecordsAreTheSinks
  QuietWhenInactive
  AnswersArrive
