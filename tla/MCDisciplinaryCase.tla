------------------------- MODULE MCDisciplinaryCase -------------------------
(* Instances of DisciplinaryCase for TLC: the operations of each run.      *)
EXTENDS AppealCenter, TLC

Interchangeable == Permutations(Handlers)
NoDays  == {}
Weekend == {2}

SerialOperations  == Requests \cup {"reconcile"}
TimerOperations   == {"start", "communicate", "deliverFormalCharge", "fileDefense", "resolve", "annul",
                      "fileRevocation", "fileAppeal", "resolveRecurso",
                      "reconcile", "calendar", "link"}
ProcessOperations == {"start", "communicate", "fileDefense", "resolve", "annul", "reconcile"}
RecursoOperations == {"fileRevocation", "fileAppeal", "resolveRecurso", "reconcile"}
AnnulOperations   == {"annul", "fileRevocation", "resolveRecurso", "reconcile"}
=============================================================================
