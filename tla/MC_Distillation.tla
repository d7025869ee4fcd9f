---------------------------- MODULE MC_Distillation ----------------------------
EXTENDS OnPolicyDistill, TeacherService

(* The trainer of on-policy distillation and the service that answers its  *)
(* teacher calls, explored one at a time in one run: the one chosen at the *)
(* start goes through its states, the other stays as it was.               *)
VARIABLE side

Both == {"one_step_off", "two_step_off"}

allVars == <<side, vars, serviceVars>>
AllInit ==
  /\ side \in {"trainer", "teacher"}
  /\ Init /\ (side # "trainer" => scheduler = CHOOSE s \in Schedulers : TRUE)
  /\ ServiceInit
AllNext ==
  \/ side = "trainer" /\ Next /\ UNCHANGED <<side, serviceVars>>
  \/ side = "teacher" /\ ServiceNext /\ UNCHANGED <<side, vars>>

AllSpec ==
  /\ AllInit /\ [][AllNext]_allVars
  /\ WF_vars(side = "trainer" /\ Driver)
  /\ WF_vars(side = "trainer" /\ GenerationDone)
  /\ WF_vars(side = "trainer" /\ (TeacherAnswers \/ TeacherFails))
  /\ WF_serviceVars(side = "teacher" /\ Caller)
  /\ \A t \in Threads : WF_serviceVars(side = "teacher" /\ Thread(t))

(* Training ends, though teacher calls fail and the driver crashes.        *)
TrainingFinishes == side = "trainer" => Finishes
===============================================================================
