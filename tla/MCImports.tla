----------------------------- MODULE MCImports -----------------------------
(* What an import of a file lives on, in one run of TLC: the connection of *)
(* its session (SessionPool) and its plan (ImportPlans).  The modules      *)
(* share no variable and no property speaks of both, so part picks the one *)
(* that moves while the other keeps an initial state.                      *)
EXTENDS MCSessionPool, ImportPlans

VARIABLE part

ImportsInit ==
    /\ part \in {"connections", "plans"}
    /\ Init
    /\ ImportInit /\ (part # "plans" => database)

PoolMove == part = "connections" /\ Next /\ UNCHANGED <<importVars, part>>

Plan(A) == part = "plans" /\ A /\ UNCHANGED <<vars, part>>
PlansMove ==
    \/ \E t \in Tabs :
          \/ Plan(OpenImport(t)) \/ Plan(LoadPlan(t)) \/ Plan(ShowPage(t)) \/ Plan(ClearPlan(t))
          \/ Plan(CreatePlan(t)) \/ Plan(WritePlan(t)) \/ Plan(WriteFails(t)) \/ Plan(DeletePlan(t))
          \/ \E create, replace \in BOOLEAN : Plan(Validate(t, create, replace))
          \/ Plan(CreateDatabase(t)) \/ Plan(DropTarget(t)) \/ Plan(CreateTarget(t))
          \/ Plan(CreateFails(t)) \/ Plan(InsertRows(t)) \/ Plan(InsertFails(t))
          \/ Plan(CommitRows(t)) \/ Plan(AnswerImport(t))
    \/ \E p \in PlanIds : Plan(PlanExpires(p))
    \/ Plan(ImportCut)

ImportsSpec == ImportsInit /\ [][PoolMove \/ PlansMove]_<<vars, importVars, part>>
=============================================================================
