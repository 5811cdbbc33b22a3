---------------------------- MODULE ModelChoice -----------------------------
(***************************************************************************)
(* How a task gets its model: the pure routing functions of                *)
(* crates/runtime/src/orchestrator.rs and llm.rs over the registry, the    *)
(* selector and the tier map of crates/core/src/models.rs.  A registry is  *)
(* a set of models with distinct ids; ids are ordered, tiers are numbered  *)
(* from Fast to Powerful.                                                  *)
(***************************************************************************)
EXTENDS Integers

Fast == 0
Balanced == 1
Powerful == 2
Tier == {Fast, Balanced, Powerful}

NoModel == [id |-> 0, tier |-> Fast, cost |-> 0, provider |-> "none"]

(* The registry is a map from ids to models. *)
IsRegistry(R) ==
  /\ R # {} /\ NoModel \notin R
  /\ \A m \in R : m.id \in Nat /\ m.tier \in Tier /\ m.cost \in Nat
  /\ \A m, n \in R : m.id = n.id => m = n

TaskType == {"chat", "explain", "edit", "generate", "engulf",
             "refactor", "investigate", "review", "security-audit"}

TierForTask(t) ==
  CASE t \in {"chat", "explain"} -> Fast
    [] t \in {"edit", "generate", "engulf"} -> Balanced
    [] OTHER -> Powerful

(* score_difficulty and Difficulty::tier: a long prompt and a large        *)
(* repository each raise the task's floor by one, up to Powerful.          *)
DifficultyTier(t, long, large) ==
  LET score == TierForTask(t) + (IF long THEN 1 ELSE 0) + (IF large THEN 1 ELSE 0)
  IN IF score > Powerful THEN Powerful ELSE score

InTier(R, t) == {m \in R : m.tier = t}

(* min_by over list_tier, which is sorted by id: least cost, least id. *)
Before(m, n) == m.cost < n.cost \/ (m.cost = n.cost /\ m.id <= n.id)

CheapestOf(S) == IF S = {} THEN NoModel ELSE CHOOSE m \in S : \A n \in S : Before(m, n)
CheapestInTier(R, t) == CheapestOf(InTier(R, t))

OrElse(m, n) == IF m # NoModel THEN m ELSE n

(* Mutant: an unstocked tier falls back to the weakest model first. *)
FirstStocked_weakest(R, t) ==
  OrElse(CheapestInTier(R, t), OrElse(CheapestInTier(R, Fast),
    OrElse(CheapestInTier(R, Balanced), CheapestInTier(R, Powerful))))

FirstStocked(R, t) ==
  OrElse(CheapestInTier(R, t), OrElse(CheapestInTier(R, Balanced),
    OrElse(CheapestInTier(R, Powerful), CheapestInTier(R, Fast))))

(* choose_model: a registered default serves the everyday tier. *)
ChooseModel(R, t, default) ==
  IF t = Balanced /\ default \in R THEN default ELSE FirstStocked(R, t)

(* next_stronger *)
NextStronger(R, m) == IF m.tier = Powerful THEN NoModel ELSE CheapestInTier(R, m.tier + 1)

-----------------------------------------------------------------------------
(* ModelSelector::select reads the registry's hash map unsorted, so among  *)
(* models of equal cost any may come first: a set of answers.              *)
Cheapest(S) == {m \in S : \A n \in S : m.cost <= n.cost}
Of(R, p) == {m \in R : m.provider = p}
SelectorAnswers(R, p, task) ==
  LET tiers == <<TierForTask(task), Balanced, Powerful, Fast>>
      stocked == {i \in 1..4 : InTier(Of(R, p), tiers[i]) # {}}
  IN UNION {Cheapest(InTier(Of(R, p), tiers[i])) : i \in {k \in stocked : \A l \in stocked : k <= l}}

(* list_tier(..).find(..) and list_all().next(): the first by id. *)
FirstById(S) == {m \in S : \A n \in S : m.id <= n.id}

(* NativeLlm::pick, the tier being the forced one or the task's. *)
PickAnswers(R, task, tier, p) ==
  IF InTier(Of(R, p), tier) # {} THEN FirstById(InTier(Of(R, p), tier))
  ELSE IF SelectorAnswers(R, p, task) # {} THEN SelectorAnswers(R, p, task)
  ELSE FirstById(R)

-----------------------------------------------------------------------------
(* orchestrator.rs 66-69: routing is monotone.  A harder task never gets a *)
(* model of a lower tier, nor does a long prompt or a large repository get *)
(* a task one below its type's, whatever is registered and whatever the    *)
(* configured default is; and a task of the top tier only drops to a Fast  *)
(* model when nothing stronger is registered.                              *)
Monotone(R, default) ==
  LET routed == [t \in Tier |-> ChooseModel(R, t, default).tier] IN
  /\ \A s, t \in Tier : s <= t => routed[s] <= routed[t]
  /\ \A task \in TaskType, long, large \in BOOLEAN :
       routed[TierForTask(task)] <= routed[DifficultyTier(task, long, large)]
  /\ routed[Powerful] = Fast => \A m \in R : m.tier = Fast

(* llm.rs 134-145: a provider with any model at all is never passed over   *)
(* for another one, and some model always answers.                         *)
ProviderHonoured(R, p) ==
  \A task \in TaskType, tier \in Tier :
    /\ PickAnswers(R, task, tier, p) # {}
    /\ Of(R, p) # {} => PickAnswers(R, task, tier, p) \subseteq Of(R, p)
=============================================================================
