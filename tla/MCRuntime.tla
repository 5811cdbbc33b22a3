------------------------------ MODULE MCRuntime -----------------------------
(***************************************************************************)
(* What the runtime keeps an agent within, for model checking: an agent    *)
(* run on its own, a task with its escalations, the limiter its calls go   *)
(* through, one streamed answer to such a call, the watchdog that admits   *)
(* it, and the choice of its model.  They share no state, so each          *)
(* behaviour has one of them move and leaves the others where they start.  *)
(***************************************************************************)
EXTENDS Escalation, Limiter, Hysteresis, Routing, Stream

VARIABLE which  \* the component that moves

Line(k, i, w) == [kind |-> k, index |-> i, wide |-> w]
(* Text alone, two calls whose fragments alternate, the second one first,  *)
(* an answer that cannot be decoded half-way, and one that never says it   *)
(* is done.                                                                *)
MCScripts ==
  {<<Line("content", 0, TRUE), Line("usage", 0, FALSE), Line("content", 0, FALSE),
     Line("done", 0, FALSE), Line("content", 0, FALSE)>>,
   <<Line("content", 0, FALSE), Line("call", 2, FALSE), Line("call", 1, TRUE),
     Line("call", 2, FALSE), Line("done", 0, FALSE)>>,
   <<Line("content", 0, FALSE), Line("bad", 0, FALSE), Line("done", 0, FALSE)>>,
   <<Line("content", 0, TRUE), Line("content", 0, TRUE)>>}

(* The limiter's retries and the answer's are one bound.                   *)
ASSUME LimiterAssumption /\ MaxAttempts = MaxRetries + 1 /\ MaxResends = MaxRetries

ModelOf(i, t, c, p) == [id |-> i, tier |-> t, cost |-> c, provider |-> p]

(* For the task: every tier stocked, two models in the middle one and one  *)
(* of them the configured default; or nothing in the middle.               *)
MCFull == {ModelOf(1, Fast, 0, "any"), ModelOf(2, Balanced, 1, "any"),
           ModelOf(3, Balanced, 1, "any"), ModelOf(4, Powerful, 2, "any")}
MCGap == {ModelOf(1, Fast, 0, "any"), ModelOf(4, Powerful, 2, "any")}
MCRegistries == {MCFull, MCGap}
MCDefault == ModelOf(3, Balanced, 1, "any")
MCEscalateOn == {"failed", "limit"}
MCReadings == 0..4

(* For the choice: two models of equal cost in a tier, a free local one    *)
(* and two providers; every subset, and every default, registered or not.  *)
MCCatalogue == {ModelOf(1, Fast, 0, "local"), ModelOf(2, Fast, 1, "hosted"),
                ModelOf(3, Balanced, 1, "hosted"), ModelOf(4, Balanced, 1, "local"),
                ModelOf(5, Powerful, 0, "local"), ModelOf(6, Powerful, 2, "hosted")}

allVars == <<which, taskVars, limiterVars, watchedVars, choiceVars, streamVars>>

MCInit ==
  /\ which \in {"run", "task", "limiter", "watchdog", "choice", "stream"}
  /\ EInit /\ (which # "task" => stock = MCFull /\ model = MCDefault)
  /\ LInit
  /\ HInit /\ (which # "watchdog" => freeMb = FloorMb)
  /\ RoutingInit /\ (which # "choice" => registry = Catalogue /\ default = NoModel)
  /\ Start /\ (which # "stream" => Len(script) = 2)

MCNext ==
  /\ UNCHANGED which
  /\ \/ /\ which = "run" /\ Next
        /\ UNCHANGED <<driverVars, limiterVars, watchedVars, choiceVars, streamVars>>
     \/ /\ which = "task" /\ ENext
        /\ UNCHANGED <<limiterVars, watchedVars, choiceVars, streamVars>>
     \/ /\ which = "limiter" /\ LNext
        /\ UNCHANGED <<taskVars, watchedVars, choiceVars, streamVars>>
     \/ /\ which = "watchdog" /\ HNext
        /\ UNCHANGED <<taskVars, limiterVars, choiceVars, streamVars>>
     \/ /\ which = "choice"
        /\ UNCHANGED <<taskVars, limiterVars, watchedVars, choiceVars, streamVars>>
     \/ /\ which = "stream" /\ Flow
        /\ UNCHANGED <<taskVars, limiterVars, watchedVars, choiceVars>>

(* The runtime polls driver, attempt, receiver and callers; chats and      *)
(* tools come back, having time limits of their own; the clock runs.       *)
MCFairness ==
  /\ WF_taskVars(which = "task" /\ DriverStep)
  /\ WF_taskVars(which = "task" /\ Attempt /\ LoopStep)
  /\ WF_taskVars(which = "task" /\ Attempt /\ ChatEnds)
  /\ WF_taskVars(which = "task" /\ Attempt /\ ToolEnds)
  /\ WF_taskVars(which = "task" /\ TakeEvent)
  /\ WF_limiterVars(which = "limiter" /\ Tick)
  /\ \A a \in Callers : WF_limiterVars(which = "limiter" /\ CallerStep(a))

MCSpec == MCInit /\ [][MCNext]_allVars /\ MCFairness

-----------------------------------------------------------------------------
(* Nothing waits for ever: every call comes back to its agent, whatever    *)
(* slots, pauses and pacing it has to wait for (limiter.rs 133-207; their  *)
(* number is bounded, so all do in the end), and a task's driver and its   *)
(* attempt never wait for each other: the task ends, whatever fails,       *)
(* panics or is cancelled, and says so (orchestrator.rs 137-211).          *)
EverythingReturns ==
  <>[](IF which = "task" THEN TaskReported ELSE AllReturned)
=============================================================================
