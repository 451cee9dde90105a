---------------------------- MODULE MCAdminTools ----------------------------
(***************************************************************************)
(* Small instances of AdminTools, of the automatic loop over it and of the *)
(* Scheduler, for TLC.  What shares no state takes no part in the same     *)
(* behaviour: a behaviour is of people who use the model tools and the     *)
(* kill switch, of the jobs, of the loop beside a few calls, or of the     *)
(* scheduler (`focus`).                                                    *)
(***************************************************************************)
EXTENDS Automation, Scheduler, TLC

CONSTANT MaxCallsBeside   \* bound: tool calls beside the loop

VARIABLE focus

Symmetry == Permutations(Actors) \cup Permutations(Models) \cup Permutations(Versions)
              \cup Permutations(Requests) \cup Permutations(JobIds)

Limits == {[psi |-> psi, ks |-> 4, ood |-> 1, ics |-> <<3, 2>>] : psi \in {24, 25}}
            \cup {[psi |-> 0, ks |-> 4, ood |-> ood, ics |-> ics] :
                    ood \in {1, 5}, ics \in {<<-4>>, <<-3, -2>>}}

Weeks == {<<9, 4, 4>>, <<4, 4, 5>>, <<4, 4, -1>>}

\* Only the scheduler's behaviours choose among its firing times.
MCInit ==
  /\ AutoInit /\ SchedulerInit
  /\ focus \in {"people", "jobs", "loop", "scheduler"}
  /\ focus = "scheduler" \/ fires = [j \in Jobs |-> {}]

MCNext ==
  /\ UNCHANGED focus
  /\ \/ focus = "people" /\ Next /\ UNCHANGED <<queue, autoVars, schedulerVars>>
     \/ focus = "jobs" /\ Next /\ UNCHANGED <<models, killSwitch, autoVars, schedulerVars>>
     \/ focus = "loop" /\ AutoNext /\ calls' <= MaxCallsBeside /\ UNCHANGED schedulerVars
     \/ focus = "scheduler" /\ SchedulerNext /\ UNCHANGED allVars

MCSpec == MCInit /\ [][MCNext]_<<allVars, schedulerVars, focus>>
=============================================================================
