----------------------------- MODULE PushInputs -----------------------------
(***************************************************************************)
(* How the inputs of one leaf of a workflow become tasks:                  *)
(* Run.push_all_inputs (models/runs.py), the InputCalculator               *)
(* (models/input_calculator.py), the trees of data                         *)
(* (models/data_nodes.py), Task.bulk_create_tasks and Task.finish          *)
(* (models/tasks.py).                                                      *)
(*                                                                         *)
(* Each input has a tree of data, which fills as the tasks upstream        *)
(* finish.  Whoever adds data pushes the inputs of the leaf afterwards: it *)
(* works out for which data paths all inputs are there, leaves out those   *)
(* that have a task, and makes tasks for the others, with a node for each  *)
(* in the tree of the leaf's output.  Pushes run side by side without      *)
(* locks or transactions, and die with their process.                      *)
(*                                                                         *)
(* A data path is a sequence of pairs <<index, degree>>, as in the code.   *)
(***************************************************************************)
EXTENDS Naturals, FiniteSets, SequencesExt

CONSTANTS
  Pusher,      \* the handlers that push inputs into the leaf, once each
  Start,       \* the one of them that is postprocess_run
  Shapes,      \* the workflows to be looked at, by name
  MaxPushing,  \* bound: pushes that have looked and not yet made their tasks
  MaxCrashes   \* bound: processes that die

ASSUME BoundsAssumption ==
  /\ MaxPushing \in Nat
  /\ MaxCrashes \in Nat

ASSUME PusherAssumption ==
  /\ IsFiniteSet(Pusher)
  /\ Start \in Pusher

\* A shape has
\*   groups: the inputs by group, in the order of the groups; an input has a name,
\*           the depth it gathers, and its tree when all data is there, as the paths
\*           of its leaves and of the branches that are empty arrays;
\*   brings: the ends of trees that each handler there is adds before it pushes;
\*   feeds:  whether the output of the leaf is an input of another one.
InputRecord ==
  [name : STRING, gather : Nat, leaves : SUBSET Seq(Nat \X Nat), empties : SUBSET Seq(Nat \X Nat)]

\* _get_all_paths for one leaf: the last gather_depth elements are cut off, or all.
Truncated(path, depth) == SubSeq(path, 1, Len(path) - (IF depth > Len(path) THEN Len(path) ELSE depth))

\* Paths to the ends of a tree: two of them that agree so far end here or go on together,
\* and a node has one degree, which is above the indexes of its children.
IsTree(paths) ==
  \A p, q \in paths : \A k \in 0..Len(p) :
    k <= Len(q) /\ (\A i \in 1..k : p[i] = q[i]) =>
      /\ k = Len(p) <=> k = Len(q)
      /\ k < Len(p) => p[k + 1][2] = q[k + 1][2] /\ p[k + 1][1] < p[k + 1][2]

\* Data of a channel is refused unless all its leaves are at one depth
\* (DataNodeSerializer._validate_uniform_height), so that what is gathered of a tree is
\* in arrays none of which is inside another, and they are the leaves of a tree again.
ASSUME ShapesAssumption ==
  \A s \in DOMAIN Shapes :
    /\ Shapes[s].groups \in Seq(Seq(InputRecord) \ {<<>>})
    /\ \A g \in DOMAIN Shapes[s].groups : \A i \in DOMAIN Shapes[s].groups[g] :
         LET input == Shapes[s].groups[g][i]
         IN  IsTree({Truncated(leaf, input.gather) : leaf \in input.leaves})

VARIABLES
  shape,   \* the name of the workflow, which does not change
  pc,      \* where each handler is
  plan,    \* what it is about to make: a data path and an output node per task
  tree,    \* the nodes of the output's tree, the root is <<>>
  tasks,   \* the tasks of the leaf
  run,     \* the status columns of the leaf that are TRUE
  crashes  \* how many processes have died

vars == <<shape, pc, plan, tree, tasks, run, crashes>>

-----------------------------------------------------------------------------
(* Input sets.  A generator is the set of the data paths of its input sets. *)

Arrived == {h \in Pusher : pc[h] # "upstream"}

Data(s, handlers) == UNION {Shapes[s].brings[h] : h \in handlers \cap DOMAIN Shapes[s].brings}

\* DataNode.is_ready at a path: everything at and below it is there.
IsReady(input, path, data) ==
  \A end \in input.leaves \cup input.empties :
    IsPrefix(path, end) => <<input.name, end>> \in data

\* create_from_data_channel: get_ready_data_nodes from the root.
Generator(input, data) ==
  {path \in {Truncated(leaf, input.gather) : leaf \in {l \in input.leaves : <<input.name, l>> \in data}} :
     IsReady(input, path, data)}

\* (Mutant of the next definition: get_node does not stop at a leaf.)
DotProductDownwards(A, B) == UNION {{b \in B : IsPrefix(a, b)} : a \in A}

\* B.get_node goes down with the path of A until it is used up, or stops at a leaf
\* of B; the input sets there are those of B that extend the path, or the leaf.
DotProduct(A, B) ==
  UNION {{b \in B : IsPrefix(a, b)} \cup {c \in {a} : \E b \in B : IsPrefix(b, a)} : a \in A}

CrossProduct(A, B) == {a \o b : a \in A, b \in B}

Group(inputs, data) ==
  FoldLeft(DotProduct, {<<>>}, [i \in DOMAIN inputs |-> Generator(inputs[i], data)])

InputSets(groups, data) ==
  FoldLeft(CrossProduct, {<<>>}, [g \in DOMAIN groups |-> Group(groups[g], data)])

\* The assertion 'degree mismatch in get_node': two inputs of a group that are both
\* there part in the degree of a node and not in a branch taken before.
PathsClash(a, b) ==
  \E k \in 1..Len(a) : /\ k <= Len(b)
                       /\ SubSeq(a, 1, k - 1) = SubSeq(b, 1, k - 1)
                       /\ a[k][2] # b[k][2]

DegreeMismatch(groups, data) ==
  \E g \in DOMAIN groups : \E i, j \in DOMAIN groups[g] :
    \E a \in Generator(groups[g][i], data), b \in Generator(groups[g][j], data) :
      PathsClash(a, b)

\* What the documentation of InputCalculator says of groups, whatever their order of
\* evaluation: in a group, the longest of the paths of inputs that agree as far as
\* they go; between groups, every combination.
ReadyPaths(input, data) ==
  {path \in {Truncated(leaf, input.gather) : leaf \in input.leaves} : IsReady(input, path, data)}

Agreeing(inputs, data) ==
  {path \in UNION {ReadyPaths(inputs[i], data) : i \in DOMAIN inputs} :
     \A i \in DOMAIN inputs : \E q \in ReadyPaths(inputs[i], data) : IsPrefix(q, path)}

Ready(groups, data) ==
  {FlattenSeq(c) : c \in {d \in [DOMAIN groups -> UNION {Agreeing(groups[g], data) : g \in DOMAIN groups}] :
                            \A g \in DOMAIN groups : d[g] \in Agreeing(groups[g], data)}}

\* All this depends on nothing but the workflow and whose data is there.
Views ==
  {[shape    |-> s,
    arrived  |-> handlers,
    sets     |-> InputSets(Shapes[s].groups, Data(s, handlers)),
    mismatch |-> DegreeMismatch(Shapes[s].groups, Data(s, handlers)),
    ready    |-> Ready(Shapes[s].groups, Data(s, handlers))] :
     s \in DOMAIN Shapes, handlers \in SUBSET Pusher}

View(handlers) == CHOOSE v \in Views : v.shape = shape /\ v.arrived = handlers

Now      == View(Arrived)
Mismatch == Now.mismatch
Expected == View(Pusher).ready

-----------------------------------------------------------------------------
(* The tree of the output.  A node is named by the way to it: at each level *)
(* the index, and the handler that made the node, since nothing but         *)
(* get_or_create_node keeps two children of a node from having one index.   *)

ChildrenWithIndex(node, index) ==
  {child \in tree : /\ Len(child) = Len(node) + 1
                    /\ SubSeq(child, 1, Len(node)) = node
                    /\ child[Len(child)][1] = index}

\* get_children looks at _cached_children only, once there is one, and
\* _add_unsaved_child starts it with the new child alone.  The root is one object
\* for all paths of a push, so that after the first child it gets, the children in
\* the database are out of sight.  Input sets come in ascending order.
OutOfSight(path, new) ==
  \E q \in new : /\ q # <<>>
                 /\ ChildrenWithIndex(<<>>, q[1][1]) = {}
                 /\ q[1][1] < path[1][1]

Found(node, path, k, new) ==
  IF k = 1 /\ OutOfSight(path, new) THEN {} ELSE ChildrenWithIndex(node, path[k][1])

\* get_or_create_node: the nodes on the way to a data path, those found and new ones.
WayTo(path, new, h) ==
  LET node[k \in 0..Len(path)] ==
        IF k = 0 THEN <<>>
        ELSE LET found == Found(node[k - 1], path, k, new)
             IN  IF found # {} THEN CHOOSE n \in found : TRUE
                 ELSE Append(node[k - 1], <<path[k][1], h>>)
  IN  node

\* The assertion "Duplicate children with the same index" in _get_child_by_index.
AssertionFails(path, new, h) ==
  \E k \in 1..Len(path) :
    Cardinality(Found(WayTo(path, new, h)[k - 1], path, k, new)) > 1

-----------------------------------------------------------------------------
(* Status of the leaf, and of its tasks taken together.                     *)

Terminal == run \cap {"finished", "failed"} # {}

Ended(outcome) == IF Terminal THEN run ELSE {outcome}

SetRunning == IF "running" \in run /\ "waiting" \notin run THEN run
              ELSE (run \ {"waiting"}) \cup {"running"}

\* TaskNode.create_from_task_list keeps the last task at a data path.
TasksAt(path) == {t \in tasks : t.path = path}
Latest(some) == CHOOSE t \in some : \A u \in some : u.nth <= t.nth

\* (Mutant of the next definition: the degrees are not looked at.)
AreThoseThereFinished(all) ==
  \A t \in all : Latest({u \in all : u.path = t.path}).finished

\* TaskNode.is_complete: each node on the way to a task has as many children as its
\* degree says, and the last task of each leaf is finished.
AreTasksFinished(all) ==
  /\ all # {}
  /\ \A t \in all :
       /\ Latest({u \in all : u.path = t.path}).finished
       /\ \A k \in 1..Len(t.path) : \A i \in 0..(t.path[k][2] - 1) :
            \E u \in all :
              IsPrefix(Append(SubSeq(t.path, 1, k - 1), <<i, t.path[k][2]>>), u.path)

-----------------------------------------------------------------------------
(* The handlers.                                                            *)

\* What the rows of tasks and the plans for them are made of.
PlanRecord == [path : Seq(Nat \X Nat), node : Seq(Nat \X Pusher)]
TaskRecord == [path : Seq(Nat \X Nat), node : Seq(Nat \X Pusher), nth : Nat, by : Pusher, finished : BOOLEAN]

TypeOK ==
  /\ shape \in DOMAIN Shapes
  /\ pc \in [Pusher -> {"upstream", "arrived", "looked", "noded", "tasked", "done", "raised", "dead"}]
  /\ plan \in [Pusher -> SUBSET PlanRecord]
  /\ tree \subseteq Seq(Nat \X Pusher)
  /\ \A n \in tree : n # <<>> => Front(n) \in tree
  /\ tasks \subseteq TaskRecord
  /\ \A t \in tasks : t.node \in tree
  /\ run \subseteq {"waiting", "running", "finished", "failed"}
  /\ crashes \in 0..MaxCrashes

Init ==
  /\ shape \in DOMAIN Shapes
  /\ pc = [h \in Pusher |-> CASE h = Start -> "arrived"
                           [] h # Start /\ h \in DOMAIN Shapes[shape].brings -> "upstream"
                           [] OTHER -> "done"]
  /\ plan = [h \in Pusher |-> {}]
  /\ tree = {<<>>}
  /\ tasks = {}
  /\ run = {"waiting"}
  /\ crashes = 0

\* Task.finish of a task upstream saves its outputs; its push is still to come.
FinishUpstream(h) ==
  /\ pc[h] = "upstream"
  /\ pc' = [pc EXCEPT ![h] = "arrived"]
  /\ UNCHANGED <<shape, plan, tree, tasks, run, crashes>>

\* postprocess_run returns if the run has ended; other pushes do not test that.
SkipPush(h) ==
  /\ h = Start /\ pc[h] = "arrived" /\ Terminal
  /\ pc' = [pc EXCEPT ![h] = "done"]
  /\ UNCHANGED <<shape, plan, tree, tasks, run, crashes>>

Pushing == {h \in Pusher : pc[h] \in {"looked", "noded"}}

MayPush(h) ==
  /\ pc[h] = "arrived"
  /\ h = Start => ~Terminal
  /\ Cardinality(Pushing) < MaxPushing

\* (Mutants of the next definition: tasks there are made again; a data path whose
\* node is there is left out.)
AllPaths == Now.sets
PathsWithoutNode ==
  {path \in Now.sets :
     ~\E n \in tree : Len(n) = Len(path) /\ \A k \in DOMAIN n : n[k][1] = path[k][1]}

\* create_unsaved_task_from_input_set: a data path that has a task is left out.
NewPaths == {path \in Now.sets : TasksAt(path) = {}}

NoInputs == Shapes[shape].groups = <<>>

\* Everything push_all_inputs reads.
Look(h) ==
  /\ MayPush(h)
  /\ ~(Mismatch \/ NoInputs)
  /\ LET new == NewPaths
     IN  /\ \A path \in new : ~AssertionFails(path, new, h)
         /\ plan' = [plan EXCEPT ![h] =
              {[path |-> path, node |-> WayTo(path, new, h)[Len(path)]] : path \in new}]
         /\ pc' = [pc EXCEPT ![h] = IF new = {} THEN "done" ELSE "looked"]
  /\ UNCHANGED <<shape, tree, tasks, run, crashes>>

\* The InputCalculator raises outside the try of create_unsaved_task_from_input_set,
\* and so does the call for a leaf without inputs, which lacks the outputs.
LookRaises(h) ==
  /\ MayPush(h)
  /\ Mismatch \/ NoInputs
  /\ pc' = [pc EXCEPT ![h] = "raised"]
  /\ UNCHANGED <<shape, plan, tree, tasks, run, crashes>>

\* get_or_create_node raises inside it: the run fails, and none of the tasks is made.
LookAsserts(h) ==
  /\ MayPush(h)
  /\ ~(Mismatch \/ NoInputs)
  /\ LET new == NewPaths IN \E path \in new : AssertionFails(path, new, h)
  /\ run' = Ended("failed")
  /\ pc' = [pc EXCEPT ![h] = "raised"]
  /\ UNCHANGED <<shape, plan, tree, tasks, crashes>>

\* (Mutant of the next definition: branches on the way are not saved.)
SaveLeafNodes(h) ==
  /\ pc[h] = "looked"
  /\ tree' = tree \cup {p.node : p \in plan[h]}
  /\ pc' = [pc EXCEPT ![h] = "noded"]
  /\ UNCHANGED <<shape, plan, tasks, run, crashes>>

\* bulk_create_tasks, first the nodes ...
SaveNodes(h) ==
  /\ pc[h] = "looked"
  /\ tree' = tree \cup UNION {{SubSeq(p.node, 1, k) : k \in 0..Len(p.node)} : p \in plan[h]}
  /\ pc' = [pc EXCEPT ![h] = "noded"]
  /\ UNCHANGED <<shape, plan, tasks, run, crashes>>

\* ... then the tasks ...
CreateTasks(h) ==
  /\ pc[h] = "noded"
  /\ tasks' = tasks \cup
       {[path |-> p.path, node |-> p.node, nth |-> Cardinality(TasksAt(p.path)),
         by |-> h, finished |-> FALSE] : p \in plan[h]}
  /\ plan' = [plan EXCEPT ![h] = {}]
  /\ pc' = [pc EXCEPT ![h] = "tasked"]
  /\ UNCHANGED <<shape, tree, run, crashes>>

\* ... then their inputs and outputs, the status of the run, and the executions.
ExecuteTasks(h) ==
  /\ pc[h] = "tasked"
  /\ run' = SetRunning
  /\ pc' = [pc EXCEPT ![h] = "done"]
  /\ UNCHANGED <<shape, plan, tree, tasks, crashes>>

DuplicateChildren ==
  \E m, n \in tree : /\ m # n /\ Len(m) = Len(n)
                     /\ SubSeq(m, 1, Len(m) - 1) = SubSeq(n, 1, Len(n) - 1)
                     /\ m[Len(m)][1] = n[Len(n)][1]

\* get_ready_data_nodes of a leaf downstream meets the assertion outside any try.
PushRaises == Shapes[shape].feeds /\ DuplicateChildren

Save(t) == tasks' = (tasks \ {t}) \cup {[t EXCEPT !.finished = TRUE]}

MayFinish(t) ==
  /\ t \in tasks
  /\ ~t.finished
  /\ pc[t.by] # "tasked"

\* (Mutant of the next definition: the run is tested before the task is saved.)
FinishTaskUntested(t) ==
  /\ MayFinish(t)
  /\ ~PushRaises
  /\ Save(t)
  /\ run' = IF AreTasksFinished(tasks) THEN Ended("finished") ELSE run
  /\ UNCHANGED <<shape, pc, plan, tree, crashes>>

\* Task.finish: the task and its outputs are saved and pushed on, and the run ends
\* with its last task.
FinishTask(t) ==
  /\ MayFinish(t)
  /\ ~PushRaises
  /\ Save(t)
  /\ run' = IF AreTasksFinished(tasks') THEN Ended("finished") ELSE run
  /\ UNCHANGED <<shape, pc, plan, tree, crashes>>

\* The push raises, and the rest of Task.finish is left undone.
FinishTaskRaises(t) ==
  /\ MayFinish(t)
  /\ PushRaises
  /\ Save(t)
  /\ UNCHANGED <<shape, pc, plan, tree, run, crashes>>

\* A process dies with a handler it runs: a push ...
PusherDies(h) ==
  /\ crashes < MaxCrashes
  /\ pc[h] \in {"arrived", "looked", "noded", "tasked"}
  /\ pc' = [pc EXCEPT ![h] = "dead"]
  /\ plan' = [plan EXCEPT ![h] = {}]
  /\ crashes' = crashes + 1
  /\ UNCHANGED <<shape, tree, tasks, run>>

\* ... or Task.finish after its save.
FinisherDies(t) ==
  /\ crashes < MaxCrashes
  /\ MayFinish(t)
  /\ Save(t)
  /\ crashes' = crashes + 1
  /\ UNCHANGED <<shape, pc, plan, tree, run>>

\* All data is there, every push and every task is at an end.
Over ==
  /\ \A h \in Pusher : pc[h] \in {"done", "raised", "dead"}
  /\ \A t \in tasks : t.finished

Push(h) == \/ SkipPush(h) \/ Look(h) \/ LookRaises(h) \/ LookAsserts(h)
           \/ SaveNodes(h) \/ CreateTasks(h) \/ ExecuteTasks(h)

Work ==
  \/ \E h \in Pusher : FinishUpstream(h) \/ Push(h)
  \/ \E t \in tasks : FinishTask(t) \/ FinishTaskRaises(t)

Next ==
  \/ Work
  \/ \E h \in Pusher : PusherDies(h)
  \/ \E t \in tasks : FinisherDies(t)
  \/ Over /\ UNCHANGED vars

\* Tasks are finished in the end, and handlers go on unless they die.  Each step of
\* Work is taken once for a handler or a task, so fairness of all is that of each.
Spec == Init /\ [][Next]_vars /\ WF_vars(Work)

-----------------------------------------------------------------------------
(* Properties.                                                              *)

\* The input sets that are calculated from partial data are those whose inputs are
\* all there and ready; dot_product, which walks one tree with the paths of another,
\* does not depend on the order of the inputs in a group.
InputSetsMatch == Mismatch \/ Now.sets = Now.ready

\* Pushes that overlap, die or come too late make tasks for ready data paths only,
\* never take one back, and make no more than one for each push that can be under
\* way at once: the tasks of the leaf behave as TaskFlow says.
Flow == INSTANCE TaskFlow WITH
  Concurrency <- MaxPushing,
  ready       <- Now.ready,
  created     <- [path \in Expected |-> Cardinality(TasksAt(path))]

TasksFlow == Flow!Spec

\* A run that finishes has a finished task for every combination of its inputs, also
\* of those that had not arrived when tasks began to finish.
FinishedRunIsComplete ==
  "finished" \in run =>
    \A path \in Expected : \E t \in TasksAt(path) : t.finished

\* What handlers are about to make is ready, once for each data path, and its nodes are
\* saved before its tasks.
PlansAreReady ==
  \A h \in Pusher :
    /\ plan[h] # {} => pc[h] \in {"looked", "noded"}
    /\ \A p \in plan[h] : /\ p.path \in Now.ready
                          /\ pc[h] = "noded" => p.node \in tree
    /\ \A p, q \in plan[h] : p.path = q.path => p = q

\* The tasks of a data path, which is ready, are numbered in the order they are made.
TasksAreNumbered ==
  /\ \A t \in tasks : t.path \in Now.ready /\ t.nth < Cardinality(TasksAt(t.path))
  /\ \A t, u \in tasks : t.path = u.path /\ t.nth = u.nth => t = u

\* Pushes that are about to make a task for a data path count as if they had made it.
Planners(path) == {h \in Pusher : \E p \in plan[h] : p.path = path}

PushesAreCounted ==
  \A path \in Expected :
    /\ IsFiniteSet(TasksAt(path))
    /\ Cardinality(TasksAt(path)) + Cardinality(Planners(path)) <= MaxPushing

\* What TypeOK, FinishedRunIsComplete and TasksFlow need to be inductive.
IInv ==
  /\ TypeOK
  /\ PlansAreReady
  /\ TasksAreNumbered
  /\ PushesAreCounted
  /\ FinishedRunIsComplete

\* Two children of a node never have the same index ("Duplicate children with the
\* same index", data_nodes.py:281).
NoDuplicateChildren == ~DuplicateChildren

\* Unless another process dies, a push that is still to come makes good those that
\* were lost: every data path that is ready gets its task, or the run has failed.
LostPushesAreMadeGood ==
  (crashes = MaxCrashes /\ \E h \in Pusher : pc[h] = "upstream")
  ~> \/ \A path \in Expected : TasksAt(path) # {}
     \/ "failed" \in run
     \/ Mismatch

\* What can keep a run from ever ending: a death, inputs of one group that do not
\* fit or no inputs at all, an empty array, whose tasks TaskNode waits for, or a
\* failed push downstream.
Hangs ==
  \/ crashes > 0
  \/ Mismatch
  \/ NoInputs
  \/ \E g \in DOMAIN Shapes[shape].groups : \E i \in DOMAIN Shapes[shape].groups[g] :
       Shapes[shape].groups[g][i].empties # {}
  \/ PushRaises

\* In all other cases the last task to finish finds the run complete, or some push
\* has failed the run.
RunEnds == <>(Terminal \/ Hangs)
=============================================================================
