----------------------------- MODULE AdaraRtos ------------------------------
(***************************************************************************)
(* The RTOS facade on FreeRTOS: TaskStart and TaskStop, the list of task   *)
(* nodes they share, and the binary semaphore that TaskStart takes around  *)
(* its work and TaskStop does not take.                                    *)
(*                                                                         *)
(* A task is an object with a method Task(), as osutils::ASyncTask makes   *)
(* them: its constructor starts it, its destructor and EndTask stop it,    *)
(* and FreeRTOS_TaskEntry stops it when Task() returns. FreeRTOS knows it  *)
(* by a handle, the address of its control block, which is used again once *)
(* the block is freed. Any task may call, and be preempted or deleted, at  *)
(* any point; the kernel's own services are single steps. The list is      *)
(* std::list, whose push_back and erase run in the calling task: each of   *)
(* their accesses to the links of another node is a step, in the order of  *)
(* the library's _M_hook and _M_unhook. Its count of nodes is never read   *)
(* and left out.                                                           *)
(***************************************************************************)
EXTENDS Integers

CONSTANTS
  Tasks,      \* objects that implement TaskInterface
  Handles,    \* addresses of control blocks
  Clients,    \* those of tasks that were not started through the facade
  MaxStarts   \* bound: nodes made by TaskStart

Null == "null"        \* a thandle that xTaskCreate has not written
Foreign == "foreign"  \* what a client runs: no object of the facade
End == 0              \* end() of the list, and the address of no node

ASSUME RtosAssumption ==
  /\ Clients \subseteq Handles /\ MaxStarts \in Nat
  /\ Null \notin Handles /\ Foreign \notin Tasks

VARIABLES
  running,    \* the scheduler has been started
  made,       \* nodes made so far; a node's address is its number
  nodes,      \* tasklist_: what is in the nodes,
  next, prev, \* their links, the end's included,
  freed,      \* and those that were given back to the heap
  mut,        \* mut_ is available
  tcb,        \* the control blocks: state, and the node the task was given
  call,       \* per task: the call it is in and its local variables
  alive,      \* objects that have been constructed and not destroyed
  fault,      \* a freed node or control block was used, or a task returned
  upset,      \* history: objects for which the facade's book-keeping broke
  met,        \* history: two stops, or a push and an erase, met in the list
  cut,        \* history: a task was deleted inside TaskStart
  mistaken    \* history: objects whose stop ended another task than theirs

list == <<made, nodes, next, prev, freed>>
history == <<upset, met, cut, mistaken>>
vars == <<running, list, mut, tcb, call, alive, fault, history>>

Nodes == 1..MaxStarts
NoNode == [task |-> Foreign, handle |-> Null]
NoCall == [pc |-> "none", task |-> Foreign, node |-> End, before |-> End, after |-> End,
           ends |-> FALSE]
Free == [state |-> "free", arg |-> End]

Hooking == {"link", "last"}         \* push_back has read the links it changes
Unhooking == {"unlink", "relink"}   \* and so has erase
Starting == {"pend", "push", "create", "post"} \cup Hooking
Stopping == {"find", "delete", "erase", "free"} \cup Unhooking
Holding == Starting \ {"pend"}      \* between PendFromTask and PostFromTask

\* main runs alone until it starts the scheduler; FreeRTOS's constructor has
\* made mut_ available.
Init ==
  /\ running = FALSE /\ mut = TRUE
  /\ made = 0 /\ nodes = [n \in Nodes |-> NoNode] /\ freed = {}
  /\ next = [n \in Nodes \cup {End} |-> End] /\ prev = [n \in Nodes \cup {End} |-> End]
  /\ tcb = [h \in Handles |->
              IF h \in Clients THEN [state |-> "live", arg |-> End] ELSE Free]
  /\ call = [h \in Handles |-> NoCall]
  /\ alive = {} /\ fault = FALSE
  /\ upset = {} /\ met = FALSE /\ cut = FALSE /\ mistaken = {}

-----------------------------------------------------------------------------
(* State formulae *)

Live(c) == tcb[c].state = "live"

\* The object whose Task() runs under handle h.
Runs(h) == IF tcb[h].arg = End THEN Foreign ELSE nodes[tcb[h].arg].task

\* Caller c of a call that stands at pc.
At(c, pc) == running /\ ~fault /\ Live(c) /\ call[c].pc = pc

\* c goes on to pc, at node n.
GoesTo(c, pc, n) == call' = [call EXCEPT ![c].pc = pc, ![c].node = n]

\* c returns from its call.
Returns(c) == call' = [call EXCEPT ![c] = NoCall]

Overlaps(c, t) ==
  \E d \in Handles \ {c} : Live(d) /\ call[d].pc # "none" /\ call[d].task = t

\* Another call than c's is at one of pcs.
Meets(c, pcs) == \E d \in Handles \ {c} : Live(d) /\ call[d].pc \in pcs

-----------------------------------------------------------------------------
(* Before the scheduler runs, TaskStart takes no semaphore. *)

BootStart(t) ==
  /\ ~running /\ made < MaxStarts /\ t \notin alive
  /\ made' = made + 1 /\ alive' = alive \cup {t}
  /\ next' = [next EXCEPT ![prev[End]] = made + 1, ![made + 1] = End]
  /\ prev' = [prev EXCEPT ![made + 1] = prev[End], ![End] = made + 1]
  /\ \/ \E h \in Handles :
          /\ tcb[h].state = "free"
          /\ tcb' = [tcb EXCEPT ![h] = [state |-> "live", arg |-> made + 1]]
          /\ nodes' = [nodes EXCEPT ![made + 1] = [task |-> t, handle |-> h]]
          /\ UNCHANGED upset
     \/ /\ nodes' = [nodes EXCEPT ![made + 1] = [task |-> t, handle |-> Null]]
        /\ upset' = upset \cup {t}
        /\ UNCHANGED tcb
  /\ UNCHANGED <<running, freed, mut, call, fault, met, cut, mistaken>>

vTaskStartScheduler ==
  /\ ~running /\ running' = TRUE
  /\ UNCHANGED <<list, mut, tcb, call, alive, fault, history>>

-----------------------------------------------------------------------------
(* TaskStart *)

\* A constructor calls TaskStart.
TaskStart(c, t) ==
  /\ At(c, "none") /\ made < MaxStarts /\ t \notin alive
  /\ alive' = alive \cup {t}
  /\ call' = [call EXCEPT ![c] = [NoCall EXCEPT !.pc = "pend", !.task = t]]
  /\ upset' = upset \cup (IF Overlaps(c, t) THEN {t} ELSE {})
  /\ UNCHANGED <<running, list, mut, tcb, fault, met, cut, mistaken>>

\* ~0 ticks is portMAX_DELAY: PendFromTask waits for ever.
Pend(c) ==
  /\ At(c, "pend") /\ mut /\ made < MaxStarts
  /\ mut' = FALSE
  /\ GoesTo(c, "push", End)
  /\ UNCHANGED <<running, list, tcb, alive, fault, history>>

\* push_back makes the node. Its links say that it follows the last one.
Push(c) ==
  /\ At(c, "push")
  /\ made' = made + 1
  /\ nodes' = [nodes EXCEPT ![made + 1] = [task |-> call[c].task, handle |-> Null]]
  /\ next' = [next EXCEPT ![made + 1] = End]
  /\ prev' = [prev EXCEPT ![made + 1] = prev[End]]
  /\ met' = (met \/ Meets(c, Unhooking))
  /\ GoesTo(c, "link", made + 1)
  /\ UNCHANGED <<running, freed, mut, tcb, alive, fault, upset, cut, mistaken>>

\* The last node is told. The compiler may keep its address or read it again.
LinkLast(c) ==
  /\ At(c, "link")
  /\ \E last \in {prev[call[c].node], prev[End]} \ freed :
       next' = [next EXCEPT ![last] = call[c].node]
  /\ GoesTo(c, "last", call[c].node)
  /\ UNCHANGED <<running, made, nodes, prev, freed, mut, tcb, alive, fault, history>>

\* The end is told.
BecomesLast(c) ==
  /\ At(c, "last")
  /\ prev' = [prev EXCEPT ![End] = call[c].node]
  /\ GoesTo(c, "create", call[c].node)
  /\ UNCHANGED <<running, made, nodes, next, freed, mut, tcb, alive, fault, history>>

\* back() is the node the new task is given and its handle is written to. If
\* that is not the node just pushed, because others changed the links, neither
\* object is kept as it should be.
Create(c) ==
  /\ At(c, "create") /\ prev[End] \notin freed \cup {End}
  /\ LET back == prev[End]
     IN  /\ \E h \in Handles :
              /\ tcb[h].state = "free"
              /\ tcb' = [tcb EXCEPT ![h] = [state |-> "live", arg |-> back]]
              /\ nodes' = [nodes EXCEPT ![back].handle = h]
         /\ upset' = upset \cup (IF back = call[c].node THEN {}
                                 ELSE {call[c].task, nodes[back].task})
  /\ GoesTo(c, "post", call[c].node)
  /\ UNCHANGED <<running, made, next, prev, freed, mut, alive, fault, met, cut, mistaken>>

\* Variant: TaskStart returns at once when there is no memory.
CreateFailsAndReturns(c) ==
  /\ At(c, "create")
  /\ upset' = upset \cup {call[c].task}
  /\ Returns(c)
  /\ UNCHANGED <<running, list, mut, tcb, alive, fault, met, cut, mistaken>>

\* There is no memory for a task: the result is not looked at, and the node
\* stays without a handle.
CreateFails(c) ==
  /\ At(c, "create")
  /\ upset' = upset \cup {call[c].task}
  /\ GoesTo(c, "post", call[c].node)
  /\ UNCHANGED <<running, list, mut, tcb, alive, fault, met, cut, mistaken>>

Post(c) ==
  /\ At(c, "post") /\ mut' = TRUE
  /\ Returns(c)
  /\ UNCHANGED <<running, list, tcb, alive, fault, history>>

-----------------------------------------------------------------------------
(* TaskStop *)

\* c begins to look for t in the list.
Looks(c, t, ends) ==
  /\ call' = [call EXCEPT ![c] = [NoCall EXCEPT !.pc = "find", !.task = t,
                                                !.node = next[End], !.ends = ends]]
  /\ met' = (met \/ Meets(c, Stopping))
  /\ upset' = upset \cup (IF Overlaps(c, t) THEN {t} ELSE {})
  /\ UNCHANGED <<running, list, mut, tcb, alive, fault, cut, mistaken>>

\* The destructor or EndTask, called by any task.
TaskStop(c, t) == At(c, "none") /\ t \in alive /\ Looks(c, t, FALSE)

\* Task() has returned to FreeRTOS_TaskEntry, which looks into its node again.
TaskReturns(c) ==
  At(c, "none") /\ tcb[c].arg \notin freed \cup {End} /\ Looks(c, Runs(c), TRUE)

\* When TaskStop has returned, its caller may have been the destructor.
MayDie(t) == alive' \in {alive, alive \ {t}}

\* Variant: the end of the list is not noticed.
FindPastEnd(c) ==
  /\ At(c, "find") /\ call[c].node \notin freed \cup {End}
  /\ IF nodes[call[c].node].task = call[c].task
       THEN GoesTo(c, "delete", call[c].node)
       ELSE GoesTo(c, "find", call[c].node + 1)
  /\ UNCHANGED <<running, list, mut, tcb, alive, fault, history>>

\* One turn of find_if.
Find(c) ==
  /\ At(c, "find") /\ call[c].node \notin freed \cup {End}
  /\ IF nodes[call[c].node].task = call[c].task
       THEN GoesTo(c, "delete", call[c].node)
       ELSE GoesTo(c, "find", next[call[c].node])
  /\ UNCHANGED <<running, list, mut, tcb, alive, fault, history>>

\* The object has no node: kRunTimeError.
FindsNothing(c) ==
  /\ At(c, "find") /\ call[c].node = End /\ ~call[c].ends
  /\ MayDie(call[c].task) /\ Returns(c)
  /\ UNCHANGED <<running, list, mut, tcb, fault, history>>

\* When v is deleted as the task of object t, its own call stays half done; if
\* it is not t's task, its object keeps a node of a task that is gone.
Loses(v, t) ==
  LET wrong == Runs(v) # t
  IN  /\ upset' = upset \cup (({call[v].task} \cup (IF wrong THEN {Runs(v)} ELSE {}))
                              \cap Tasks)
      /\ mistaken' = mistaken \cup (IF wrong THEN {t} ELSE {})
      /\ cut' = (cut \/ call[v].pc \in Holding)

\* vTaskDelete ends the caller, when the node has its handle or none. Its
\* control block waits for the idle task, and the node is not erased.
DeletesItself(c) ==
  /\ At(c, "delete") /\ call[c].node \notin freed
  /\ nodes[call[c].node].handle \in {c, Null}
  /\ tcb' = [tcb EXCEPT ![c].state = "ended"]
  /\ Loses(c, call[c].task) /\ Returns(c)
  /\ UNCHANGED <<running, list, mut, alive, fault, met>>

\* vTaskDelete ends another task and frees its control block.
Deletes(c) ==
  /\ At(c, "delete") /\ call[c].node \notin freed
  /\ LET v == nodes[call[c].node].handle
     IN  /\ v \in Handles \ {c} /\ Live(v)
         /\ tcb' = [tcb EXCEPT ![v] = Free]
         /\ Loses(v, call[c].task)
         /\ call' = [call EXCEPT ![c].pc = "erase", ![v] = NoCall]
  /\ UNCHANGED <<running, list, mut, alive, fault, met>>

\* vTaskDelete is given a control block that is no task's any more.
DeletesNobody(c) ==
  /\ At(c, "delete") /\ call[c].node \notin freed
  /\ LET v == nodes[call[c].node].handle
     IN  v \in Handles \ {c} /\ ~Live(v)
  /\ fault' = TRUE
  /\ UNCHANGED <<running, list, mut, tcb, call, alive, history>>

\* Variant: the node is not erased.
EraseNothing(c) ==
  /\ At(c, "erase") /\ call[c].node \notin freed
  /\ MayDie(call[c].task) /\ Returns(c)
  /\ UNCHANGED <<running, list, mut, tcb, fault, history>>

\* erase reads the links of its node.
Erase(c) ==
  /\ At(c, "erase") /\ call[c].node \notin freed
  /\ call' = [call EXCEPT ![c].pc = "unlink", ![c].before = prev[call[c].node],
                                              ![c].after = next[call[c].node]]
  /\ met' = (met \/ Meets(c, Hooking))
  /\ UNCHANGED <<running, list, mut, tcb, alive, fault, upset, cut, mistaken>>

\* The node before is told,
LinkOver(c) ==
  /\ At(c, "unlink") /\ call[c].before \notin freed
  /\ next' = [next EXCEPT ![call[c].before] = call[c].after]
  /\ GoesTo(c, "relink", call[c].node)
  /\ UNCHANGED <<running, made, nodes, prev, freed, mut, tcb, alive, fault, history>>

\* and the one after.
LinkBack(c) ==
  /\ At(c, "relink") /\ call[c].after \notin freed
  /\ prev' = [prev EXCEPT ![call[c].after] = call[c].before]
  /\ GoesTo(c, "free", call[c].node)
  /\ UNCHANGED <<running, made, nodes, next, freed, mut, tcb, alive, fault, history>>

\* The node goes back to the heap, and TaskStop returns. FreeRTOS_TaskEntry
\* then returns too, which no task may.
FreeNode(c) ==
  /\ At(c, "free") /\ call[c].node \notin freed
  /\ freed' = freed \cup {call[c].node}
  /\ fault' = call[c].ends
  /\ MayDie(call[c].task) /\ Returns(c)
  /\ UNCHANGED <<running, made, nodes, next, prev, mut, tcb, history>>

\* A node that was given back is read, written, or freed again; there is none
\* at back(); or FreeRTOS_TaskEntry returns because the task has no node.
UsesFreedNode(c) ==
  /\ \/ At(c, "none") /\ tcb[c].arg \in freed
     \/ At(c, "link") /\ {prev[call[c].node], prev[End]} \cap freed # {}
     \/ At(c, "create") /\ prev[End] \in freed \cup {End}
     \/ \E pc \in {"find", "delete", "erase", "free"} : At(c, pc) /\ call[c].node \in freed
     \/ At(c, "unlink") /\ call[c].before \in freed
     \/ At(c, "relink") /\ call[c].after \in freed
     \/ At(c, "find") /\ call[c].node = End /\ call[c].ends
  /\ fault' = TRUE
  /\ UNCHANGED <<running, list, mut, tcb, call, alive, history>>

-----------------------------------------------------------------------------
\* The idle task frees the control block of a task that deleted itself.
IdleFrees(h) ==
  /\ running /\ ~fault /\ tcb[h].state = "ended"
  /\ tcb' = [tcb EXCEPT ![h] = Free]
  /\ UNCHANGED <<running, list, mut, call, alive, fault, history>>

Continues(c) ==
  \/ Push(c) \/ LinkLast(c) \/ BecomesLast(c) \/ Create(c) \/ CreateFails(c) \/ Post(c)
  \/ Find(c) \/ FindsNothing(c) \/ DeletesItself(c) \/ Deletes(c) \/ DeletesNobody(c)
  \/ Erase(c) \/ LinkOver(c) \/ LinkBack(c) \/ FreeNode(c)
  \/ call[c].pc # "none" /\ UsesFreedNode(c)

Next ==
  \/ vTaskStartScheduler
  \/ \E t \in Tasks : BootStart(t)
  \/ \E c \in Handles :
       \/ \E t \in Tasks : TaskStart(c, t) \/ TaskStop(c, t)
       \/ TaskReturns(c) \/ Pend(c) \/ Continues(c) \/ UsesFreedNode(c) \/ IdleFrees(c)

Spec == Init /\ [][Next]_vars

\* A task inside a call runs on: those above it wait most of the time.
FairSpec == Spec /\ \A c \in Handles : WF_vars(Continues(c))

-----------------------------------------------------------------------------
(* Properties *)

\* Types.
TypeOK ==
  /\ {running, mut, fault, met, cut} \subseteq BOOLEAN
  /\ made \in 0..MaxStarts /\ freed \subseteq 1..made
  /\ nodes \in [Nodes -> [task : Tasks \cup {Foreign}, handle : Handles \cup {Null}]]
  /\ {next, prev} \subseteq [Nodes \cup {End} -> 0..made]
  /\ tcb \in [Handles -> [state : {"free", "live", "ended"}, arg : 0..made]]
  /\ call \in [Handles -> [pc : {"none"} \cup Starting \cup Stopping,
                           task : Tasks \cup {Foreign}, node : 0..made,
                           before : 0..made, after : 0..made, ends : BOOLEAN]]
  /\ {alive, upset, mistaken} \subseteq SUBSET Tasks

\* TaskStop ends the task of the object it is given and no other, and uses no
\* node or control block that was freed, except for an object whose task ended
\* itself (its node stays, and its handle may come to mean another task), or
\* could not be created (its node has no handle, which means the caller), or
\* was ended by the stop of another such object, or one that two calls were
\* about at once or whose call was cut short, or whose task was given another
\* node. What was freed is used only after one of these, or when two calls of
\* TaskStop met in the list, or one erased a node while a start pushed one.
StopsOnlyItsOwn == mistaken \subseteq upset /\ (fault => met \/ upset # {})

\* TaskStart gives mut_ back, whoever runs in between and whether or not the
\* task could be created, so that no call waits for ever in PendFromTask; unless
\* a task was deleted inside TaskStart, which nothing makes up for.
MutComesBack == []<>(mut \/ cut \/ fault)
=============================================================================
