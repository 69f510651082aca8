-------------------------- MODULE AdaraRtosProofs ---------------------------
(***************************************************************************)
(* Proofs about AdaraRtos for any objects, any control blocks and any      *)
(* number of starts: what TaskStop ends, and when the facade may touch     *)
(* what was freed.                                                         *)
(***************************************************************************)
EXTENDS AdaraRtos, TLAPS

Kept == (1..made) \ freed                 \* the nodes there are
Making == {"link", "last", "create"}      \* the call's node has no handle yet
Ending == {"erase", "free"} \cup Unhooking   \* the call's node has no task any more

\* A call is at one of pcs with node n.
Being(n, pcs) == \E c \in Handles : call[c].pc \in pcs /\ call[c].node = n

\* The nodes that the links lead to, forwards and backwards.
Ahead == {n \in Kept : ~Being(n, {"link", "relink", "free"})}
Back == {n \in Kept : ~Being(n, {"link", "last", "free"})}

\* Among the nodes of S, m comes next after n; m is the one before n; m is the
\* last. The end stands for no node.
Follows(m, n, S) ==
  /\ m \in S \cup {End} /\ (m # End => n < m)
  /\ \A k \in S : n < k => m # End /\ m <= k
Precedes(m, n, S) == m \in S \cup {End} /\ m < n /\ \A k \in S : k < n => k <= m
IsLast(m, S) == m \in S \cup {End} /\ \A k \in S : k <= m

\* Nothing was upset, and neither two stops nor a push and an erase met.
Calm == upset = {} /\ ~met

\* Nodes are made for objects of the facade.
MadeInv == \A n \in 1..made : nodes[n].task \in Tasks

\* Calls are made by tasks that live, about objects of the facade.
CallInv ==
  \A c \in Handles :
    /\ call[c].pc # "none" => running /\ Live(c) /\ call[c].task \in Tasks
    /\ call[c].pc \in Making \cup Ending \cup {"delete"} => call[c].node # End
    /\ call[c].pc \in Stopping /\ call[c].ends =>
         tcb[c].arg # End /\ call[c].task = nodes[tcb[c].arg].task

\* mut_ lets one call in, and the node it makes is the newest.
MutInv ==
  /\ \A c \in Handles : call[c].pc \in Holding => ~mut
  /\ \A c, d \in Handles : call[c].pc \in Holding /\ call[d].pc \in Holding => c = d
  /\ \A c \in Handles : call[c].pc = "push" => made < MaxStarts
  /\ \A c \in Handles : call[c].pc \in Making =>
       /\ call[c].node = made
       /\ nodes[made].task = call[c].task /\ nodes[made].handle = Null
       /\ made \notin freed

\* A call that has found a node has found one of its object, and has deleted
\* the task of one that has a handle.
FoundInv ==
  \A c \in Handles :
    /\ call[c].pc \in Ending \cup {"delete"} => nodes[call[c].node].task = call[c].task
    /\ call[c].pc \in Ending => nodes[call[c].node].handle # Null

\* An object is the business of one call at a time, or is given up.
OneCallInv ==
  \A c, d \in Handles :
    call[c].pc # "none" /\ call[d].pc # "none" /\ call[c].task = call[d].task =>
      c = d \/ call[c].task \in upset

\* Node n is a task's that runs.
Settled(n) == nodes[n].task \notin upset /\ nodes[n].handle # Null /\ ~Being(n, Ending)

\* The handle of a settled node is that of a task of its object, and no other
\* node has it; a node without a handle is about to get one.
BookInv ==
  /\ \A n \in Kept : Settled(n) =>
       LET block == tcb[nodes[n].handle]
       IN  block.state = "live" /\ block.arg # End /\ nodes[block.arg].task = nodes[n].task
  /\ \A m, n \in Kept :
       Settled(m) /\ Settled(n) /\ nodes[m].handle = nodes[n].handle => m = n
  /\ \A n \in Kept : nodes[n].handle = Null => nodes[n].task \in upset \/ Being(n, Making)

\* The node a task was given is its own as long as it lives.
NodeInv ==
  \A h \in Handles : tcb[h].state = "live" /\ tcb[h].arg # End =>
    /\ tcb[h].arg \in Kept /\ nodes[tcb[h].arg].handle = h
    /\ ~Being(tcb[h].arg, Ending)

\* An object has one node, from its start to the end of its stop.
ObjectInv ==
  /\ \A n \in Kept : nodes[n].task \in alive
  /\ \A m, n \in Kept : nodes[m].task = nodes[n].task => m = n
  /\ \A c \in Handles : call[c].pc \in {"pend", "push"} =>
       call[c].task \in alive /\ \A n \in Kept : nodes[n].task # call[c].task

\* The links go through the nodes in the order in which they were made, but for
\* the one that push_back or erase has still to write.
LinksInv ==
  /\ \A n \in Ahead \cup {End} : Follows(next[n], n, Ahead)
  /\ \A n \in Back : Precedes(prev[n], n, Back)
  /\ IsLast(prev[End], Back)
  /\ \A c \in Handles : call[c].pc \in Hooking => prev[call[c].node] = prev[End]
  /\ \A c \in Handles : call[c].pc = "link" => next[call[c].node] = End
  /\ \A c \in Handles : call[c].pc \in Unhooking =>
       /\ call[c].before = prev[call[c].node]
       /\ Follows(call[c].after, call[c].node, Ahead)
       /\ \A d \in Handles : call[d].pc \notin Hooking

\* There is one stop, it goes through nodes that exist, and the one it looks for
\* is still ahead of it.
WalkInv ==
  /\ \A c, d \in Handles : call[c].pc \in Stopping /\ call[d].pc \in Stopping => c = d
  /\ \A c \in Handles :
       /\ call[c].pc = "find" =>
            /\ call[c].node \in Ahead \cup {End}
            /\ \A n \in Ahead : nodes[n].task = call[c].task =>
                 call[c].node # End /\ call[c].node <= n
       /\ call[c].pc \in {"delete", "erase", "unlink"} => call[c].node \in Ahead
       /\ call[c].pc \in Ending => call[c].node \in Kept /\ ~call[c].ends

RInv ==
  /\ TypeOK /\ MadeInv /\ CallInv /\ MutInv /\ FoundInv /\ OneCallInv /\ BookInv
  /\ Calm => NodeInv /\ ObjectInv /\ LinksInv /\ WalkInv
  /\ StopsOnlyItsOwn

-----------------------------------------------------------------------------
\* Only the call of c changes.
Others(c) == \A d \in Handles \ {c} : call'[d] = call[d]

\* Types, part by part.
CallType(m) == [pc : {"none"} \cup Starting \cup Stopping, task : Tasks \cup {Foreign},
                node : 0..m, before : 0..m, after : 0..m, ends : BOOLEAN]
BlockType(m) == [state : {"free", "live", "ended"}, arg : 0..m]
NodeType == [task : Tasks \cup {Foreign}, handle : Handles \cup {Null}]

FlagsOK ==
  /\ {running, mut, fault, met, cut} \subseteq BOOLEAN
  /\ {alive, upset, mistaken} \subseteq SUBSET Tasks
ListOK ==
  /\ made \in 0..MaxStarts /\ freed \subseteq 1..made
  /\ nodes \in [Nodes -> NodeType]
  /\ next \in [Nodes \cup {End} -> 0..made] /\ prev \in [Nodes \cup {End} -> 0..made]
BlocksOK == tcb \in [Handles -> BlockType(made)] /\ call \in [Handles -> CallType(made)]

LEMMA TypesAre == TypeOK <=> FlagsOK /\ ListOK /\ BlocksOK
  BY DEF TypeOK, FlagsOK, ListOK, BlocksOK, NodeType, BlockType, CallType

\* What the state is made of, as far as the provers need to see it.
LEMMA Functions ==
  ASSUME TypeOK
  PROVE  /\ made \in Nat /\ MaxStarts \in Nat /\ made <= MaxStarts
         /\ freed \subseteq 1..made /\ 1..made \subseteq Nodes /\ End \notin Nodes
         /\ DOMAIN nodes = Nodes /\ nodes = [n \in Nodes |-> nodes[n]]
         /\ \A n \in Nodes : /\ nodes[n].task \in Tasks \cup {Foreign}
                             /\ nodes[n].handle \in Handles \cup {Null}
                             /\ nodes[n] = [task |-> nodes[n].task, handle |-> nodes[n].handle]
         /\ next = [n \in Nodes \cup {End} |-> next[n]]
         /\ prev = [n \in Nodes \cup {End} |-> prev[n]]
         /\ \A n \in Nodes \cup {End} : next[n] \in 0..made /\ prev[n] \in 0..made
         /\ tcb = [h \in Handles |-> tcb[h]] /\ call = [c \in Handles |-> call[c]]
         /\ \A h \in Handles :
              tcb[h] = [state |-> tcb[h].state, arg |-> tcb[h].arg] /\ tcb[h].arg \in 0..made
         /\ \A c \in Handles :
              /\ call[c] = [pc |-> call[c].pc, task |-> call[c].task, node |-> call[c].node,
                            before |-> call[c].before, after |-> call[c].after,
                            ends |-> call[c].ends]
              /\ call[c].pc \in {"none"} \cup Starting \cup Stopping
              /\ call[c].task \in Tasks \cup {Foreign} /\ call[c].ends \in BOOLEAN
              /\ call[c].node \in 0..made /\ call[c].before \in 0..made
              /\ call[c].after \in 0..made
  <1>1. made \in Nat /\ MaxStarts \in Nat /\ made <= MaxStarts
    BY TypesAre, RtosAssumption DEF ListOK
  <1>2. freed \subseteq 1..made /\ 1..made \subseteq Nodes /\ End \notin Nodes
    BY <1>1, TypesAre DEF ListOK, Nodes, End
  <1>3. /\ DOMAIN nodes = Nodes /\ nodes = [n \in Nodes |-> nodes[n]]
        /\ \A n \in Nodes : /\ nodes[n].task \in Tasks \cup {Foreign}
                            /\ nodes[n].handle \in Handles \cup {Null}
                            /\ nodes[n] = [task |-> nodes[n].task, handle |-> nodes[n].handle]
    BY TypesAre DEF ListOK, NodeType
  <1>4. /\ next = [n \in Nodes \cup {End} |-> next[n]]
        /\ prev = [n \in Nodes \cup {End} |-> prev[n]]
        /\ \A n \in Nodes \cup {End} : next[n] \in 0..made /\ prev[n] \in 0..made
    BY TypesAre DEF ListOK
  <1>5. /\ tcb = [h \in Handles |-> tcb[h]]
        /\ \A h \in Handles :
             tcb[h] = [state |-> tcb[h].state, arg |-> tcb[h].arg] /\ tcb[h].arg \in 0..made
    BY TypesAre DEF BlocksOK, BlockType
  <1>6. /\ call = [c \in Handles |-> call[c]]
        /\ \A c \in Handles : call[c] \in CallType(made)
    BY TypesAre DEF BlocksOK
  <1>7. \A c \in Handles :
          /\ call[c] = [pc |-> call[c].pc, task |-> call[c].task, node |-> call[c].node,
                        before |-> call[c].before, after |-> call[c].after,
                        ends |-> call[c].ends]
          /\ call[c].pc \in {"none"} \cup Starting \cup Stopping
          /\ call[c].task \in Tasks \cup {Foreign} /\ call[c].ends \in BOOLEAN
          /\ call[c].node \in 0..made /\ call[c].before \in 0..made
          /\ call[c].after \in 0..made
    BY <1>6 DEF CallType
  <1> QED BY <1>1, <1>2, <1>3, <1>4, <1>5, <1>6, <1>7

\* The part of it that is about addresses of nodes.
LEMMA Ranges ==
  ASSUME TypeOK
  PROVE  /\ made \in Nat /\ freed \subseteq 1..made
         /\ \A n \in 0..made : next[n] \in 0..made /\ prev[n] \in 0..made
         /\ \A h \in Handles : tcb[h].arg \in 0..made
         /\ \A c \in Handles :
              /\ call[c].node \in 0..made /\ call[c].before \in 0..made
              /\ call[c].after \in 0..made
  <1>1. 0..made \subseteq Nodes \cup {End}
    BY Functions DEF Nodes, End
  <1> QED BY <1>1, Functions

\* And of the nodes there are.
LEMMA KeptFacts ==
  ASSUME TypeOK
  PROVE  /\ Kept \subseteq 1..made /\ 1..made \subseteq Nodes /\ made \in Nat
         /\ \A n \in 1..made : nodes[n].handle \in Handles \cup {Null}
         /\ \A n \in Kept : nodes[n].handle \in Handles \cup {Null}
  BY Functions DEF Kept

-----------------------------------------------------------------------------
\* What a call becomes when its caller goes on, or returns.
LEMMA CallDoes ==
  ASSUME TypeOK, NEW c \in Handles
  PROVE  /\ \A pc, n : GoesTo(c, pc, n) =>
              /\ Others(c) /\ call'[c].pc = pc /\ call'[c].node = n
              /\ call'[c].task = call[c].task /\ call'[c].ends = call[c].ends
              /\ call'[c].before = call[c].before /\ call'[c].after = call[c].after
         /\ Returns(c) => Others(c) /\ call'[c] = NoCall
  <1>1. ASSUME NEW pc, NEW n, GoesTo(c, pc, n)
        PROVE  /\ Others(c) /\ call'[c].pc = pc /\ call'[c].node = n
               /\ call'[c].task = call[c].task /\ call'[c].ends = call[c].ends
               /\ call'[c].before = call[c].before /\ call'[c].after = call[c].after
    <2>1. call' = [call EXCEPT ![c] = [[call[c] EXCEPT !.pc = pc] EXCEPT !.node = n]]
      BY <1>1, Functions DEF GoesTo
    <2>2. Others(c) /\ call'[c] = [[call[c] EXCEPT !.pc = pc] EXCEPT !.node = n]
      BY <2>1, Functions DEF Others
    <2>3. call[c] = [pc |-> call[c].pc, task |-> call[c].task, node |-> call[c].node,
                     before |-> call[c].before, after |-> call[c].after,
                     ends |-> call[c].ends]
      BY Functions
    <2> QED BY <2>2, <2>3
  <1>2. Returns(c) => Others(c) /\ call'[c] = NoCall
    BY Functions DEF Returns, Others
  <1> QED BY <1>1, <1>2

\* main starts a task, or finds no memory for it.
LEMMA BootDoes ==
  ASSUME TypeOK, NEW t \in Tasks, BootStart(t)
  PROVE  \E h \in Handles \cup {Null} :
           /\ ~running /\ made' = made + 1 /\ made + 1 \in Nodes
           /\ nodes'[made + 1].task = t /\ nodes'[made + 1].handle = h
           /\ \A n \in 1..made : nodes'[n] = nodes[n]
           /\ next'[prev[End]] = made + 1 /\ next'[made + 1] = End
           /\ \A n \in 0..made : n # prev[End] => next'[n] = next[n]
           /\ prev'[made + 1] = prev[End] /\ prev'[End] = made + 1
           /\ \A n \in 1..made : prev'[n] = prev[n]
           /\ h = Null => upset' = upset \cup {t} /\ tcb' = tcb
           /\ h # Null => /\ upset' = upset /\ tcb[h].state = "free"
                          /\ tcb'[h].state = "live" /\ tcb'[h].arg = made + 1
                          /\ \A g \in Handles \ {h} : tcb'[g] = tcb[g]
           /\ t \notin alive /\ alive' = alive \cup {t}
           /\ UNCHANGED <<running, freed, mut, call, fault, met, cut, mistaken>>
  <1>1. /\ ~running /\ made' = made + 1 /\ made + 1 \in Nodes /\ made + 1 # End
        /\ made + 1 \notin 0..made /\ prev[End] \in 0..made /\ 0..made \subseteq Nodes \cup {End}
    BY Functions DEF BootStart, Nodes, End
  <1>2. /\ next' = [next EXCEPT ![prev[End]] = made + 1, ![made + 1] = End]
        /\ prev' = [prev EXCEPT ![made + 1] = prev[End], ![End] = made + 1]
        /\ t \notin alive /\ alive' = alive \cup {t}
        /\ UNCHANGED <<running, freed, mut, call, fault, met, cut, mistaken>>
    BY DEF BootStart
  <1>3. /\ next'[prev[End]] = made + 1 /\ next'[made + 1] = End
        /\ \A n \in 0..made : n # prev[End] => next'[n] = next[n]
    BY <1>1, <1>2, Functions
  <1>4. /\ prev'[made + 1] = prev[End] /\ prev'[End] = made + 1
        /\ \A n \in 1..made : prev'[n] = prev[n]
    BY <1>1, <1>2, Functions DEF End
  <1>5. PICK h \in Handles \cup {Null} :
          /\ nodes' = [nodes EXCEPT ![made + 1] = [task |-> t, handle |-> h]]
          /\ \/ h = Null /\ upset' = upset \cup {t} /\ tcb' = tcb
             \/ /\ h \in Handles /\ tcb[h].state = "free" /\ upset' = upset
                /\ tcb' = [tcb EXCEPT ![h] = [state |-> "live", arg |-> made + 1]]
    BY DEF BootStart
  <1>6. /\ nodes'[made + 1].task = t /\ nodes'[made + 1].handle = h
        /\ \A n \in 1..made : nodes'[n] = nodes[n]
    BY <1>1, <1>5, Functions
  <1>7. h = Null => upset' = upset \cup {t} /\ tcb' = tcb
    BY <1>5, RtosAssumption
  <1>8. h # Null => /\ upset' = upset /\ tcb[h].state = "free"
                    /\ tcb'[h].state = "live" /\ tcb'[h].arg = made + 1
                    /\ \A g \in Handles \ {h} : tcb'[g] = tcb[g]
    BY <1>5, Functions
  <1> QED BY <1>1, <1>2, <1>3, <1>4, <1>6, <1>7, <1>8

\* A start begins.
LEMMA StartDoes ==
  ASSUME TypeOK, NEW c \in Handles, NEW t \in Tasks, TaskStart(c, t)
  PROVE  /\ running /\ Live(c) /\ call[c].pc = "none" /\ Others(c)
         /\ call'[c].pc = "pend" /\ call'[c].task = t /\ call'[c].node = End
         /\ t \notin alive /\ alive' = alive \cup {t}
         /\ upset \subseteq upset' /\ (Overlaps(c, t) => t \in upset')
         /\ UNCHANGED <<running, made, nodes, next, prev, freed, mut, tcb, fault, met,
                        cut, mistaken>>
  BY Functions DEF TaskStart, At, Others, NoCall, list

\* A stop begins, at the first node.
LEMMA LooksDoes ==
  ASSUME TypeOK, NEW c \in Handles,
         TaskReturns(c) \/ \E t \in Tasks : TaskStop(c, t)
  PROVE  /\ running /\ Live(c) /\ call[c].pc = "none" /\ Others(c)
         /\ call'[c].pc = "find" /\ call'[c].task \in Tasks \cup {Foreign}
         /\ call'[c].node = next[End]
         /\ call'[c].ends => /\ tcb[c].arg \notin freed \cup {End}
                             /\ call'[c].task = nodes[tcb[c].arg].task
         /\ ~call'[c].ends => call'[c].task \in alive \cap Tasks
         /\ upset \subseteq upset'
         /\ Overlaps(c, call'[c].task) => call'[c].task \in upset'
         /\ (met => met') /\ (Meets(c, Stopping) => met')
         /\ UNCHANGED <<running, made, nodes, next, prev, freed, mut, tcb, alive, fault,
                        cut, mistaken>>
  <1>1. \E t \in Tasks \cup {Foreign}, ends \in BOOLEAN :
          /\ Looks(c, t, ends) /\ At(c, "none")
          /\ ends => tcb[c].arg \notin freed \cup {End} /\ t = nodes[tcb[c].arg].task
          /\ ~ends => t \in alive \cap Tasks
    <2>1. CASE TaskReturns(c)
      <3>1. tcb[c].arg \in Nodes /\ Runs(c) = nodes[tcb[c].arg].task
        BY <2>1, Functions DEF TaskReturns, Runs, End
      <3> QED BY <2>1, <3>1, Functions DEF TaskReturns
    <2>2. CASE \E t \in Tasks : TaskStop(c, t)
      BY <2>2 DEF TaskStop
    <2> QED BY <2>1, <2>2
  <1>2. PICK t \in Tasks \cup {Foreign}, ends \in BOOLEAN :
          /\ Looks(c, t, ends) /\ At(c, "none")
          /\ ends => tcb[c].arg \notin freed \cup {End} /\ t = nodes[tcb[c].arg].task
          /\ ~ends => t \in alive \cap Tasks
    BY <1>1
  <1>3. /\ Others(c) /\ call'[c].pc = "find" /\ call'[c].task = t
        /\ call'[c].node = next[End] /\ call'[c].ends = ends
    BY <1>2, Functions DEF Looks, Others, NoCall
  <1>4. (met => met') /\ (Meets(c, Stopping) => met')
    BY <1>2 DEF Looks
  <1>5. /\ running /\ Live(c) /\ call[c].pc = "none"
        /\ upset \subseteq upset' /\ (Overlaps(c, t) => t \in upset')
        /\ UNCHANGED <<running, made, nodes, next, prev, freed, mut, tcb, alive, fault,
                       cut, mistaken>>
    BY <1>2 DEF Looks, At, list
  <1> QED BY <1>2, <1>3, <1>4, <1>5

\* PendFromTask lets a start in.
LEMMA PendDoes ==
  ASSUME TypeOK, NEW c \in Handles, Pend(c)
  PROVE  /\ running /\ Live(c) /\ call[c].pc = "pend" /\ Others(c)
         /\ call'[c].pc = "push" /\ call'[c].task = call[c].task /\ call'[c].node = End
         /\ mut /\ ~mut' /\ made < MaxStarts
         /\ UNCHANGED <<running, made, nodes, next, prev, freed, tcb, alive, fault, upset,
                        met, cut, mistaken>>
  BY CallDoes DEF Pend, At, list, history

\* push_back makes a node,
LEMMA PushDoes ==
  ASSUME TypeOK, MutInv, NEW c \in Handles, Push(c)
  PROVE  /\ running /\ Live(c) /\ call[c].pc = "push" /\ Others(c)
         /\ call'[c].pc = "link" /\ call'[c].task = call[c].task
         /\ call'[c].node = made + 1
         /\ made' = made + 1 /\ made + 1 \in Nodes
         /\ nodes'[made + 1].task = call[c].task /\ nodes'[made + 1].handle = Null
         /\ \A n \in 1..made : nodes'[n] = nodes[n]
         /\ next'[made + 1] = End /\ prev'[made + 1] = prev[End]
         /\ \A n \in 0..made : next'[n] = next[n] /\ prev'[n] = prev[n]
         /\ (met => met') /\ (Meets(c, Unhooking) => met')
         /\ UNCHANGED <<running, freed, mut, tcb, alive, fault, upset, cut, mistaken>>
  <1>1. /\ running /\ Live(c) /\ call[c].pc = "push" /\ Others(c)
        /\ call'[c].pc = "link" /\ call'[c].task = call[c].task
        /\ call'[c].node = made + 1 /\ made' = made + 1
        /\ UNCHANGED <<running, freed, mut, tcb, alive, fault, upset, cut, mistaken>>
    BY CallDoes DEF Push, At
  <1>5. (met => met') /\ (Meets(c, Unhooking) => met')
    BY DEF Push
  <1>2. /\ made + 1 \in Nodes /\ made + 1 \notin 0..made
        /\ 0..made \subseteq Nodes \cup {End} /\ 1..made \subseteq Nodes
    BY <1>1, Functions DEF MutInv, Nodes, End
  <1>3. /\ nodes'[made + 1].task = call[c].task /\ nodes'[made + 1].handle = Null
        /\ \A n \in 1..made : nodes'[n] = nodes[n]
    BY <1>2, Functions DEF Push
  <1>4. /\ next'[made + 1] = End /\ prev'[made + 1] = prev[End]
        /\ \A n \in 0..made : next'[n] = next[n] /\ prev'[n] = prev[n]
    BY <1>2, Functions DEF Push
  <1> QED BY <1>1, <1>2, <1>3, <1>4, <1>5

\* and tells the last one
LEMMA LinkLastDoes ==
  ASSUME TypeOK, NEW c \in Handles, LinkLast(c)
  PROVE  /\ running /\ Live(c) /\ call[c].pc = "link" /\ Others(c)
         /\ call'[c].pc = "last" /\ call'[c].task = call[c].task
         /\ call'[c].node = call[c].node
         /\ \E last \in {prev[call[c].node], prev[End]} :
              /\ last \in 0..made /\ next'[last] = call[c].node
              /\ \A n \in 0..made : n # last => next'[n] = next[n]
         /\ UNCHANGED <<running, made, nodes, prev, freed, mut, tcb, alive, fault, upset,
                        met, cut, mistaken>>
  <1>1. PICK last \in {prev[call[c].node], prev[End]} :
          next' = [next EXCEPT ![last] = call[c].node]
    BY DEF LinkLast
  <1>2. last \in 0..made /\ 0..made \subseteq Nodes \cup {End}
    BY Functions DEF Nodes, End
  <1>3. next'[last] = call[c].node /\ \A n \in 0..made : n # last => next'[n] = next[n]
    BY <1>1, <1>2, Functions
  <1> QED BY <1>2, <1>3, CallDoes DEF LinkLast, At, history

\* and the end.
LEMMA BecomesLastDoes ==
  ASSUME TypeOK, NEW c \in Handles, BecomesLast(c)
  PROVE  /\ running /\ Live(c) /\ call[c].pc = "last" /\ Others(c)
         /\ call'[c].pc = "create" /\ call'[c].task = call[c].task
         /\ call'[c].node = call[c].node
         /\ prev'[End] = call[c].node /\ \A n \in 1..made : prev'[n] = prev[n]
         /\ UNCHANGED <<running, made, nodes, next, freed, mut, tcb, alive, fault, upset,
                        met, cut, mistaken>>
  <1>1. prev' = [prev EXCEPT ![End] = call[c].node]
    BY DEF BecomesLast
  <1>2. prev'[End] = call[c].node /\ \A n \in 1..made : prev'[n] = prev[n]
    BY <1>1, Functions DEF End
  <1> QED BY <1>2, CallDoes DEF BecomesLast, At, history

\* The handle of the new task is written to the node at back().
LEMMA CreateDoes ==
  ASSUME TypeOK, NEW c \in Handles, Create(c)
  PROVE  LET back == prev[End]
         IN  /\ running /\ Live(c) /\ call[c].pc = "create" /\ Others(c)
             /\ call'[c].pc = "post" /\ call'[c].task = call[c].task
             /\ call'[c].node = call[c].node
             /\ back \in Kept /\ back \in 1..made
             /\ \E h \in Handles :
                  /\ tcb[h].state = "free" /\ tcb'[h].state = "live" /\ tcb'[h].arg = back
                  /\ \A g \in Handles \ {h} : tcb'[g] = tcb[g]
                  /\ nodes'[back].task = nodes[back].task /\ nodes'[back].handle = h
             /\ \A n \in 1..made : n # back => nodes'[n] = nodes[n]
             /\ upset' = upset \cup (IF back = call[c].node THEN {}
                                     ELSE {call[c].task, nodes[back].task})
             /\ UNCHANGED <<running, made, next, prev, freed, mut, alive, fault, met, cut,
                            mistaken>>
  <1> DEFINE back == prev[End]
  <1>1. back \in 1..made /\ back \notin freed /\ 1..made \subseteq Nodes
    BY Functions DEF Create, End
  <1>2. PICK h \in Handles :
          /\ tcb[h].state = "free"
          /\ tcb' = [tcb EXCEPT ![h] = [state |-> "live", arg |-> back]]
          /\ nodes' = [nodes EXCEPT ![back].handle = h]
    BY DEF Create
  <1>3. /\ upset' = upset \cup (IF back = call[c].node THEN {}
                                ELSE {call[c].task, nodes[back].task})
        /\ UNCHANGED <<running, made, next, prev, freed, mut, alive, fault, met, cut,
                       mistaken>>
    BY DEF Create
  <1>4. /\ running /\ Live(c) /\ call[c].pc = "create" /\ Others(c)
        /\ call'[c].pc = "post" /\ call'[c].task = call[c].task
        /\ call'[c].node = call[c].node
    BY CallDoes DEF Create, At
  <1> HIDE DEF back
  <1>5. /\ tcb'[h].state = "live" /\ tcb'[h].arg = back
        /\ \A g \in Handles \ {h} : tcb'[g] = tcb[g]
    BY <1>2, Functions
  <1>6. /\ nodes'[back].task = nodes[back].task /\ nodes'[back].handle = h
        /\ \A n \in 1..made : n # back => nodes'[n] = nodes[n]
    <2>1. nodes' = [nodes EXCEPT ![back] = [nodes[back] EXCEPT !.handle = h]]
      BY <1>2
    <2>2. /\ nodes'[back] = [nodes[back] EXCEPT !.handle = h]
          /\ \A n \in 1..made : n # back => nodes'[n] = nodes[n]
      BY <1>1, <2>1, Functions
    <2>3. nodes[back] = [task |-> nodes[back].task, handle |-> nodes[back].handle]
      BY <1>1, Functions
    <2> QED BY <2>2, <2>3
  <1>7. back \in Kept
    BY <1>1 DEF Kept
  <1> QED BY <1>1, <1>2, <1>3, <1>4, <1>5, <1>6, <1>7 DEF back

\* Or there is no memory for it.
LEMMA CreateFailsDoes ==
  ASSUME TypeOK, NEW c \in Handles, CreateFails(c)
  PROVE  /\ running /\ Live(c) /\ call[c].pc = "create" /\ Others(c)
         /\ call'[c].pc = "post" /\ call'[c].task = call[c].task
         /\ call'[c].node = call[c].node
         /\ upset' = upset \cup {call[c].task}
         /\ UNCHANGED <<running, made, nodes, next, prev, freed, mut, tcb, alive, fault, met,
                        cut, mistaken>>
  BY CallDoes DEF CreateFails, At, list

\* PostFromTask gives mut_ back, and the start returns.
LEMMA PostDoes ==
  ASSUME TypeOK, NEW c \in Handles, Post(c)
  PROVE  /\ running /\ Live(c) /\ call[c].pc = "post" /\ Others(c)
         /\ call'[c] = NoCall /\ mut'
         /\ UNCHANGED <<running, made, nodes, next, prev, freed, tcb, alive, fault, upset,
                        met, cut, mistaken>>
  BY CallDoes DEF Post, At, list, history

\* A stop looks at a node,
LEMMA FindDoes ==
  ASSUME TypeOK, NEW c \in Handles, Find(c)
  PROVE  LET n == call[c].node
         IN  /\ running /\ Live(c) /\ call[c].pc = "find" /\ Others(c)
             /\ n \in Kept /\ n \in 1..made
             /\ call'[c].task = call[c].task /\ call'[c].ends = call[c].ends
             /\ nodes[n].task = call[c].task =>
                  call'[c].pc = "delete" /\ call'[c].node = n
             /\ nodes[n].task # call[c].task =>
                  call'[c].pc = "find" /\ call'[c].node = next[n]
             /\ UNCHANGED <<running, made, nodes, next, prev, freed, mut, tcb, alive, fault,
                            upset, met, cut, mistaken>>
  <1>1. call[c].node \in 1..made /\ call[c].node \notin freed
    BY Functions DEF Find, End
  <1> QED BY <1>1, CallDoes DEF Find, At, list, history, Kept

\* or comes to the end.
LEMMA FindsNothingDoes ==
  ASSUME TypeOK, NEW c \in Handles, FindsNothing(c)
  PROVE  /\ running /\ Live(c) /\ call[c].pc = "find" /\ Others(c)
         /\ call[c].node = End /\ ~call[c].ends /\ call'[c] = NoCall
         /\ alive' \in {alive, alive \ {call[c].task}}
         /\ UNCHANGED <<running, made, nodes, next, prev, freed, mut, tcb, fault, upset, met,
                        cut, mistaken>>
  BY CallDoes DEF FindsNothing, MayDie, At, list, history

\* It ends its own caller,
LEMMA DeletesItselfDoes ==
  ASSUME TypeOK, NEW c \in Handles, DeletesItself(c)
  PROVE  /\ running /\ Live(c) /\ call[c].pc = "delete" /\ Others(c)
         /\ call'[c] = NoCall /\ Loses(c, call[c].task)
         /\ call[c].node \notin freed /\ nodes[call[c].node].handle \in {c, Null}
         /\ tcb'[c].state = "ended" /\ tcb'[c].arg = tcb[c].arg
         /\ \A h \in Handles \ {c} : tcb'[h] = tcb[h]
         /\ UNCHANGED <<running, made, nodes, next, prev, freed, mut, alive, fault, met>>
  <1>1. /\ tcb'[c].state = "ended" /\ tcb'[c].arg = tcb[c].arg
        /\ \A h \in Handles \ {c} : tcb'[h] = tcb[h]
    <2>1. tcb' = [tcb EXCEPT ![c] = [tcb[c] EXCEPT !.state = "ended"]]
      BY DEF DeletesItself
    <2>2. tcb[c] = [state |-> tcb[c].state, arg |-> tcb[c].arg]
      BY Functions
    <2>3. tcb'[c] = [tcb[c] EXCEPT !.state = "ended"]
          /\ \A h \in Handles \ {c} : tcb'[h] = tcb[h]
      BY <2>1, Functions
    <2> QED BY <2>2, <2>3
  <1> QED BY <1>1, CallDoes DEF DeletesItself, At, list

\* or the task at v, another than its caller.
LEMMA DeletesDoes ==
  ASSUME TypeOK, NEW c \in Handles, Deletes(c)
  PROVE  LET v == nodes[call[c].node].handle
         IN  /\ running /\ ~fault /\ Live(c) /\ call[c].pc = "delete"
             /\ call[c].node \notin freed
             /\ v \in Handles \ {c} /\ Live(v) /\ Loses(v, call[c].task)
             /\ \A d \in Handles \ {c, v} : call'[d] = call[d]
             /\ call'[v] = NoCall
             /\ call'[c].pc = "erase" /\ call'[c].node = call[c].node
             /\ call'[c].task = call[c].task /\ call'[c].ends = call[c].ends
             /\ \A h \in Handles \ {v} : tcb'[h] = tcb[h]
             /\ tcb'[v].state = "free" /\ tcb'[v].arg = End
             /\ UNCHANGED <<running, made, nodes, next, prev, freed, mut, alive, fault, met>>
  <1> DEFINE v == nodes[call[c].node].handle
  <1>1. /\ v \in Handles \ {c} /\ Live(v) /\ Loses(v, call[c].task)
        /\ running /\ ~fault /\ Live(c) /\ call[c].pc = "delete" /\ call[c].node \notin freed
        /\ UNCHANGED <<running, made, nodes, next, prev, freed, mut, alive, fault, met>>
        /\ tcb' = [tcb EXCEPT ![v] = Free]
        /\ call' = [call EXCEPT ![c].pc = "erase", ![v] = NoCall]
    BY DEF Deletes, At, list
  <1> HIDE DEF v
  <1>2. /\ \A h \in Handles \ {v} : tcb'[h] = tcb[h]
        /\ tcb'[v].state = "free" /\ tcb'[v].arg = End
    BY <1>1, Functions DEF Free
  <1>3. call' = [[call EXCEPT ![c] = [call[c] EXCEPT !.pc = "erase"]] EXCEPT ![v] = NoCall]
    BY <1>1, Functions
  <1>4. /\ \A d \in Handles \ {c, v} : call'[d] = call[d]
        /\ call'[v] = NoCall /\ call'[c] = [call[c] EXCEPT !.pc = "erase"]
    BY <1>1, <1>3, Functions
  <1>5. call[c] = [pc |-> call[c].pc, task |-> call[c].task, node |-> call[c].node,
                   before |-> call[c].before, after |-> call[c].after,
                   ends |-> call[c].ends]
    BY Functions
  <1>6. /\ call'[c].pc = "erase" /\ call'[c].node = call[c].node
        /\ call'[c].task = call[c].task /\ call'[c].ends = call[c].ends
    BY <1>4, <1>5
  <1> QED BY <1>1, <1>2, <1>4, <1>6 DEF v

\* erase reads the links of its node,
LEMMA EraseDoes ==
  ASSUME TypeOK, NEW c \in Handles, Erase(c)
  PROVE  /\ running /\ Live(c) /\ call[c].pc = "erase" /\ Others(c)
         /\ call'[c].pc = "unlink" /\ call'[c].task = call[c].task
         /\ call'[c].node = call[c].node /\ call'[c].ends = call[c].ends
         /\ call'[c].before = prev[call[c].node] /\ call'[c].after = next[call[c].node]
         /\ call[c].node \notin freed /\ (met => met') /\ (Meets(c, Hooking) => met')
         /\ UNCHANGED <<running, made, nodes, next, prev, freed, mut, tcb, alive, fault,
                        upset, cut, mistaken>>
  <1> DEFINE p == prev[call[c].node]  n == next[call[c].node]
  <1>1. /\ running /\ Live(c) /\ call[c].pc = "erase"
        /\ call[c].node \notin freed /\ (met => met') /\ (Meets(c, Hooking) => met')
        /\ UNCHANGED <<running, made, nodes, next, prev, freed, mut, tcb, alive, fault,
                       upset, cut, mistaken>>
        /\ call' = [call EXCEPT ![c] = [[[call[c] EXCEPT !.pc = "unlink"]
                                          EXCEPT !.before = p] EXCEPT !.after = n]]
    BY Functions DEF Erase, At, list
  <1> HIDE DEF p, n
  <1>2. /\ call'[c] = [[[call[c] EXCEPT !.pc = "unlink"] EXCEPT !.before = p] EXCEPT !.after = n]
        /\ Others(c)
    BY <1>1, Functions DEF Others
  <1>3. call[c] = [pc |-> call[c].pc, task |-> call[c].task, node |-> call[c].node,
                   before |-> call[c].before, after |-> call[c].after,
                   ends |-> call[c].ends]
    BY Functions
  <1>4. /\ call'[c].pc = "unlink" /\ call'[c].task = call[c].task
        /\ call'[c].node = call[c].node /\ call'[c].ends = call[c].ends
        /\ call'[c].before = p /\ call'[c].after = n
    BY <1>2, <1>3
  <1> QED BY <1>1, <1>2, <1>4 DEF p, n

\* tells the node before it
LEMMA LinkOverDoes ==
  ASSUME TypeOK, NEW c \in Handles, LinkOver(c)
  PROVE  /\ running /\ Live(c) /\ call[c].pc = "unlink" /\ Others(c)
         /\ call'[c].pc = "relink" /\ call'[c].task = call[c].task
         /\ call'[c].node = call[c].node /\ call'[c].ends = call[c].ends
         /\ call'[c].before = call[c].before /\ call'[c].after = call[c].after
         /\ call[c].before \in 0..made /\ next'[call[c].before] = call[c].after
         /\ \A n \in 0..made : n # call[c].before => next'[n] = next[n]
         /\ UNCHANGED <<running, made, nodes, prev, freed, mut, tcb, alive, fault, upset,
                        met, cut, mistaken>>
  <1>1. next' = [next EXCEPT ![call[c].before] = call[c].after]
    BY DEF LinkOver
  <1>2. call[c].before \in 0..made /\ 0..made \subseteq Nodes \cup {End}
    BY Functions DEF Nodes, End
  <1>3. /\ next'[call[c].before] = call[c].after
        /\ \A n \in 0..made : n # call[c].before => next'[n] = next[n]
    BY <1>1, <1>2, Functions
  <1> QED BY <1>2, <1>3, CallDoes DEF LinkOver, At, history

\* and the one after it,
LEMMA LinkBackDoes ==
  ASSUME TypeOK, NEW c \in Handles, LinkBack(c)
  PROVE  /\ running /\ Live(c) /\ call[c].pc = "relink" /\ Others(c)
         /\ call'[c].pc = "free" /\ call'[c].task = call[c].task
         /\ call'[c].node = call[c].node /\ call'[c].ends = call[c].ends
         /\ call[c].after \in 0..made /\ prev'[call[c].after] = call[c].before
         /\ \A n \in 0..made : n # call[c].after => prev'[n] = prev[n]
         /\ UNCHANGED <<running, made, nodes, next, freed, mut, tcb, alive, fault, upset,
                        met, cut, mistaken>>
  <1>1. prev' = [prev EXCEPT ![call[c].after] = call[c].before]
    BY DEF LinkBack
  <1>2. call[c].after \in 0..made /\ 0..made \subseteq Nodes \cup {End}
    BY Functions DEF Nodes, End
  <1>3. /\ prev'[call[c].after] = call[c].before
        /\ \A n \in 0..made : n # call[c].after => prev'[n] = prev[n]
    BY <1>1, <1>2, Functions
  <1> QED BY <1>2, <1>3, CallDoes DEF LinkBack, At, history

\* and gives it back, and the stop returns.
LEMMA FreeNodeDoes ==
  ASSUME TypeOK, NEW c \in Handles, FreeNode(c)
  PROVE  /\ running /\ ~fault /\ Live(c) /\ call[c].pc = "free" /\ Others(c)
         /\ call'[c] = NoCall /\ fault' = call[c].ends
         /\ freed' = freed \cup {call[c].node}
         /\ alive' \in {alive, alive \ {call[c].task}}
         /\ UNCHANGED <<running, made, nodes, next, prev, mut, tcb, upset, met, cut,
                        mistaken>>
  BY CallDoes DEF FreeNode, MayDie, At, history

\* What is used after it was freed changes no more.
LEMMA FaultDoes ==
  ASSUME NEW c \in Handles, UsesFreedNode(c) \/ DeletesNobody(c)
  PROVE  UNCHANGED <<running, made, nodes, next, prev, freed, mut, tcb, call, alive, upset,
                     met, cut, mistaken>>
  BY DEF UsesFreedNode, DeletesNobody, list, history

\* The scheduler starts, or the idle task frees a control block.
LEMMA KernelDoes ==
  ASSUME TypeOK, vTaskStartScheduler \/ \E h \in Handles : IdleFrees(h)
  PROVE  /\ running => running'
         /\ \A h \in Handles :
              \/ tcb'[h] = tcb[h]
              \/ tcb[h].state = "ended" /\ tcb'[h].state = "free"
         /\ UNCHANGED <<made, nodes, next, prev, freed, mut, call, alive, fault, upset, met,
                        cut, mistaken>>
  BY Functions DEF vTaskStartScheduler, IdleFrees, list, history, Free

-----------------------------------------------------------------------------
\* What no step undoes: nodes and their objects, and what a task was given; what
\* was upset; the meetings.
Lasts ==
  /\ made' >= made /\ (running => running') /\ upset \subseteq upset' /\ (met => met')
  /\ freed \subseteq freed'
  /\ \A n \in 1..made : nodes'[n].task = nodes[n].task
  /\ \A h \in Handles : Live(h) /\ Live(h)' =>
       /\ tcb'[h].arg = tcb[h].arg
       /\ tcb[h].arg # End => nodes'[tcb[h].arg].task = nodes[tcb[h].arg].task

\* A step that makes no node and changes no block but to end or free it, or to
\* give it to a new task, lasts.
LEMMA LastsIf ==
  ASSUME TypeOK, made' >= made, running => running', upset \subseteq upset', met => met',
         freed \subseteq freed', \A n \in 1..made : nodes'[n].task = nodes[n].task,
         \A h \in Handles : Live(h) /\ Live(h)' => tcb'[h].arg = tcb[h].arg
  PROVE  Lasts
  <1>1. \A h \in Handles : tcb[h].arg # End => tcb[h].arg \in 1..made
    BY Ranges DEF End
  <1> QED BY <1>1 DEF Lasts

\* Every step lasts.
LEMMA LastsStep ==
  ASSUME RInv, [Next]_vars
  PROVE  Lasts
  <1> USE RtosAssumption
  <1>0. TypeOK /\ CallInv /\ MutInv
    BY DEF RInv
  <1>1. ASSUME NEW t \in Tasks, BootStart(t)
        PROVE  Lasts
    BY <1>0, <1>1, BootDoes, LastsIf, Ranges DEF Live, Loses
  <1>2. ASSUME NEW c \in Handles, NEW t \in Tasks, TaskStart(c, t)
        PROVE  Lasts
    BY <1>0, <1>2, StartDoes, LastsIf, Ranges DEF Live, Loses
  <1>3. ASSUME NEW c \in Handles, TaskReturns(c) \/ \E t \in Tasks : TaskStop(c, t)
        PROVE  Lasts
    BY <1>0, <1>3, LooksDoes, LastsIf, Ranges DEF Live, Loses
  <1>4. ASSUME NEW c \in Handles, Pend(c)
        PROVE  Lasts
    BY <1>0, <1>4, PendDoes, LastsIf, Ranges DEF Live, Loses
  <1>5. ASSUME NEW c \in Handles, Push(c)
        PROVE  Lasts
    BY <1>0, <1>5, PushDoes, LastsIf, Ranges DEF Live, Loses
  <1>6. ASSUME NEW c \in Handles, LinkLast(c)
        PROVE  Lasts
    BY <1>0, <1>6, LinkLastDoes, LastsIf, Ranges DEF Live, Loses
  <1>7. ASSUME NEW c \in Handles, BecomesLast(c)
        PROVE  Lasts
    BY <1>0, <1>7, BecomesLastDoes, LastsIf, Ranges DEF Live, Loses
  <1>8. ASSUME NEW c \in Handles, Create(c)
        PROVE  Lasts
    BY <1>0, <1>8, CreateDoes, LastsIf, Ranges DEF Live, Loses
  <1>9. ASSUME NEW c \in Handles, CreateFails(c)
        PROVE  Lasts
    BY <1>0, <1>9, CreateFailsDoes, LastsIf, Ranges DEF Live, Loses
  <1>10. ASSUME NEW c \in Handles, Post(c)
        PROVE  Lasts
    BY <1>0, <1>10, PostDoes, LastsIf, Ranges DEF Live, Loses
  <1>11. ASSUME NEW c \in Handles, Find(c)
        PROVE  Lasts
    BY <1>0, <1>11, FindDoes, LastsIf, Ranges DEF Live, Loses
  <1>12. ASSUME NEW c \in Handles, FindsNothing(c)
        PROVE  Lasts
    BY <1>0, <1>12, FindsNothingDoes, LastsIf, Ranges DEF Live, Loses
  <1>13. ASSUME NEW c \in Handles, DeletesItself(c)
        PROVE  Lasts
    BY <1>0, <1>13, DeletesItselfDoes, LastsIf, Ranges DEF Live, Loses
  <1>14. ASSUME NEW c \in Handles, Deletes(c)
        PROVE  Lasts
    BY <1>0, <1>14, DeletesDoes, LastsIf, Ranges DEF Live, Loses
  <1>15. ASSUME NEW c \in Handles, Erase(c)
        PROVE  Lasts
    BY <1>0, <1>15, EraseDoes, LastsIf, Ranges DEF Live, Loses
  <1>16. ASSUME NEW c \in Handles, LinkOver(c)
        PROVE  Lasts
    BY <1>0, <1>16, LinkOverDoes, LastsIf, Ranges DEF Live, Loses
  <1>17. ASSUME NEW c \in Handles, LinkBack(c)
        PROVE  Lasts
    BY <1>0, <1>17, LinkBackDoes, LastsIf, Ranges DEF Live, Loses
  <1>18. ASSUME NEW c \in Handles, FreeNode(c)
        PROVE  Lasts
    BY <1>0, <1>18, FreeNodeDoes, LastsIf, Ranges DEF Live, Loses
  <1>19. ASSUME NEW c \in Handles, UsesFreedNode(c) \/ DeletesNobody(c)
        PROVE  Lasts
    BY <1>0, <1>19, FaultDoes, LastsIf, Ranges DEF Live, Loses
  <1>20. ASSUME vTaskStartScheduler \/ \E h \in Handles : IdleFrees(h)
        PROVE  Lasts
    BY <1>0, <1>20, KernelDoes, LastsIf, Ranges DEF Live, Loses
  <1>21. CASE UNCHANGED vars
    BY <1>0, <1>21, LastsIf, Ranges DEF vars, list, history, Live, Loses
  <1> QED
    BY <1>1, <1>2, <1>3, <1>4, <1>5, <1>6, <1>7, <1>8, <1>9, <1>10, <1>11, <1>12, <1>13,
       <1>14, <1>15, <1>16, <1>17, <1>18, <1>19, <1>20, <1>21
    DEF Next, Continues

\* Nodes are made for objects.
LEMMA MadeStep ==
  ASSUME RInv, [Next]_vars
  PROVE  MadeInv'
  <1> USE RtosAssumption
  <1>0. TypeOK /\ CallInv /\ MutInv /\ MadeInv
    BY DEF RInv
  <1>1. ASSUME NEW t \in Tasks, BootStart(t)
        PROVE  MadeInv'
    BY <1>0, <1>1, BootDoes, Ranges DEF MadeInv, CallInv
  <1>2. ASSUME NEW c \in Handles, NEW t \in Tasks, TaskStart(c, t)
        PROVE  MadeInv'
    BY <1>0, <1>2, StartDoes, Ranges DEF MadeInv, CallInv
  <1>3. ASSUME NEW c \in Handles, TaskReturns(c) \/ \E t \in Tasks : TaskStop(c, t)
        PROVE  MadeInv'
    BY <1>0, <1>3, LooksDoes, Ranges DEF MadeInv, CallInv
  <1>4. ASSUME NEW c \in Handles, Pend(c)
        PROVE  MadeInv'
    BY <1>0, <1>4, PendDoes, Ranges DEF MadeInv, CallInv
  <1>5. ASSUME NEW c \in Handles, Push(c)
        PROVE  MadeInv'
    BY <1>0, <1>5, PushDoes, Ranges DEF MadeInv, CallInv
  <1>6. ASSUME NEW c \in Handles, LinkLast(c)
        PROVE  MadeInv'
    BY <1>0, <1>6, LinkLastDoes, Ranges DEF MadeInv, CallInv
  <1>7. ASSUME NEW c \in Handles, BecomesLast(c)
        PROVE  MadeInv'
    BY <1>0, <1>7, BecomesLastDoes, Ranges DEF MadeInv, CallInv
  <1>8. ASSUME NEW c \in Handles, Create(c)
        PROVE  MadeInv'
    BY <1>0, <1>8, CreateDoes, Ranges DEF MadeInv, CallInv
  <1>9. ASSUME NEW c \in Handles, CreateFails(c)
        PROVE  MadeInv'
    BY <1>0, <1>9, CreateFailsDoes, Ranges DEF MadeInv, CallInv
  <1>10. ASSUME NEW c \in Handles, Post(c)
        PROVE  MadeInv'
    BY <1>0, <1>10, PostDoes, Ranges DEF MadeInv, CallInv
  <1>11. ASSUME NEW c \in Handles, Find(c)
        PROVE  MadeInv'
    BY <1>0, <1>11, FindDoes, Ranges DEF MadeInv, CallInv
  <1>12. ASSUME NEW c \in Handles, FindsNothing(c)
        PROVE  MadeInv'
    BY <1>0, <1>12, FindsNothingDoes, Ranges DEF MadeInv, CallInv
  <1>13. ASSUME NEW c \in Handles, DeletesItself(c)
        PROVE  MadeInv'
    BY <1>0, <1>13, DeletesItselfDoes, Ranges DEF MadeInv, CallInv
  <1>14. ASSUME NEW c \in Handles, Deletes(c)
        PROVE  MadeInv'
    BY <1>0, <1>14, DeletesDoes, Ranges DEF MadeInv, CallInv
  <1>15. ASSUME NEW c \in Handles, Erase(c)
        PROVE  MadeInv'
    BY <1>0, <1>15, EraseDoes, Ranges DEF MadeInv, CallInv
  <1>16. ASSUME NEW c \in Handles, LinkOver(c)
        PROVE  MadeInv'
    BY <1>0, <1>16, LinkOverDoes, Ranges DEF MadeInv, CallInv
  <1>17. ASSUME NEW c \in Handles, LinkBack(c)
        PROVE  MadeInv'
    BY <1>0, <1>17, LinkBackDoes, Ranges DEF MadeInv, CallInv
  <1>18. ASSUME NEW c \in Handles, FreeNode(c)
        PROVE  MadeInv'
    BY <1>0, <1>18, FreeNodeDoes, Ranges DEF MadeInv, CallInv
  <1>19. ASSUME NEW c \in Handles, UsesFreedNode(c) \/ DeletesNobody(c)
        PROVE  MadeInv'
    BY <1>0, <1>19, FaultDoes, Ranges DEF MadeInv, CallInv
  <1>20. ASSUME vTaskStartScheduler \/ \E h \in Handles : IdleFrees(h)
        PROVE  MadeInv'
    BY <1>0, <1>20, KernelDoes, Ranges DEF MadeInv, CallInv
  <1>21. CASE UNCHANGED vars
    BY <1>0, <1>21 DEF vars, list, history, MadeInv, CallInv
  <1> QED
    BY <1>1, <1>2, <1>3, <1>4, <1>5, <1>6, <1>7, <1>8, <1>9, <1>10, <1>11, <1>12, <1>13,
       <1>14, <1>15, <1>16, <1>17, <1>18, <1>19, <1>20, <1>21
    DEF Next, Continues

\* Calls keep to tasks that live.
LEMMA CallStep ==
  ASSUME RInv, [Next]_vars
  PROVE  CallInv'
  <1> USE RtosAssumption
  <1>0. TypeOK /\ MadeInv /\ CallInv /\ MutInv /\ Lasts
    BY LastsStep DEF RInv
  <1>1. ASSUME NEW t \in Tasks, BootStart(t)
        PROVE  CallInv'
    BY <1>0, <1>1, BootDoes DEF CallInv, Others, Live, Lasts, NoCall, Starting, Stopping,
       Holding, Hooking, Unhooking, Making, Ending
  <1>2. ASSUME NEW c \in Handles, NEW t \in Tasks, TaskStart(c, t)
        PROVE  CallInv'
    BY <1>0, <1>2, StartDoes DEF CallInv, Others, Live, Lasts, NoCall, Starting, Stopping,
       Holding, Hooking, Unhooking, Making, Ending
  <1>3. ASSUME NEW c \in Handles, TaskReturns(c) \/ \E t \in Tasks : TaskStop(c, t)
        PROVE  CallInv'
    <2>1. /\ call'[c].pc = "find" /\ running' /\ Live(c)' /\ Others(c) /\ Lasts
          /\ call'[c].task \in Tasks /\ \A d \in Handles : tcb'[d] = tcb[d]
      <3>1. CASE call'[c].ends
        BY <1>0, <1>3, <3>1, LooksDoes, Ranges DEF MadeInv, End, Live
      <3>2. CASE ~call'[c].ends
        BY <1>0, <1>3, <3>2, LooksDoes DEF Live
      <3> QED BY <3>1, <3>2
    <2>2. call'[c].ends => tcb'[c].arg # End /\ call'[c].task = nodes'[tcb'[c].arg].task
      BY <1>0, <1>3, LooksDoes
    <2> QED BY <1>0, <2>1, <2>2 DEF CallInv, Others, Live, Lasts, Stopping, Unhooking, Making,
                                    Ending, Hooking
  <1>4. ASSUME NEW c \in Handles, Pend(c)
        PROVE  CallInv'
    BY <1>0, <1>4, PendDoes DEF CallInv, Others, Live, Lasts, NoCall, Starting, Stopping,
       Holding, Hooking, Unhooking, Making, Ending
  <1>5. ASSUME NEW c \in Handles, Push(c)
        PROVE  CallInv'
    <2>1. /\ call'[c].pc = "link" /\ running' /\ Others(c) /\ Lasts
          /\ call'[c].node # End /\ call'[c].task = call[c].task
          /\ call[c].pc = "push" /\ UNCHANGED <<running, tcb>>
      BY <1>0, <1>5, PushDoes, Ranges DEF End
    <2> QED BY <1>0, <2>1 DEF CallInv, Others, Live, Lasts, Making, Ending, Stopping, Hooking,
                              Unhooking
  <1>6. ASSUME NEW c \in Handles, LinkLast(c)
        PROVE  CallInv'
    BY <1>0, <1>6, LinkLastDoes DEF CallInv, Others, Live, Lasts, NoCall, Starting,
       Stopping, Holding, Hooking, Unhooking, Making, Ending
  <1>7. ASSUME NEW c \in Handles, BecomesLast(c)
        PROVE  CallInv'
    BY <1>0, <1>7, BecomesLastDoes DEF CallInv, Others, Live, Lasts, NoCall, Starting,
       Stopping, Holding, Hooking, Unhooking, Making, Ending
  <1>8. ASSUME NEW c \in Handles, Create(c)
        PROVE  CallInv'
    BY <1>0, <1>8, CreateDoes DEF CallInv, Others, Live, Lasts, NoCall, Starting, Stopping,
       Holding, Hooking, Unhooking, Making, Ending
  <1>9. ASSUME NEW c \in Handles, CreateFails(c)
        PROVE  CallInv'
    BY <1>0, <1>9, CreateFailsDoes DEF CallInv, Others, Live, Lasts, NoCall, Starting,
       Stopping, Holding, Hooking, Unhooking, Making, Ending
  <1>10. ASSUME NEW c \in Handles, Post(c)
        PROVE  CallInv'
    BY <1>0, <1>10, PostDoes DEF CallInv, Others, Live, Lasts, NoCall, Starting, Stopping,
       Holding, Hooking, Unhooking, Making, Ending
  <1>11. ASSUME NEW c \in Handles, Find(c)
        PROVE  CallInv'
    <2>1. /\ call'[c].pc \in {"find", "delete"} /\ running' /\ Live(c)' /\ Others(c)
          /\ call'[c].pc = "delete" => call'[c].node # End
          /\ call[c].pc = "find" /\ call'[c].task = call[c].task
          /\ call'[c].ends = call[c].ends /\ UNCHANGED <<running, tcb, nodes>>
      BY <1>0, <1>11, FindDoes, Ranges DEF Live, End
    <2> QED BY <1>0, <2>1 DEF CallInv, Others, Live, Making, Ending, Stopping, Hooking,
                              Unhooking
  <1>12. ASSUME NEW c \in Handles, FindsNothing(c)
        PROVE  CallInv'
    BY <1>0, <1>12, FindsNothingDoes DEF CallInv, Others, Live, Lasts, NoCall, Starting,
       Stopping, Holding, Hooking, Unhooking, Making, Ending
  <1>13. ASSUME NEW c \in Handles, DeletesItself(c)
        PROVE  CallInv'
    BY <1>0, <1>13, DeletesItselfDoes DEF CallInv, Others, Live, Lasts, NoCall, Starting,
       Stopping, Holding, Hooking, Unhooking, Making, Ending
  <1>14. ASSUME NEW c \in Handles, Deletes(c)
        PROVE  CallInv'
    BY <1>0, <1>14, DeletesDoes DEF CallInv, Others, Live, Lasts, NoCall, Starting,
       Stopping, Holding, Hooking, Unhooking, Making, Ending
  <1>15. ASSUME NEW c \in Handles, Erase(c)
        PROVE  CallInv'
    BY <1>0, <1>15, EraseDoes DEF CallInv, Others, Live, Lasts, NoCall, Starting, Stopping,
       Holding, Hooking, Unhooking, Making, Ending
  <1>16. ASSUME NEW c \in Handles, LinkOver(c)
        PROVE  CallInv'
    BY <1>0, <1>16, LinkOverDoes DEF CallInv, Others, Live, Lasts, NoCall, Starting,
       Stopping, Holding, Hooking, Unhooking, Making, Ending
  <1>17. ASSUME NEW c \in Handles, LinkBack(c)
        PROVE  CallInv'
    BY <1>0, <1>17, LinkBackDoes DEF CallInv, Others, Live, Lasts, NoCall, Starting,
       Stopping, Holding, Hooking, Unhooking, Making, Ending
  <1>18. ASSUME NEW c \in Handles, FreeNode(c)
        PROVE  CallInv'
    BY <1>0, <1>18, FreeNodeDoes DEF CallInv, Others, Live, Lasts, NoCall, Starting,
       Stopping, Holding, Hooking, Unhooking, Making, Ending
  <1>19. ASSUME NEW c \in Handles, UsesFreedNode(c) \/ DeletesNobody(c)
        PROVE  CallInv'
    BY <1>0, <1>19, FaultDoes DEF CallInv, Others, Live, Lasts, NoCall, Starting, Stopping,
       Holding, Hooking, Unhooking, Making, Ending
  <1>20. ASSUME vTaskStartScheduler \/ \E h \in Handles : IdleFrees(h)
        PROVE  CallInv'
    BY <1>0, <1>20, KernelDoes DEF CallInv, Others, Live, Lasts, NoCall, Starting,
       Stopping, Holding, Hooking, Unhooking, Making, Ending
  <1>21. CASE UNCHANGED vars
    BY <1>0, <1>21 DEF vars, list, history, CallInv, Others, Live, Lasts, NoCall, Starting,
       Stopping, Holding, Hooking, Unhooking, Making, Ending
  <1> QED
    BY <1>1, <1>2, <1>3, <1>4, <1>5, <1>6, <1>7, <1>8, <1>9, <1>10, <1>11, <1>12, <1>13,
       <1>14, <1>15, <1>16, <1>17, <1>18, <1>19, <1>20, <1>21
    DEF Next, Continues

\* A second call about an object upsets it.
LEMMA OneCallStep ==
  ASSUME RInv, [Next]_vars
  PROVE  OneCallInv'
  <1> USE RtosAssumption
  <1>0. TypeOK /\ CallInv /\ MutInv /\ OneCallInv
    BY DEF RInv
  <1>1. ASSUME NEW t \in Tasks, BootStart(t)
        PROVE  OneCallInv'
    BY <1>0, <1>1, BootDoes DEF CallInv, OneCallInv, Overlaps, Loses, Others, NoCall
  <1>2. ASSUME NEW c \in Handles, NEW t \in Tasks, TaskStart(c, t)
        PROVE  OneCallInv'
    BY <1>0, <1>2, StartDoes DEF CallInv, OneCallInv, Overlaps, Loses, Others, NoCall
  <1>3. ASSUME NEW c \in Handles, TaskReturns(c) \/ \E t \in Tasks : TaskStop(c, t)
        PROVE  OneCallInv'
    BY <1>0, <1>3, LooksDoes DEF CallInv, OneCallInv, Overlaps, Loses, Others, NoCall
  <1>4. ASSUME NEW c \in Handles, Pend(c)
        PROVE  OneCallInv'
    BY <1>0, <1>4, PendDoes DEF CallInv, OneCallInv, Overlaps, Loses, Others, NoCall
  <1>5. ASSUME NEW c \in Handles, Push(c)
        PROVE  OneCallInv'
    BY <1>0, <1>5, PushDoes DEF CallInv, OneCallInv, Overlaps, Loses, Others, NoCall
  <1>6. ASSUME NEW c \in Handles, LinkLast(c)
        PROVE  OneCallInv'
    BY <1>0, <1>6, LinkLastDoes DEF CallInv, OneCallInv, Overlaps, Loses, Others, NoCall
  <1>7. ASSUME NEW c \in Handles, BecomesLast(c)
        PROVE  OneCallInv'
    BY <1>0, <1>7, BecomesLastDoes DEF CallInv, OneCallInv, Overlaps, Loses, Others, NoCall
  <1>8. ASSUME NEW c \in Handles, Create(c)
        PROVE  OneCallInv'
    BY <1>0, <1>8, CreateDoes DEF CallInv, OneCallInv, Overlaps, Loses, Others, NoCall
  <1>9. ASSUME NEW c \in Handles, CreateFails(c)
        PROVE  OneCallInv'
    BY <1>0, <1>9, CreateFailsDoes DEF CallInv, OneCallInv, Overlaps, Loses, Others, NoCall
  <1>10. ASSUME NEW c \in Handles, Post(c)
        PROVE  OneCallInv'
    BY <1>0, <1>10, PostDoes DEF CallInv, OneCallInv, Overlaps, Loses, Others, NoCall
  <1>11. ASSUME NEW c \in Handles, Find(c)
        PROVE  OneCallInv'
    BY <1>0, <1>11, FindDoes DEF CallInv, OneCallInv, Overlaps, Loses, Others, NoCall
  <1>12. ASSUME NEW c \in Handles, FindsNothing(c)
        PROVE  OneCallInv'
    BY <1>0, <1>12, FindsNothingDoes DEF CallInv, OneCallInv, Overlaps, Loses, Others,
       NoCall
  <1>13. ASSUME NEW c \in Handles, DeletesItself(c)
        PROVE  OneCallInv'
    BY <1>0, <1>13, DeletesItselfDoes DEF CallInv, OneCallInv, Overlaps, Loses, Others,
       NoCall
  <1>14. ASSUME NEW c \in Handles, Deletes(c)
        PROVE  OneCallInv'
    BY <1>0, <1>14, DeletesDoes DEF CallInv, OneCallInv, Overlaps, Loses, Others, NoCall
  <1>15. ASSUME NEW c \in Handles, Erase(c)
        PROVE  OneCallInv'
    BY <1>0, <1>15, EraseDoes DEF CallInv, OneCallInv, Overlaps, Loses, Others, NoCall
  <1>16. ASSUME NEW c \in Handles, LinkOver(c)
        PROVE  OneCallInv'
    BY <1>0, <1>16, LinkOverDoes DEF CallInv, OneCallInv, Overlaps, Loses, Others, NoCall
  <1>17. ASSUME NEW c \in Handles, LinkBack(c)
        PROVE  OneCallInv'
    BY <1>0, <1>17, LinkBackDoes DEF CallInv, OneCallInv, Overlaps, Loses, Others, NoCall
  <1>18. ASSUME NEW c \in Handles, FreeNode(c)
        PROVE  OneCallInv'
    BY <1>0, <1>18, FreeNodeDoes DEF CallInv, OneCallInv, Overlaps, Loses, Others, NoCall
  <1>19. ASSUME NEW c \in Handles, UsesFreedNode(c) \/ DeletesNobody(c)
        PROVE  OneCallInv'
    BY <1>0, <1>19, FaultDoes DEF CallInv, OneCallInv, Overlaps, Loses, Others, NoCall
  <1>20. ASSUME vTaskStartScheduler \/ \E h \in Handles : IdleFrees(h)
        PROVE  OneCallInv'
    BY <1>0, <1>20, KernelDoes DEF CallInv, OneCallInv, Overlaps, Loses, Others, NoCall
  <1>21. CASE UNCHANGED vars
    BY <1>0, <1>21 DEF vars, list, history, CallInv, OneCallInv, Overlaps, Loses, Others,
       NoCall
  <1> QED
    BY <1>1, <1>2, <1>3, <1>4, <1>5, <1>6, <1>7, <1>8, <1>9, <1>10, <1>11, <1>12, <1>13,
       <1>14, <1>15, <1>16, <1>17, <1>18, <1>19, <1>20, <1>21
    DEF Next, Continues

\* The semaphore lets one in.
LEMMA MutStep ==
  ASSUME RInv, [Next]_vars
  PROVE  MutInv'
  <1> USE RtosAssumption
  <1>0. TypeOK /\ CallInv /\ MutInv /\ FoundInv
    BY DEF RInv
  <1>1. ASSUME NEW t \in Tasks, BootStart(t)
        PROVE  MutInv'
    BY <1>0, <1>1, BootDoes, Ranges DEF CallInv, MutInv, FoundInv, Others, NoCall,
       Starting, Stopping, Holding, Hooking, Unhooking, Making, Ending
  <1>2. ASSUME NEW c \in Handles, NEW t \in Tasks, TaskStart(c, t)
        PROVE  MutInv'
    BY <1>0, <1>2, StartDoes, Ranges DEF CallInv, MutInv, FoundInv, Others, NoCall,
       Starting, Stopping, Holding, Hooking, Unhooking, Making, Ending
  <1>3. ASSUME NEW c \in Handles, TaskReturns(c) \/ \E t \in Tasks : TaskStop(c, t)
        PROVE  MutInv'
    BY <1>0, <1>3, LooksDoes, Ranges DEF CallInv, MutInv, FoundInv, Others, NoCall,
       Starting, Stopping, Holding, Hooking, Unhooking, Making, Ending
  <1>4. ASSUME NEW c \in Handles, Pend(c)
        PROVE  MutInv'
    BY <1>0, <1>4, PendDoes, Ranges DEF CallInv, MutInv, FoundInv, Others, NoCall,
       Starting, Stopping, Holding, Hooking, Unhooking, Making, Ending
  <1>5. ASSUME NEW c \in Handles, Push(c)
        PROVE  MutInv'
    BY <1>0, <1>5, PushDoes, Ranges DEF CallInv, MutInv, FoundInv, Others, NoCall,
       Starting, Stopping, Holding, Hooking, Unhooking, Making, Ending
  <1>6. ASSUME NEW c \in Handles, LinkLast(c)
        PROVE  MutInv'
    BY <1>0, <1>6, LinkLastDoes, Ranges DEF CallInv, MutInv, FoundInv, Others, NoCall,
       Starting, Stopping, Holding, Hooking, Unhooking, Making, Ending
  <1>7. ASSUME NEW c \in Handles, BecomesLast(c)
        PROVE  MutInv'
    BY <1>0, <1>7, BecomesLastDoes, Ranges DEF CallInv, MutInv, FoundInv, Others, NoCall,
       Starting, Stopping, Holding, Hooking, Unhooking, Making, Ending
  <1>8. ASSUME NEW c \in Handles, Create(c)
        PROVE  MutInv'
    BY <1>0, <1>8, CreateDoes, Ranges DEF CallInv, MutInv, FoundInv, Others, NoCall,
       Starting, Stopping, Holding, Hooking, Unhooking, Making, Ending
  <1>9. ASSUME NEW c \in Handles, CreateFails(c)
        PROVE  MutInv'
    BY <1>0, <1>9, CreateFailsDoes, Ranges DEF CallInv, MutInv, FoundInv, Others, NoCall,
       Starting, Stopping, Holding, Hooking, Unhooking, Making, Ending
  <1>10. ASSUME NEW c \in Handles, Post(c)
        PROVE  MutInv'
    BY <1>0, <1>10, PostDoes, Ranges DEF CallInv, MutInv, FoundInv, Others, NoCall,
       Starting, Stopping, Holding, Hooking, Unhooking, Making, Ending
  <1>11. ASSUME NEW c \in Handles, Find(c)
        PROVE  MutInv'
    BY <1>0, <1>11, FindDoes, Ranges DEF CallInv, MutInv, FoundInv, Others, NoCall,
       Starting, Stopping, Holding, Hooking, Unhooking, Making, Ending
  <1>12. ASSUME NEW c \in Handles, FindsNothing(c)
        PROVE  MutInv'
    BY <1>0, <1>12, FindsNothingDoes, Ranges DEF CallInv, MutInv, FoundInv, Others, NoCall,
       Starting, Stopping, Holding, Hooking, Unhooking, Making, Ending
  <1>13. ASSUME NEW c \in Handles, DeletesItself(c)
        PROVE  MutInv'
    BY <1>0, <1>13, DeletesItselfDoes, Ranges DEF CallInv, MutInv, FoundInv, Others,
       NoCall, Starting, Stopping, Holding, Hooking, Unhooking, Making, Ending
  <1>14. ASSUME NEW c \in Handles, Deletes(c)
        PROVE  MutInv'
    BY <1>0, <1>14, DeletesDoes, Ranges DEF CallInv, MutInv, FoundInv, Others, NoCall,
       Starting, Stopping, Holding, Hooking, Unhooking, Making, Ending
  <1>15. ASSUME NEW c \in Handles, Erase(c)
        PROVE  MutInv'
    BY <1>0, <1>15, EraseDoes, Ranges DEF CallInv, MutInv, FoundInv, Others, NoCall,
       Starting, Stopping, Holding, Hooking, Unhooking, Making, Ending
  <1>16. ASSUME NEW c \in Handles, LinkOver(c)
        PROVE  MutInv'
    BY <1>0, <1>16, LinkOverDoes, Ranges DEF CallInv, MutInv, FoundInv, Others, NoCall,
       Starting, Stopping, Holding, Hooking, Unhooking, Making, Ending
  <1>17. ASSUME NEW c \in Handles, LinkBack(c)
        PROVE  MutInv'
    BY <1>0, <1>17, LinkBackDoes, Ranges DEF CallInv, MutInv, FoundInv, Others, NoCall,
       Starting, Stopping, Holding, Hooking, Unhooking, Making, Ending
  <1>18. ASSUME NEW c \in Handles, FreeNode(c)
        PROVE  MutInv'
    BY <1>0, <1>18, FreeNodeDoes, Ranges DEF CallInv, MutInv, FoundInv, Others, NoCall,
       Starting, Stopping, Holding, Hooking, Unhooking, Making, Ending
  <1>19. ASSUME NEW c \in Handles, UsesFreedNode(c) \/ DeletesNobody(c)
        PROVE  MutInv'
    BY <1>0, <1>19, FaultDoes, Ranges DEF CallInv, MutInv, FoundInv, Others, NoCall,
       Starting, Stopping, Holding, Hooking, Unhooking, Making, Ending
  <1>20. ASSUME vTaskStartScheduler \/ \E h \in Handles : IdleFrees(h)
        PROVE  MutInv'
    BY <1>0, <1>20, KernelDoes, Ranges DEF CallInv, MutInv, FoundInv, Others, NoCall,
       Starting, Stopping, Holding, Hooking, Unhooking, Making, Ending
  <1>21. CASE UNCHANGED vars
    BY <1>0, <1>21 DEF vars, list, history, CallInv, MutInv, FoundInv, Others, NoCall,
       Starting, Stopping, Holding, Hooking, Unhooking, Making, Ending
  <1> QED
    BY <1>1, <1>2, <1>3, <1>4, <1>5, <1>6, <1>7, <1>8, <1>9, <1>10, <1>11, <1>12, <1>13,
       <1>14, <1>15, <1>16, <1>17, <1>18, <1>19, <1>20, <1>21
    DEF Next, Continues

\* A node found stays the object's.
LEMMA FoundStep ==
  ASSUME RInv, [Next]_vars
  PROVE  FoundInv'
  <1> USE RtosAssumption
  <1>0. TypeOK /\ CallInv /\ MutInv /\ FoundInv /\ Lasts
    BY LastsStep DEF RInv
  <1>1. ASSUME NEW t \in Tasks, BootStart(t)
        PROVE  FoundInv'
    BY <1>0, <1>1, BootDoes, Ranges DEF CallInv, FoundInv, Others, Lasts, NoCall, Starting,
       Stopping, Holding, Hooking, Unhooking, Making, Ending
  <1>2. ASSUME NEW c \in Handles, NEW t \in Tasks, TaskStart(c, t)
        PROVE  FoundInv'
    BY <1>0, <1>2, StartDoes, Ranges DEF CallInv, FoundInv, Others, Lasts, NoCall,
       Starting, Stopping, Holding, Hooking, Unhooking, Making, Ending
  <1>3. ASSUME NEW c \in Handles, TaskReturns(c) \/ \E t \in Tasks : TaskStop(c, t)
        PROVE  FoundInv'
    BY <1>0, <1>3, LooksDoes, Ranges DEF CallInv, FoundInv, Others, Lasts, NoCall,
       Starting, Stopping, Holding, Hooking, Unhooking, Making, Ending
  <1>4. ASSUME NEW c \in Handles, Pend(c)
        PROVE  FoundInv'
    BY <1>0, <1>4, PendDoes, Ranges DEF CallInv, FoundInv, Others, Lasts, NoCall, Starting,
       Stopping, Holding, Hooking, Unhooking, Making, Ending
  <1>5. ASSUME NEW c \in Handles, Push(c)
        PROVE  FoundInv'
    <2>1. \A d \in Handles : call'[d].pc \in Ending \cup {"delete"} =>
            call'[d] = call[d] /\ call[d].node \in 1..made
      BY <1>0, <1>5, PushDoes, Ranges DEF CallInv, Others, Ending, Unhooking, End
    <2>2. \A n \in 1..made : nodes'[n] = nodes[n]
      BY <1>0, <1>5, PushDoes
    <2> QED BY <1>0, <2>1, <2>2 DEF FoundInv
  <1>6. ASSUME NEW c \in Handles, LinkLast(c)
        PROVE  FoundInv'
    BY <1>0, <1>6, LinkLastDoes, Ranges DEF CallInv, FoundInv, Others, Lasts, NoCall,
       Starting, Stopping, Holding, Hooking, Unhooking, Making, Ending
  <1>7. ASSUME NEW c \in Handles, BecomesLast(c)
        PROVE  FoundInv'
    BY <1>0, <1>7, BecomesLastDoes, Ranges DEF CallInv, FoundInv, Others, Lasts, NoCall,
       Starting, Stopping, Holding, Hooking, Unhooking, Making, Ending
  <1>8. ASSUME NEW c \in Handles, Create(c)
        PROVE  FoundInv'
    <2>1. \A d \in Handles : call'[d].pc \in Ending \cup {"delete"} =>
            call'[d] = call[d] /\ call[d].node \in 1..made
      BY <1>0, <1>8, CreateDoes, Ranges DEF CallInv, Others, Ending, Unhooking, End
    <2>2. \A n \in 1..made : /\ nodes'[n].task = nodes[n].task
                             /\ nodes[n].handle # Null => nodes'[n].handle # Null
      <3>1. PICK h \in Handles : nodes'[prev[End]].handle = h
        BY <1>0, <1>8, CreateDoes
      <3>2. h # Null
        OBVIOUS
      <3> QED BY <1>0, <1>8, <3>1, <3>2, CreateDoes DEF Lasts
    <2> QED BY <1>0, <2>1, <2>2 DEF FoundInv
  <1>9. ASSUME NEW c \in Handles, CreateFails(c)
        PROVE  FoundInv'
    BY <1>0, <1>9, CreateFailsDoes, Ranges DEF CallInv, FoundInv, Others, Lasts, NoCall,
       Starting, Stopping, Holding, Hooking, Unhooking, Making, Ending
  <1>10. ASSUME NEW c \in Handles, Post(c)
        PROVE  FoundInv'
    BY <1>0, <1>10, PostDoes, Ranges DEF CallInv, FoundInv, Others, Lasts, NoCall,
       Starting, Stopping, Holding, Hooking, Unhooking, Making, Ending
  <1>11. ASSUME NEW c \in Handles, Find(c)
        PROVE  FoundInv'
    BY <1>0, <1>11, FindDoes, Ranges DEF CallInv, FoundInv, Others, Lasts, NoCall,
       Starting, Stopping, Holding, Hooking, Unhooking, Making, Ending
  <1>12. ASSUME NEW c \in Handles, FindsNothing(c)
        PROVE  FoundInv'
    BY <1>0, <1>12, FindsNothingDoes, Ranges DEF CallInv, FoundInv, Others, Lasts, NoCall,
       Starting, Stopping, Holding, Hooking, Unhooking, Making, Ending
  <1>13. ASSUME NEW c \in Handles, DeletesItself(c)
        PROVE  FoundInv'
    BY <1>0, <1>13, DeletesItselfDoes, Ranges DEF CallInv, FoundInv, Others, Lasts, NoCall,
       Starting, Stopping, Holding, Hooking, Unhooking, Making, Ending
  <1>14. ASSUME NEW c \in Handles, Deletes(c)
        PROVE  FoundInv'
    BY <1>0, <1>14, DeletesDoes, Ranges DEF CallInv, FoundInv, Others, Lasts, NoCall,
       Starting, Stopping, Holding, Hooking, Unhooking, Making, Ending
  <1>15. ASSUME NEW c \in Handles, Erase(c)
        PROVE  FoundInv'
    BY <1>0, <1>15, EraseDoes, Ranges DEF CallInv, FoundInv, Others, Lasts, NoCall,
       Starting, Stopping, Holding, Hooking, Unhooking, Making, Ending
  <1>16. ASSUME NEW c \in Handles, LinkOver(c)
        PROVE  FoundInv'
    BY <1>0, <1>16, LinkOverDoes, Ranges DEF CallInv, FoundInv, Others, Lasts, NoCall,
       Starting, Stopping, Holding, Hooking, Unhooking, Making, Ending
  <1>17. ASSUME NEW c \in Handles, LinkBack(c)
        PROVE  FoundInv'
    BY <1>0, <1>17, LinkBackDoes, Ranges DEF CallInv, FoundInv, Others, Lasts, NoCall,
       Starting, Stopping, Holding, Hooking, Unhooking, Making, Ending
  <1>18. ASSUME NEW c \in Handles, FreeNode(c)
        PROVE  FoundInv'
    BY <1>0, <1>18, FreeNodeDoes, Ranges DEF CallInv, FoundInv, Others, Lasts, NoCall,
       Starting, Stopping, Holding, Hooking, Unhooking, Making, Ending
  <1>19. ASSUME NEW c \in Handles, UsesFreedNode(c) \/ DeletesNobody(c)
        PROVE  FoundInv'
    BY <1>0, <1>19, FaultDoes, Ranges DEF CallInv, FoundInv, Others, Lasts, NoCall,
       Starting, Stopping, Holding, Hooking, Unhooking, Making, Ending
  <1>20. ASSUME vTaskStartScheduler \/ \E h \in Handles : IdleFrees(h)
        PROVE  FoundInv'
    BY <1>0, <1>20, KernelDoes, Ranges DEF CallInv, FoundInv, Others, Lasts, NoCall,
       Starting, Stopping, Holding, Hooking, Unhooking, Making, Ending
  <1>21. CASE UNCHANGED vars
    BY <1>0, <1>21 DEF vars, list, history, CallInv, FoundInv, Others, Lasts, NoCall,
       Starting, Stopping, Holding, Hooking, Unhooking, Making, Ending
  <1> QED
    BY <1>1, <1>2, <1>3, <1>4, <1>5, <1>6, <1>7, <1>8, <1>9, <1>10, <1>11, <1>12, <1>13,
       <1>14, <1>15, <1>16, <1>17, <1>18, <1>19, <1>20, <1>21
    DEF Next, Continues

\* A call that goes on, returns or is replaced leaves the calls typed.
LEMMA CallTyped ==
  ASSUME TypeOK, ListOK', made' >= made, NEW c \in Handles
  PROVE  /\ \A pc \in Starting \cup Stopping, n \in 0..made' :
              GoesTo(c, pc, n) => call' \in [Handles -> CallType(made')]
         /\ Returns(c) => call' \in [Handles -> CallType(made')]
         /\ \A x \in CallType(made') :
              call' = [call EXCEPT ![c] = x] => call' \in [Handles -> CallType(made')]
         /\ call' = call => call' \in [Handles -> CallType(made')]
         /\ tcb' = tcb => tcb' \in [Handles -> BlockType(made')]
         /\ \A x \in BlockType(made') :
              tcb' = [tcb EXCEPT ![c] = x] => tcb' \in [Handles -> BlockType(made')]
         /\ NoCall \in CallType(made') /\ Free \in BlockType(made')
         /\ 0..made \subseteq 0..made'
  <1>1. made \in Nat /\ made' \in Nat /\ 0..made \subseteq 0..made'
    BY TypesAre, RtosAssumption DEF ListOK
  <1>2. CallType(made) \subseteq CallType(made') /\ BlockType(made) \subseteq BlockType(made')
    BY <1>1 DEF CallType, BlockType
  <1>3. call \in [Handles -> CallType(made)] /\ tcb \in [Handles -> BlockType(made)]
    BY TypesAre DEF BlocksOK
  <1>4. NoCall \in CallType(made') /\ Free \in BlockType(made')
    BY <1>1, RtosAssumption DEF NoCall, Free, CallType, BlockType, End
  <1>5. ASSUME NEW pc \in Starting \cup Stopping, NEW n \in 0..made', GoesTo(c, pc, n)
        PROVE  call' \in [Handles -> CallType(made')]
    <2>1. call' = [call EXCEPT ![c] = [[call[c] EXCEPT !.pc = pc] EXCEPT !.node = n]]
      BY <1>5, Functions DEF GoesTo
    <2>2. call[c] \in CallType(made')
      BY <1>2, <1>3
    <2>3. [[call[c] EXCEPT !.pc = pc] EXCEPT !.node = n] \in CallType(made')
      BY <2>2 DEF CallType
    <2> QED BY <1>2, <1>3, <2>1, <2>3
  <1> QED BY <1>1, <1>2, <1>3, <1>4, <1>5 DEF Returns

\* Flags are flags, and histories are of objects.
LEMMA FlagsStep ==
  ASSUME RInv, [Next]_vars
  PROVE  FlagsOK'
  <1> USE RtosAssumption
  <1>0. TypeOK /\ FlagsOK /\ MadeInv /\ CallInv /\ MutInv
    BY TypesAre, Ranges DEF RInv
  <1>1. ASSUME NEW t \in Tasks, BootStart(t)
        PROVE  FlagsOK'
    BY <1>0, <1>1, BootDoes DEF FlagsOK, Loses, CallInv
  <1>2. ASSUME NEW c \in Handles, NEW t \in Tasks, TaskStart(c, t)
        PROVE  FlagsOK'
    BY <1>0, <1>2 DEF TaskStart, FlagsOK, history
  <1>3. ASSUME NEW c \in Handles, TaskReturns(c) \/ \E t \in Tasks : TaskStop(c, t)
        PROVE  FlagsOK'
    <2>1. PICK t, ends : Looks(c, t, ends)
      BY <1>3 DEF TaskReturns, TaskStop
    <2>2. Overlaps(c, t) => t \in Tasks
      BY <1>0 DEF Overlaps, CallInv
    <2>3. met' \in BOOLEAN
      BY <1>0, <2>1 DEF Looks, FlagsOK
    <2>4. upset' \subseteq Tasks /\ UNCHANGED <<running, mut, fault, cut, alive, mistaken>>
      BY <1>0, <2>1, <2>2 DEF Looks, FlagsOK
    <2> QED BY <1>0, <2>3, <2>4 DEF FlagsOK
  <1>4. ASSUME NEW c \in Handles, Pend(c)
        PROVE  FlagsOK'
    BY <1>0, <1>4 DEF Pend, FlagsOK, history
  <1>5. ASSUME NEW c \in Handles, Push(c)
        PROVE  FlagsOK'
    <2>1. met' \in BOOLEAN
      BY <1>0, <1>5 DEF Push, FlagsOK
    <2>2. UNCHANGED <<running, mut, fault, cut, alive, upset, mistaken>>
      BY <1>0, <1>5, PushDoes
    <2> QED BY <1>0, <2>1, <2>2 DEF FlagsOK
  <1>6. ASSUME NEW c \in Handles, LinkLast(c)
        PROVE  FlagsOK'
    BY <1>0, <1>6, LinkLastDoes DEF FlagsOK, Loses, CallInv
  <1>7. ASSUME NEW c \in Handles, BecomesLast(c)
        PROVE  FlagsOK'
    BY <1>0, <1>7, BecomesLastDoes DEF FlagsOK, Loses, CallInv
  <1>8. ASSUME NEW c \in Handles, Create(c)
        PROVE  FlagsOK'
    <2>1. prev[End] \in 1..made /\ nodes[prev[End]].task \in Tasks
      BY <1>0, <1>8, CreateDoes DEF MadeInv
    <2>2. call[c].task \in Tasks
      BY <1>0, <1>8, CreateDoes DEF CallInv
    <2>3. upset \subseteq Tasks /\ upset' \subseteq Tasks
      BY <1>0, <1>8, <2>1, <2>2, CreateDoes DEF FlagsOK
    <2>4. UNCHANGED <<running, mut, fault, met, cut, alive, mistaken>>
      BY <1>0, <1>8, CreateDoes
    <2> QED BY <1>0, <2>3, <2>4 DEF FlagsOK
  <1>9. ASSUME NEW c \in Handles, CreateFails(c)
        PROVE  FlagsOK'
    BY <1>0, <1>9, CreateFailsDoes DEF FlagsOK, Loses, CallInv
  <1>10. ASSUME NEW c \in Handles, Post(c)
        PROVE  FlagsOK'
    BY <1>0, <1>10, PostDoes DEF FlagsOK, Loses, CallInv
  <1>11. ASSUME NEW c \in Handles, Find(c)
        PROVE  FlagsOK'
    BY <1>0, <1>11, FindDoes DEF FlagsOK, Loses, CallInv
  <1>12. ASSUME NEW c \in Handles, FindsNothing(c)
        PROVE  FlagsOK'
    BY <1>0, <1>12, FindsNothingDoes DEF FlagsOK, Loses, CallInv
  <1>13. ASSUME NEW c \in Handles, DeletesItself(c)
        PROVE  FlagsOK'
    BY <1>0, <1>13, DeletesItselfDoes DEF FlagsOK, Loses, CallInv
  <1>14. ASSUME NEW c \in Handles, Deletes(c)
        PROVE  FlagsOK'
    BY <1>0, <1>14, DeletesDoes DEF FlagsOK, Loses, CallInv
  <1>15. ASSUME NEW c \in Handles, Erase(c)
        PROVE  FlagsOK'
    <2>1. met' \in BOOLEAN
      BY <1>0, <1>15 DEF Erase, FlagsOK
    <2>2. UNCHANGED <<running, mut, fault, cut, alive, upset, mistaken>>
      BY <1>0, <1>15, EraseDoes
    <2> QED BY <1>0, <2>1, <2>2 DEF FlagsOK
  <1>16. ASSUME NEW c \in Handles, LinkOver(c)
        PROVE  FlagsOK'
    BY <1>0, <1>16, LinkOverDoes DEF FlagsOK, Loses, CallInv
  <1>17. ASSUME NEW c \in Handles, LinkBack(c)
        PROVE  FlagsOK'
    BY <1>0, <1>17, LinkBackDoes DEF FlagsOK, Loses, CallInv
  <1>18. ASSUME NEW c \in Handles, FreeNode(c)
        PROVE  FlagsOK'
    <2>1. fault' \in BOOLEAN /\ alive' \subseteq Tasks
      BY <1>0, <1>18, FreeNodeDoes, Functions DEF FlagsOK
    <2>2. UNCHANGED <<running, mut, met, cut, upset, mistaken>>
      BY <1>0, <1>18, FreeNodeDoes
    <2> QED BY <1>0, <2>1, <2>2 DEF FlagsOK
  <1>19. ASSUME NEW c \in Handles, UsesFreedNode(c) \/ DeletesNobody(c)
        PROVE  FlagsOK'
    BY <1>0, <1>19 DEF UsesFreedNode, DeletesNobody, FlagsOK, history
  <1>20. ASSUME vTaskStartScheduler \/ \E h \in Handles : IdleFrees(h)
        PROVE  FlagsOK'
    BY <1>0, <1>20 DEF vTaskStartScheduler, IdleFrees, FlagsOK, history
  <1>21. CASE UNCHANGED vars
    BY <1>0, <1>21 DEF vars, list, history, FlagsOK, Loses, CallInv
  <1> QED
    BY <1>1, <1>2, <1>3, <1>4, <1>5, <1>6, <1>7, <1>8, <1>9, <1>10, <1>11, <1>12, <1>13,
       <1>14, <1>15, <1>16, <1>17, <1>18, <1>19, <1>20, <1>21
    DEF Next, Continues

\* The list keeps its types.
LEMMA ListStep ==
  ASSUME RInv, [Next]_vars
  PROVE  ListOK'
  <1> USE RtosAssumption
  <1>0. TypeOK /\ ListOK /\ CallInv /\ MutInv
    BY TypesAre, Ranges DEF RInv
  <1>1. ASSUME NEW t \in Tasks, BootStart(t)
        PROVE  ListOK'
    <2>1. /\ made' = made + 1 /\ made + 1 \in Nodes /\ made \in Nat /\ made' \in 0..MaxStarts
          /\ UNCHANGED freed
      BY <1>0, <1>1, BootDoes, Ranges DEF Nodes
    <2>2. 0..made \subseteq 0..made' /\ End \in 0..made' /\ prev[End] \in 0..made'
      BY <1>0, <2>1, Ranges DEF End
    <2>3. nodes' \in [Nodes -> NodeType]
      <3>1. PICK h \in Handles \cup {Null} :
              nodes' = [nodes EXCEPT ![made + 1] = [task |-> t, handle |-> h]]
        BY <1>1 DEF BootStart
      <3> QED BY <1>0, <3>1 DEF ListOK, NodeType
    <2>4. next' \in [Nodes \cup {End} -> 0..made'] /\ prev' \in [Nodes \cup {End} -> 0..made']
      BY <1>0, <1>1, <2>1, <2>2 DEF BootStart, ListOK
    <2> QED BY <1>0, <2>1, <2>2, <2>3, <2>4 DEF ListOK
  <1>2. ASSUME NEW c \in Handles, NEW t \in Tasks, TaskStart(c, t)
        PROVE  ListOK'
    BY <1>0, <1>2, StartDoes DEF ListOK
  <1>3. ASSUME NEW c \in Handles, TaskReturns(c) \/ \E t \in Tasks : TaskStop(c, t)
        PROVE  ListOK'
    BY <1>0, <1>3, LooksDoes DEF ListOK
  <1>4. ASSUME NEW c \in Handles, Pend(c)
        PROVE  ListOK'
    BY <1>0, <1>4, PendDoes DEF ListOK
  <1>5. ASSUME NEW c \in Handles, Push(c)
        PROVE  ListOK'
    <2>1. /\ made' = made + 1 /\ made + 1 \in Nodes /\ made \in Nat /\ made' \in 0..MaxStarts
          /\ UNCHANGED freed
      BY <1>0, <1>5, PushDoes, Ranges DEF Nodes
    <2>2. 0..made \subseteq 0..made' /\ End \in 0..made' /\ prev[End] \in 0..made'
      BY <1>0, <2>1, Ranges DEF End
    <2>3. nodes' \in [Nodes -> NodeType]
      <3>1. call[c].task \in Tasks \cup {Foreign}
        BY <1>0, Functions
      <3> QED BY <1>0, <1>5, <3>1 DEF Push, ListOK, NodeType
    <2>4. next' \in [Nodes \cup {End} -> 0..made'] /\ prev' \in [Nodes \cup {End} -> 0..made']
      BY <1>0, <1>5, <2>1, <2>2 DEF Push, ListOK
    <2> QED BY <1>0, <2>1, <2>2, <2>3, <2>4 DEF ListOK
  <1>6. ASSUME NEW c \in Handles, LinkLast(c)
        PROVE  ListOK'
    BY <1>0, <1>6, Ranges DEF LinkLast, ListOK
  <1>7. ASSUME NEW c \in Handles, BecomesLast(c)
        PROVE  ListOK'
    BY <1>0, <1>7, Ranges DEF BecomesLast, ListOK
  <1>8. ASSUME NEW c \in Handles, Create(c)
        PROVE  ListOK'
    <2>1. PICK h \in Handles : nodes' = [nodes EXCEPT ![prev[End]].handle = h]
      BY <1>8 DEF Create
    <2>2. /\ prev[End] \in Nodes
          /\ nodes' = [nodes EXCEPT ![prev[End]] = [nodes[prev[End]] EXCEPT !.handle = h]]
      BY <1>0, <1>8, <2>1, CreateDoes, Functions
    <2>3. [nodes[prev[End]] EXCEPT !.handle = h] \in NodeType
      <3>1. nodes[prev[End]] \in NodeType
        BY <1>0, <2>2 DEF ListOK
      <3> QED BY <3>1 DEF NodeType
    <2>4. nodes' \in [Nodes -> NodeType]
      BY <1>0, <2>2, <2>3 DEF ListOK
    <2> QED BY <1>0, <1>8, <2>4, CreateDoes DEF ListOK
  <1>9. ASSUME NEW c \in Handles, CreateFails(c)
        PROVE  ListOK'
    BY <1>0, <1>9, CreateFailsDoes DEF ListOK
  <1>10. ASSUME NEW c \in Handles, Post(c)
        PROVE  ListOK'
    BY <1>0, <1>10, PostDoes DEF ListOK
  <1>11. ASSUME NEW c \in Handles, Find(c)
        PROVE  ListOK'
    BY <1>0, <1>11, FindDoes DEF ListOK
  <1>12. ASSUME NEW c \in Handles, FindsNothing(c)
        PROVE  ListOK'
    BY <1>0, <1>12, FindsNothingDoes DEF ListOK
  <1>13. ASSUME NEW c \in Handles, DeletesItself(c)
        PROVE  ListOK'
    BY <1>0, <1>13, DeletesItselfDoes DEF ListOK
  <1>14. ASSUME NEW c \in Handles, Deletes(c)
        PROVE  ListOK'
    <2>1. UNCHANGED <<made, nodes, next, prev, freed>>
      BY <1>0, <1>14, DeletesDoes
    <2> QED BY <1>0, <2>1 DEF ListOK
  <1>15. ASSUME NEW c \in Handles, Erase(c)
        PROVE  ListOK'
    BY <1>0, <1>15, EraseDoes DEF ListOK
  <1>16. ASSUME NEW c \in Handles, LinkOver(c)
        PROVE  ListOK'
    BY <1>0, <1>16, Ranges DEF LinkOver, ListOK
  <1>17. ASSUME NEW c \in Handles, LinkBack(c)
        PROVE  ListOK'
    BY <1>0, <1>17, Ranges DEF LinkBack, ListOK
  <1>18. ASSUME NEW c \in Handles, FreeNode(c)
        PROVE  ListOK'
    <2>1. call[c].node \in 1..made
      BY <1>0, <1>18, FreeNodeDoes, Ranges DEF CallInv, Ending, End
    <2> QED BY <1>0, <1>18, <2>1, FreeNodeDoes DEF ListOK
  <1>19. ASSUME NEW c \in Handles, UsesFreedNode(c) \/ DeletesNobody(c)
        PROVE  ListOK'
    BY <1>0, <1>19, FaultDoes DEF ListOK
  <1>20. ASSUME vTaskStartScheduler \/ \E h \in Handles : IdleFrees(h)
        PROVE  ListOK'
    BY <1>0, <1>20, KernelDoes DEF ListOK
  <1>21. CASE UNCHANGED vars
    BY <1>0, <1>21 DEF vars, list, history, ListOK
  <1> QED
    BY <1>1, <1>2, <1>3, <1>4, <1>5, <1>6, <1>7, <1>8, <1>9, <1>10, <1>11, <1>12, <1>13,
       <1>14, <1>15, <1>16, <1>17, <1>18, <1>19, <1>20, <1>21
    DEF Next, Continues

\* Control blocks and calls keep their types.
LEMMA BlocksStep ==
  ASSUME RInv, [Next]_vars
  PROVE  BlocksOK'
  <1> USE RtosAssumption
  <1>0. TypeOK /\ BlocksOK /\ ListOK' /\ made \in Nat /\ CallInv /\ MutInv
    BY TypesAre, Ranges, ListStep DEF RInv
  <1>1. ASSUME NEW t \in Tasks, BootStart(t)
        PROVE  BlocksOK'
    <2>1. made' >= made /\ call' = call
      BY <1>0, <1>1, BootDoes
    <2>2. tcb' \in [Handles -> BlockType(made')]
      <3>1. CASE tcb' = tcb
        BY <1>0, <2>1, <3>1, CallTyped DEF BlocksOK
      <3>2. CASE \E h \in Handles : tcb' = [tcb EXCEPT ![h] = [state |-> "live", arg |-> made + 1]]
        <4>1. [state |-> "live", arg |-> made + 1] \in BlockType(made')
          BY <1>0, <1>1, BootDoes DEF BlockType
        <4> QED BY <1>0, <2>1, <3>2, <4>1, CallTyped
      <3> QED BY <1>1, <3>1, <3>2 DEF BootStart
    <2>3. CallType(made) \subseteq CallType(made')
      <3>1. 0..made \subseteq 0..made'
        BY <1>0, <1>1, BootDoes, Ranges
      <3> QED BY <3>1 DEF CallType
    <2> QED BY <1>0, <2>1, <2>2, <2>3 DEF BlocksOK
  <1>2. ASSUME NEW c \in Handles, NEW t \in Tasks, TaskStart(c, t)
        PROVE  BlocksOK'
    <2>1. [NoCall EXCEPT !.pc = "pend", !.task = t] \in CallType(made')
      <3>1. NoCall \in CallType(made')
        BY <1>0, <1>2, StartDoes, CallTyped
      <3> QED BY <3>1 DEF CallType, Starting
    <2>2. call' = [call EXCEPT ![c] = [NoCall EXCEPT !.pc = "pend", !.task = t]]
      BY <1>2 DEF TaskStart
    <2>3. made' >= made /\ tcb' = tcb
      BY <1>0, <1>2, StartDoes
    <2> QED BY <1>0, <2>1, <2>2, <2>3, CallTyped DEF BlocksOK
  <1>3. ASSUME NEW c \in Handles, TaskReturns(c) \/ \E t \in Tasks : TaskStop(c, t)
        PROVE  BlocksOK'
    <2>1. made' >= made /\ tcb' = tcb /\ next[End] \in 0..made'
      BY <1>0, <1>3, LooksDoes, Ranges DEF End
    <2>2. \E t \in Tasks \cup {Foreign}, ends \in BOOLEAN : Looks(c, t, ends)
      <3>1. CASE TaskReturns(c)
        <4>1. Runs(c) \in Tasks \cup {Foreign}
          BY <1>0, Functions DEF Runs, Nodes, End
        <4> QED BY <3>1, <4>1 DEF TaskReturns
      <3>2. CASE \E t \in Tasks : TaskStop(c, t)
        BY <3>2 DEF TaskStop
      <3> QED BY <1>3, <3>1, <3>2
    <2>3. PICK t \in Tasks \cup {Foreign}, ends \in BOOLEAN : Looks(c, t, ends)
      BY <2>2
    <2>4. [NoCall EXCEPT !.pc = "find", !.task = t, !.node = next[End], !.ends = ends]
            \in CallType(made')
      <3>1. NoCall \in CallType(made')
        BY <1>0, <2>1, CallTyped
      <3> QED BY <2>1, <3>1 DEF CallType, Stopping
    <2>5. call' = [call EXCEPT ![c] = [NoCall EXCEPT !.pc = "find", !.task = t,
                                         !.node = next[End], !.ends = ends]]
      BY <2>3 DEF Looks
    <2> QED BY <1>0, <2>1, <2>4, <2>5, CallTyped DEF BlocksOK
  <1>4. ASSUME NEW c \in Handles, Pend(c)
        PROVE  BlocksOK'
    <2>1. GoesTo(c, "push", End) /\ End \in 0..made' /\ made' >= made
      <3>1. GoesTo(c, "push", End)
        BY <1>4 DEF Pend
      <3> QED BY <1>0, <1>4, <3>1, PendDoes, Ranges DEF End
    <2>2. "push" \in Starting \cup Stopping
      BY DEF Starting, Stopping, Hooking, Unhooking
    <2>3. call' \in [Handles -> CallType(made')]
      BY <1>0, <2>1, <2>2, CallTyped
    <2>4. tcb' = tcb
      BY <1>0, <1>4, PendDoes
    <2> QED BY <1>0, <2>1, <2>3, <2>4, CallTyped DEF BlocksOK
  <1>5. ASSUME NEW c \in Handles, Push(c)
        PROVE  BlocksOK'
    <2>1. GoesTo(c, "link", (made + 1)) /\ (made + 1) \in 0..made' /\ made' >= made
      BY <1>0, <1>5, PushDoes, Ranges DEF Push
    <2>2. "link" \in Starting \cup Stopping
      BY DEF Starting, Stopping, Hooking, Unhooking
    <2>3. call' \in [Handles -> CallType(made')]
      BY <1>0, <2>1, <2>2, CallTyped
    <2>4. tcb' = tcb
      BY <1>0, <1>5, PushDoes
    <2> QED BY <1>0, <2>1, <2>3, <2>4, CallTyped DEF BlocksOK
  <1>6. ASSUME NEW c \in Handles, LinkLast(c)
        PROVE  BlocksOK'
    <2>1. GoesTo(c, "last", call[c].node) /\ call[c].node \in 0..made' /\ made' >= made
      BY <1>0, <1>6, LinkLastDoes, Ranges DEF LinkLast
    <2>2. "last" \in Starting \cup Stopping
      BY DEF Starting, Stopping, Hooking, Unhooking
    <2>3. call' \in [Handles -> CallType(made')]
      BY <1>0, <2>1, <2>2, CallTyped
    <2>4. tcb' = tcb
      BY <1>0, <1>6, LinkLastDoes
    <2> QED BY <1>0, <2>1, <2>3, <2>4, CallTyped DEF BlocksOK
  <1>7. ASSUME NEW c \in Handles, BecomesLast(c)
        PROVE  BlocksOK'
    <2>1. GoesTo(c, "create", call[c].node) /\ call[c].node \in 0..made' /\ made' >= made
      BY <1>0, <1>7, BecomesLastDoes, Ranges DEF BecomesLast
    <2>2. "create" \in Starting \cup Stopping
      BY DEF Starting, Stopping, Hooking, Unhooking
    <2>3. call' \in [Handles -> CallType(made')]
      BY <1>0, <2>1, <2>2, CallTyped
    <2>4. tcb' = tcb
      BY <1>0, <1>7, BecomesLastDoes
    <2> QED BY <1>0, <2>1, <2>3, <2>4, CallTyped DEF BlocksOK
  <1>8. ASSUME NEW c \in Handles, Create(c)
        PROVE  BlocksOK'
    <2>1. GoesTo(c, "post", call[c].node) /\ call[c].node \in 0..made' /\ made' >= made
      BY <1>0, <1>8, CreateDoes, Ranges DEF Create
    <2>2. call' \in [Handles -> CallType(made')]
      BY <1>0, <2>1, CallTyped DEF Starting
    <2>3. [state |-> "live", arg |-> prev[End]] \in BlockType(made')
      BY <1>0, <1>8, CreateDoes DEF BlockType
    <2>4. \E h \in Handles :
            tcb' = [tcb EXCEPT ![h] = [state |-> "live", arg |-> prev[End]]]
      BY <1>8 DEF Create
    <2> QED BY <1>0, <2>1, <2>2, <2>3, <2>4, CallTyped DEF BlocksOK
  <1>9. ASSUME NEW c \in Handles, CreateFails(c)
        PROVE  BlocksOK'
    <2>1. GoesTo(c, "post", call[c].node) /\ call[c].node \in 0..made' /\ made' >= made
      BY <1>0, <1>9, CreateFailsDoes, Ranges DEF CreateFails
    <2>2. "post" \in Starting \cup Stopping
      BY DEF Starting, Stopping, Hooking, Unhooking
    <2>3. call' \in [Handles -> CallType(made')]
      BY <1>0, <2>1, <2>2, CallTyped
    <2>4. tcb' = tcb
      BY <1>0, <1>9, CreateFailsDoes
    <2> QED BY <1>0, <2>1, <2>3, <2>4, CallTyped DEF BlocksOK
  <1>10. ASSUME NEW c \in Handles, Post(c)
        PROVE  BlocksOK'
    <2>1. Returns(c) /\ made' >= made /\ tcb' = tcb
      BY <1>0, <1>10, PostDoes DEF Post
    <2> QED BY <1>0, <2>1, CallTyped DEF BlocksOK
  <1>11. ASSUME NEW c \in Handles, Find(c)
        PROVE  BlocksOK'
    <2>1. /\ made' >= made /\ call[c].node \in 0..made' /\ next[call[c].node] \in 0..made'
          /\ tcb' = tcb
      BY <1>0, <1>11, FindDoes, Ranges
    <2>2. \E pc \in {"delete", "find"}, n \in 0..made' : GoesTo(c, pc, n)
      BY <1>11, <2>1 DEF Find
    <2>3. {"delete", "find"} \subseteq Starting \cup Stopping
      BY DEF Stopping
    <2>4. PICK pc \in {"delete", "find"}, n \in 0..made' : GoesTo(c, pc, n)
      BY <2>2
    <2>5. pc \in Starting \cup Stopping
      BY <2>3
    <2>6. call' \in [Handles -> CallType(made')]
      BY <1>0, <2>1, <2>4, <2>5, CallTyped
    <2> QED BY <1>0, <2>1, <2>6, CallTyped DEF BlocksOK
  <1>12. ASSUME NEW c \in Handles, FindsNothing(c)
        PROVE  BlocksOK'
    <2>1. Returns(c) /\ made' >= made /\ tcb' = tcb
      BY <1>0, <1>12, FindsNothingDoes DEF FindsNothing
    <2> QED BY <1>0, <2>1, CallTyped DEF BlocksOK
  <1>13. ASSUME NEW c \in Handles, DeletesItself(c)
        PROVE  BlocksOK'
    <2>1. Returns(c) /\ made' >= made
      <3>1. Returns(c)
        BY <1>13 DEF DeletesItself
      <3> QED BY <1>0, <1>13, <3>1, DeletesItselfDoes
    <2>2. call' \in [Handles -> CallType(made')]
      BY <1>0, <2>1, CallTyped
    <2>3. [tcb[c] EXCEPT !.state = "ended"] \in BlockType(made')
      <3>1. tcb[c] = [state |-> tcb[c].state, arg |-> tcb[c].arg] /\ tcb[c].arg \in 0..made'
        BY <1>0, <2>1, <1>13, DeletesItselfDoes, Functions
      <3> QED BY <3>1 DEF BlockType
    <2>4. tcb' = [tcb EXCEPT ![c] = [tcb[c] EXCEPT !.state = "ended"]]
      BY <1>13 DEF DeletesItself
    <2> QED BY <1>0, <2>1, <2>2, <2>3, <2>4, CallTyped DEF BlocksOK
  <1>14. ASSUME NEW c \in Handles, Deletes(c)
        PROVE  BlocksOK'
    <2> DEFINE v == nodes[call[c].node].handle
    <2>1. v \in Handles /\ made' = made
      BY <1>0, <1>14, DeletesDoes
    <2>2. tcb' = [tcb EXCEPT ![v] = Free] /\ call' = [call EXCEPT ![c].pc = "erase", ![v] = NoCall]
      BY <1>14 DEF Deletes
    <2> HIDE DEF v
    <2>3. /\ made' >= made /\ NoCall \in CallType(made') /\ Free \in BlockType(made')
          /\ call \in [Handles -> CallType(made)]
      BY <1>0, <2>1, CallTyped DEF BlocksOK
    <2>4. tcb' \in [Handles -> BlockType(made')]
      BY <1>0, <2>1, <2>2, <2>3 DEF BlocksOK
    <2>5. [call[c] EXCEPT !.pc = "erase"] \in CallType(made)
      <3>1. call[c] \in CallType(made)
        BY <2>3
      <3> QED BY <3>1 DEF CallType, Stopping
    <2>6. call' = [call EXCEPT ![c] = [call[c] EXCEPT !.pc = "erase"], ![v] = NoCall]
      BY <1>0, <2>2, Functions
    <2>7. call' \in [Handles -> CallType(made')]
      BY <2>1, <2>3, <2>5, <2>6
    <2> QED BY <2>4, <2>7 DEF BlocksOK
  <1>15. ASSUME NEW c \in Handles, Erase(c)
        PROVE  BlocksOK'
    <2> DEFINE p == prev[call[c].node]
               n == next[call[c].node]
    <2>1. p \in 0..made /\ n \in 0..made /\ call[c] \in CallType(made) /\ UNCHANGED <<made, tcb>>
      BY <1>0, <1>15, EraseDoes, Ranges DEF BlocksOK
    <2>2. call' = [call EXCEPT ![c] = [[[call[c] EXCEPT !.pc = "unlink"]
                                         EXCEPT !.before = p] EXCEPT !.after = n]]
      BY <1>0, <1>15, Functions DEF Erase
    <2> HIDE DEF p, n
    <2>3. [[[call[c] EXCEPT !.pc = "unlink"] EXCEPT !.before = p] EXCEPT !.after = n]
            \in CallType(made')
      BY <2>1 DEF CallType, Stopping, Unhooking
    <2> QED BY <1>0, <2>1, <2>2, <2>3, CallTyped DEF BlocksOK
  <1>16. ASSUME NEW c \in Handles, LinkOver(c)
        PROVE  BlocksOK'
    <2>1. GoesTo(c, "relink", call[c].node) /\ call[c].node \in 0..made' /\ made' >= made
      BY <1>0, <1>16, LinkOverDoes, Ranges DEF LinkOver
    <2>2. "relink" \in Starting \cup Stopping
      BY DEF Starting, Stopping, Hooking, Unhooking
    <2>3. call' \in [Handles -> CallType(made')]
      BY <1>0, <2>1, <2>2, CallTyped
    <2>4. tcb' = tcb
      BY <1>0, <1>16, LinkOverDoes
    <2> QED BY <1>0, <2>1, <2>3, <2>4, CallTyped DEF BlocksOK
  <1>17. ASSUME NEW c \in Handles, LinkBack(c)
        PROVE  BlocksOK'
    <2>1. GoesTo(c, "free", call[c].node) /\ call[c].node \in 0..made' /\ made' >= made
      BY <1>0, <1>17, LinkBackDoes, Ranges DEF LinkBack
    <2>2. "free" \in Starting \cup Stopping
      BY DEF Starting, Stopping, Hooking, Unhooking
    <2>3. call' \in [Handles -> CallType(made')]
      BY <1>0, <2>1, <2>2, CallTyped
    <2>4. tcb' = tcb
      BY <1>0, <1>17, LinkBackDoes
    <2> QED BY <1>0, <2>1, <2>3, <2>4, CallTyped DEF BlocksOK
  <1>18. ASSUME NEW c \in Handles, FreeNode(c)
        PROVE  BlocksOK'
    <2>1. Returns(c) /\ made' >= made /\ tcb' = tcb
      BY <1>0, <1>18, FreeNodeDoes DEF FreeNode
    <2> QED BY <1>0, <2>1, CallTyped DEF BlocksOK
  <1>19. ASSUME NEW c \in Handles, UsesFreedNode(c) \/ DeletesNobody(c)
        PROVE  BlocksOK'
    BY <1>0, <1>19, FaultDoes DEF BlocksOK
  <1>20. ASSUME vTaskStartScheduler \/ \E h \in Handles : IdleFrees(h)
        PROVE  BlocksOK'
    <2>1. UNCHANGED <<made, call>>
      BY <1>0, <1>20, KernelDoes
    <2>2. tcb' \in [Handles -> BlockType(made')]
      <3>1. CASE \E h \in Handles : IdleFrees(h)
        <4>1. PICK h \in Handles : tcb' = [tcb EXCEPT ![h] = Free]
          BY <3>1 DEF IdleFrees
        <4>2. made' >= made
          BY <1>0, <2>1
        <4> QED BY <1>0, <4>1, <4>2, CallTyped
      <3>2. CASE vTaskStartScheduler
        BY <1>0, <2>1, <3>2 DEF vTaskStartScheduler, BlocksOK
      <3> QED BY <1>20, <3>1, <3>2
    <2> QED BY <1>0, <2>1, <2>2 DEF BlocksOK
  <1>21. CASE UNCHANGED vars
    BY <1>0, <1>21 DEF vars, list, history, BlocksOK
  <1> QED
    BY <1>1, <1>2, <1>3, <1>4, <1>5, <1>6, <1>7, <1>8, <1>9, <1>10, <1>11, <1>12, <1>13,
       <1>14, <1>15, <1>16, <1>17, <1>18, <1>19, <1>20, <1>21
    DEF Next, Continues

\* The state keeps its types.
LEMMA TypeStep ==
  ASSUME RInv, [Next]_vars
  PROVE  TypeOK'
  BY FlagsStep, ListStep, BlocksStep
  DEF TypeOK, FlagsOK, ListOK, BlocksOK, NodeType, BlockType, CallType

\* Which nodes calls are about changes only with the calls.
LEMMA BeingSame ==
  ASSUME NEW P, \A d \in Handles : call'[d].pc \in P \/ call[d].pc \in P =>
           call'[d].pc \in P /\ call[d].pc \in P /\ call'[d].node = call[d].node
  PROVE  \A n : Being(n, P)' <=> Being(n, P)
  BY DEF Being

\* The book is kept when, but for a node m whose task is new, the nodes that are
\* settled were so before and their tasks live on.
LEMMA BookIf ==
  ASSUME TypeOK, BookInv, Lasts, NEW m,
         \A n \in Kept' : n # m /\ Settled(n)' =>
           /\ n \in Kept /\ Settled(n) /\ nodes'[n].handle = nodes[n].handle
           /\ tcb'[nodes[n].handle] = tcb[nodes[n].handle],
         m \in Kept' /\ Settled(m)' =>
           /\ tcb[nodes'[m].handle].state # "live" /\ tcb'[nodes'[m].handle].state = "live"
           /\ tcb'[nodes'[m].handle].arg = m /\ m # End,
         \A n \in Kept' : nodes'[n].handle = Null =>
           nodes'[n].task \in upset' \/ Being(n, Making)'
  PROVE  BookInv'
  <1>1. ASSUME NEW n \in Kept', n # m, Settled(n)'
        PROVE  /\ n \in Kept /\ Settled(n) /\ nodes'[n].handle = nodes[n].handle
               /\ tcb[nodes'[n].handle].state = "live" /\ tcb'[nodes'[n].handle].state = "live"
               /\ tcb'[nodes'[n].handle].arg # End
               /\ nodes'[tcb'[nodes'[n].handle].arg].task = nodes'[n].task
    <2>1. /\ n \in Kept /\ Settled(n) /\ nodes'[n].handle = nodes[n].handle /\ n \in 1..made
          /\ tcb'[nodes[n].handle] = tcb[nodes[n].handle]
      BY <1>1, KeptFacts
    <2>2. PICK h \in Handles : h = nodes[n].handle
      BY <2>1, KeptFacts DEF Settled
    <2>3. tcb[h].state = "live" /\ tcb[h].arg # End /\ nodes[tcb[h].arg].task = nodes[n].task
      BY <2>1, <2>2 DEF BookInv
    <2>4. tcb[h].arg \in 1..made
      BY <2>3, Ranges DEF End
    <2> QED BY <2>1, <2>2, <2>3, <2>4 DEF Lasts
  <1>2. \A j, k \in Kept' :
          Settled(j)' /\ Settled(k)' /\ nodes'[j].handle = nodes'[k].handle => j = k
    <2> SUFFICES ASSUME NEW j \in Kept', NEW k \in Kept', Settled(j)', Settled(k)',
                        nodes'[j].handle = nodes'[k].handle
                 PROVE  j = k
      OBVIOUS
    <2>1. CASE j # m /\ k # m
      BY <1>1, <2>1 DEF BookInv
    <2> QED BY <1>1, <2>1
  <1>3. ASSUME NEW n \in Kept', Settled(n)'
        PROVE  /\ tcb'[nodes'[n].handle].state = "live" /\ tcb'[nodes'[n].handle].arg # End
               /\ nodes'[tcb'[nodes'[n].handle].arg].task = nodes'[n].task
    BY <1>1, <1>3
  <1> QED BY <1>2, <1>3 DEF BookInv

\* In particular by steps that make and free no node or block and create no task,
\* and whose call stays where it was as far as the book is concerned.
LEMMA BookKept ==
  ASSUME TypeOK, BookInv, Lasts, UNCHANGED <<made, nodes, freed>>,
         \A h \in Handles : Live(h) => tcb'[h] = tcb[h],
         \A P \in {Ending, Making}, d \in Handles : call'[d].pc \in P \/ call[d].pc \in P =>
           call'[d].pc \in P /\ call[d].pc \in P /\ call'[d].node = call[d].node
  PROVE  BookInv'
  <1>1. \A n : (Being(n, Ending)' <=> Being(n, Ending))
               /\ (Being(n, Making)' <=> Being(n, Making))
    BY BeingSame
  <1>2. Kept' = Kept /\ upset \subseteq upset'
    BY DEF Kept, Lasts
  <1>3. \A n : Settled(n)' => Settled(n)
    BY <1>1, <1>2 DEF Settled
  <1>4. \A n \in Kept : Settled(n) => tcb'[nodes[n].handle] = tcb[nodes[n].handle]
    BY KeptFacts DEF BookInv, Settled, Live
  <1>5. PICK m : m \notin Kept
    BY <1>2, KeptFacts DEF Kept
  <1> QED BY <1>1, <1>2, <1>3, <1>4, <1>5, BookIf DEF BookInv

\* The book is kept.
LEMMA BookStep ==
  ASSUME RInv, [Next]_vars
  PROVE  BookInv'
  <1> USE RtosAssumption
  <1>0. TypeOK /\ MadeInv /\ CallInv /\ MutInv /\ FoundInv /\ OneCallInv /\ BookInv /\ Lasts
    BY LastsStep DEF RInv
  <1>1. ASSUME NEW t \in Tasks, BootStart(t)
        PROVE  BookInv'
    <2>0. PICK m : m = made + 1
      OBVIOUS
    <2>1. PICK h \in Handles \cup {Null} :
            /\ ~running /\ made' = made + 1 /\ UNCHANGED <<call, freed>>
            /\ nodes'[m].task = t /\ nodes'[m].handle = h
            /\ \A n \in 1..made : nodes'[n] = nodes[n]
            /\ h = Null => upset' = upset \cup {t} /\ tcb' = tcb
            /\ h # Null => /\ upset' = upset /\ tcb[h].state = "free"
                           /\ tcb'[h].state = "live" /\ tcb'[h].arg = m
                           /\ \A g \in Handles \ {h} : tcb'[g] = tcb[g]
      BY <1>0, <1>1, <2>0, BootDoes
    <2>2. \A n : ~Being(n, Ending)' /\ ~Being(n, Ending)
      BY <1>0, <2>1 DEF CallInv, Being, Ending, Unhooking
    <2>3. Kept' = Kept \cup {m} /\ m # End /\ m \notin Kept
      <3>1. freed \subseteq 1..made /\ made \in Nat
        BY <1>0, Ranges
      <3> QED BY <2>0, <2>1, <3>1 DEF Kept, End
    <2>4. \A g \in Handles : Live(g) => tcb'[g] = tcb[g]
      BY <2>1 DEF Live
    <2>5. \A n \in Kept' : n # m /\ Settled(n)' =>
            /\ n \in Kept /\ Settled(n) /\ nodes'[n].handle = nodes[n].handle
            /\ tcb'[nodes[n].handle] = tcb[nodes[n].handle]
      BY <1>0, <2>1, <2>2, <2>3, <2>4, KeptFacts DEF BookInv, Settled, Lasts, Live
    <2>6. Settled(m)' =>
            /\ tcb[nodes'[m].handle].state # "live" /\ tcb'[nodes'[m].handle].state = "live"
            /\ tcb'[nodes'[m].handle].arg = m /\ m # End
      BY <1>0, <2>1, <2>3 DEF Settled
    <2>7. \A n \in Kept' : nodes'[n].handle = Null => nodes'[n].task \in upset'
      <3>1. ~\E n : Being(n, Making)
        BY <1>0, <2>1 DEF CallInv, Being, Making
      <3>2. \A n \in Kept : nodes[n].handle = Null => nodes[n].task \in upset
        BY <1>0, <3>1 DEF BookInv
      <3>3. upset \subseteq upset' /\ \A n \in Kept : nodes'[n] = nodes[n]
        BY <1>0, <2>1, KeptFacts DEF Lasts
      <3>4. h = Null => t \in upset'
        BY <2>1
      <3> QED BY <2>1, <2>3, <3>2, <3>3, <3>4
    <2> QED BY <1>0, <2>5, <2>6, <2>7, BookIf
  <1>2. ASSUME NEW c \in Handles, NEW t \in Tasks, TaskStart(c, t)
        PROVE  BookInv'
    BY <1>0, <1>2, StartDoes, KeptFacts, BookKept DEF Others, Live, Making, Ending,
       Unhooking, NoCall
  <1>3. ASSUME NEW c \in Handles, TaskReturns(c) \/ \E t \in Tasks : TaskStop(c, t)
        PROVE  BookInv'
    BY <1>0, <1>3, LooksDoes, KeptFacts, BookKept DEF Others, Live, Making, Ending,
       Unhooking, NoCall
  <1>4. ASSUME NEW c \in Handles, Pend(c)
        PROVE  BookInv'
    BY <1>0, <1>4, PendDoes, KeptFacts, BookKept DEF Others, Live, Making, Ending,
       Unhooking, NoCall
  <1>5. ASSUME NEW c \in Handles, Push(c)
        PROVE  BookInv'
    <2>0. PICK m : m = made + 1
      OBVIOUS
    <2>1. /\ made' = made + 1 /\ UNCHANGED <<tcb, freed, upset>> /\ Others(c)
          /\ call[c].pc = "push" /\ call'[c].pc = "link" /\ call'[c].node = m
          /\ nodes'[m].handle = Null
          /\ \A n \in 1..made : nodes'[n] = nodes[n]
      BY <1>0, <1>5, <2>0, PushDoes
    <2>2. Kept' = Kept \cup {m} /\ End \notin Kept'
      <3>1. freed \subseteq 1..made /\ made \in Nat
        BY <1>0, Ranges
      <3> QED BY <2>0, <2>1, <3>1 DEF Kept, End
    <2>3. \A n : Being(n, Ending)' <=> Being(n, Ending)
      BY <2>1, BeingSame DEF Others, Ending, Unhooking
    <2>4. \A n \in Kept' : Settled(n)' =>
            /\ n \in Kept /\ Settled(n) /\ nodes'[n].handle = nodes[n].handle
            /\ tcb'[nodes[n].handle] = tcb[nodes[n].handle]
      BY <1>0, <2>1, <2>2, <2>3, KeptFacts DEF BookInv, Settled, Live
    <2>5. \A n \in Kept' : nodes'[n].handle = Null =>
            nodes'[n].task \in upset' \/ Being(n, Making)'
      <3>1. Being(m, Making)'
        BY <2>1 DEF Being, Making, Others
      <3>2. \A n : Being(n, Making) => Being(n, Making)'
        BY <2>1 DEF Being, Making, Others
      <3>3. \A n \in Kept : nodes[n].handle = Null =>
              nodes[n].task \in upset \/ Being(n, Making)'
        BY <1>0, <3>2 DEF BookInv
      <3>4. \A n \in Kept : nodes'[n] = nodes[n]
        BY <1>0, <2>1, KeptFacts
      <3> QED BY <2>1, <2>2, <3>1, <3>3, <3>4
    <2> QED BY <1>0, <2>2, <2>4, <2>5, BookIf
  <1>6. ASSUME NEW c \in Handles, LinkLast(c)
        PROVE  BookInv'
    BY <1>0, <1>6, LinkLastDoes, KeptFacts, BookKept DEF Others, Live, Making, Ending,
       Unhooking, NoCall
  <1>7. ASSUME NEW c \in Handles, BecomesLast(c)
        PROVE  BookInv'
    BY <1>0, <1>7, BecomesLastDoes, KeptFacts, BookKept DEF Others, Live, Making, Ending,
       Unhooking, NoCall
  <1>8. ASSUME NEW c \in Handles, Create(c)
        PROVE  BookInv'
    <2>0. PICK back : back = prev[End]
      OBVIOUS
    <2>1. /\ back \in Kept /\ Kept' = Kept /\ Others(c) /\ call[c].pc = "create"
          /\ call'[c].pc = "post"
          /\ \A n \in 1..made : n # back => nodes'[n] = nodes[n]
          /\ back # call[c].node => call[c].task \in upset'
      BY <1>0, <1>8, <2>0, CreateDoes DEF Kept
    <2>2. PICK h \in Handles :
            /\ tcb[h].state = "free" /\ tcb'[h].state = "live" /\ tcb'[h].arg = back
            /\ \A g \in Handles \ {h} : tcb'[g] = tcb[g]
            /\ nodes'[back].task = nodes[back].task /\ nodes'[back].handle = h
      BY <1>0, <1>8, <2>0, CreateDoes
    <2>3. \A n : Being(n, Ending)' <=> Being(n, Ending)
      BY <2>1, BeingSame DEF Others, Ending, Unhooking
    <2>4. \A g \in Handles : Live(g) => tcb'[g] = tcb[g]
      BY <2>2 DEF Live
    <2>5. \A n \in Kept' : n # back /\ Settled(n)' =>
            /\ n \in Kept /\ Settled(n) /\ nodes'[n].handle = nodes[n].handle
            /\ tcb'[nodes[n].handle] = tcb[nodes[n].handle]
      BY <1>0, <2>1, <2>3, <2>4, KeptFacts DEF BookInv, Settled, Lasts, Live
    <2>6. Settled(back)' =>
            /\ tcb[nodes'[back].handle].state # "live" /\ tcb'[nodes'[back].handle].state = "live"
            /\ tcb'[nodes'[back].handle].arg = back /\ back # End
      <3>1. back # End
        BY <1>0, <2>1, KeptFacts DEF End
      <3> QED BY <2>2, <3>1
    <2>7. \A n \in Kept' : nodes'[n].handle = Null =>
            nodes'[n].task \in upset' \/ Being(n, Making)'
      <3> SUFFICES ASSUME NEW n \in Kept', nodes'[n].handle = Null,
                          nodes[n].task \notin upset
                   PROVE  nodes'[n].task \in upset'
        BY <1>0, <2>1, KeptFacts DEF Lasts
      <3>1. n # back /\ n \in 1..made
        BY <1>0, <2>1, <2>2, KeptFacts
      <3>2. PICK d \in Handles : call[d].pc \in Making /\ call[d].node = n
        BY <1>0, <2>1, <3>1 DEF BookInv, Being
      <3>3. d = c
        BY <1>0, <2>1, <3>2 DEF MutInv, Making, Holding, Starting, Hooking
      <3>4. nodes[n].task = call[c].task
        BY <1>0, <3>2, <3>3 DEF MutInv
      <3>5. call[c].task \in upset' /\ nodes'[n].task = nodes[n].task
        BY <2>1, <3>1, <3>2, <3>3
      <3> QED BY <3>4, <3>5
    <2> QED BY <1>0, <2>5, <2>6, <2>7, BookIf
  <1>9. ASSUME NEW c \in Handles, CreateFails(c)
        PROVE  BookInv'
    <2>1. /\ Kept' = Kept /\ UNCHANGED <<nodes, tcb>> /\ Others(c) /\ call[c].pc = "create"
          /\ call'[c].pc = "post" /\ upset' = upset \cup {call[c].task}
      BY <1>0, <1>9, CreateFailsDoes DEF Kept
    <2>2. \A n : Being(n, Ending)' <=> Being(n, Ending)
      BY <2>1, BeingSame DEF Others, Ending, Unhooking
    <2>3. \A n \in Kept' : Settled(n)' => Settled(n) /\ tcb'[nodes[n].handle] = tcb[nodes[n].handle]
      BY <1>0, <2>1, <2>2 DEF BookInv, Settled, Live
    <2>4. \A n \in Kept' : nodes'[n].handle = Null =>
            nodes'[n].task \in upset' \/ Being(n, Making)'
      BY <1>0, <2>1 DEF BookInv, MutInv, Being, Making, Others
    <2>5. End \notin Kept'
      BY <1>0, <2>1, KeptFacts DEF End
    <2> QED BY <1>0, <2>1, <2>3, <2>4, <2>5, BookIf
  <1>10. ASSUME NEW c \in Handles, Post(c)
        PROVE  BookInv'
    BY <1>0, <1>10, PostDoes, KeptFacts, BookKept DEF Others, Live, Making, Ending,
       Unhooking, NoCall
  <1>11. ASSUME NEW c \in Handles, Find(c)
        PROVE  BookInv'
    BY <1>0, <1>11, FindDoes, KeptFacts, BookKept DEF Others, Live, Making, Ending,
       Unhooking, NoCall
  <1>12. ASSUME NEW c \in Handles, FindsNothing(c)
        PROVE  BookInv'
    BY <1>0, <1>12, FindsNothingDoes, KeptFacts, BookKept DEF Others, Live, Making, Ending,
       Unhooking, NoCall
  <1>13. ASSUME NEW c \in Handles, DeletesItself(c)
        PROVE  BookInv'
    <2>1. /\ Kept' = Kept /\ UNCHANGED nodes /\ Others(c) /\ call[c].pc = "delete"
          /\ call'[c].pc = "none" /\ Loses(c, call[c].task)
          /\ \A h \in Handles \ {c} : tcb'[h] = tcb[h]
      BY <1>0, <1>13, DeletesItselfDoes DEF Kept, NoCall
    <2>2. \A n : Being(n, Ending)' <=> Being(n, Ending)
      BY <2>1, BeingSame DEF Others, Ending, Unhooking
    <2>6. \A n : Being(n, Making)' <=> Being(n, Making)
      BY <2>1, BeingSame DEF Others, Making
    <2>3. \A n \in Kept' : Settled(n)' => Settled(n) /\ tcb'[nodes[n].handle] = tcb[nodes[n].handle]
      <3> SUFFICES ASSUME NEW n \in Kept, Settled(n)'
                   PROVE  Settled(n) /\ tcb'[nodes[n].handle] = tcb[nodes[n].handle]
        BY <2>1
      <3>0. upset \subseteq upset'
        BY <1>0 DEF Lasts
      <3>1. Settled(n) /\ nodes[n].task \notin upset'
        BY <2>1, <2>2, <3>0 DEF Settled
      <3>2. nodes[n].task \in Tasks /\ call[c].task \in Tasks
        BY <1>0, <2>1, KeptFacts DEF MadeInv, CallInv
      <3>3. nodes[n].handle # c
        <4> SUFFICES ASSUME nodes[n].handle = c PROVE FALSE
          OBVIOUS
        <4>1. Runs(c) = nodes[n].task
          BY <1>0, <3>1 DEF BookInv, Runs
        <4> QED BY <2>1, <3>1, <3>2, <4>1 DEF Loses
      <3> QED BY <1>0, <2>1, <3>1, <3>3, KeptFacts DEF BookInv, Settled, Live
    <2>4. \A n \in Kept' : nodes'[n].handle = Null =>
            nodes'[n].task \in upset' \/ Being(n, Making)'
      BY <1>0, <2>1, <2>6 DEF BookInv, Lasts
    <2>5. End \notin Kept'
      BY <1>0, <2>1, KeptFacts DEF End
    <2> QED BY <1>0, <2>1, <2>3, <2>4, <2>5, BookIf
  <1>14. ASSUME NEW c \in Handles, Deletes(c)
        PROVE  BookInv'
    <2> DEFINE m == call[c].node
               v == nodes[call[c].node].handle
    <2>1. /\ Kept' = Kept /\ UNCHANGED nodes /\ call[c].pc = "delete" /\ call'[c].pc = "erase"
          /\ call'[c].node = m /\ v \in Handles \ {c} /\ Live(v) /\ Loses(v, call[c].task)
          /\ \A d \in Handles \ {c, v} : call'[d] = call[d]
          /\ \A h \in Handles \ {v} : tcb'[h] = tcb[h]
      BY <1>0, <1>14, DeletesDoes DEF Kept
    <2>2. /\ m \in Kept /\ nodes[m].task = call[c].task /\ call[c].task \in Tasks
          /\ nodes[m].handle = v
      <3>1. m \notin freed
        BY <1>0, <1>14, DeletesDoes
      <3> QED BY <1>0, <2>1, <3>1, Ranges DEF CallInv, FoundInv, Kept, End
    <2> HIDE DEF m, v
    <2>3. call[v].pc # "none" => call[v].task \in upset'
      BY <1>0, <2>1 DEF Loses, CallInv
    <2>4. \A n \in Kept' : Settled(n)' => Settled(n) /\ tcb'[nodes[n].handle] = tcb[nodes[n].handle]
      <3> SUFFICES ASSUME NEW n \in Kept, Settled(n)'
                   PROVE  Settled(n) /\ tcb'[nodes[n].handle] = tcb[nodes[n].handle]
        BY <2>1
      <3>1. /\ nodes[n].task \notin upset' /\ nodes[n].task \notin upset /\ n # m
            /\ nodes[n].handle # Null /\ nodes[n].task \in Tasks
        BY <1>0, <2>1, KeptFacts DEF Settled, Lasts, Being, Ending, MadeInv
      <3>2. ~Being(n, Ending)
        <4> SUFFICES ASSUME NEW d \in Handles, call[d].pc \in Ending, call[d].node = n
                     PROVE  FALSE
          BY DEF Being
        <4>1. d = v
          BY <2>1, <3>1 DEF Settled, Being, Ending, Unhooking
        <4> QED BY <1>0, <2>3, <3>1, <4>1 DEF FoundInv, Ending, Unhooking
      <3>3. Settled(n)
        BY <3>1, <3>2 DEF Settled
      <3>4. ASSUME nodes[n].handle = v PROVE FALSE
        <4>1. Runs(v) = nodes[n].task
          BY <1>0, <3>3, <3>4 DEF BookInv, Runs
        <4>2. nodes[n].task = call[c].task
          BY <2>1, <3>1, <4>1 DEF Loses
        <4>3. ~Being(m, Ending)
          BY <1>0, <2>1, <2>2, <3>1, <4>2
          DEF Being, FoundInv, OneCallInv, Ending, Unhooking
        <4> QED BY <1>0, <2>2, <3>1, <3>3, <3>4, <4>2, <4>3 DEF BookInv, Settled
      <3> QED BY <1>0, <2>1, <3>3, <3>4, KeptFacts DEF BookInv, Settled, Live
    <2>5. \A n \in Kept' : nodes'[n].handle = Null =>
            nodes'[n].task \in upset' \/ Being(n, Making)'
      <3> SUFFICES ASSUME NEW n \in Kept, nodes[n].handle = Null, nodes[n].task \notin upset,
                          NEW d \in Handles, call[d].pc \in Making, call[d].node = n
                   PROVE  nodes[n].task \in upset' \/ Being(n, Making)'
        BY <1>0, <2>1 DEF BookInv, Being, Lasts
      <3>1. CASE d = v
        BY <1>0, <2>3, <3>1 DEF MutInv, Making
      <3>2. CASE d # v
        BY <2>1, <3>2 DEF Being, Making
      <3> QED BY <3>1, <3>2
    <2>6. End \notin Kept'
      BY <1>0, <2>1, KeptFacts DEF End
    <2> QED BY <1>0, <2>1, <2>4, <2>5, <2>6, BookIf
  <1>15. ASSUME NEW c \in Handles, Erase(c)
        PROVE  BookInv'
    BY <1>0, <1>15, EraseDoes, KeptFacts, BookKept DEF Others, Live, Making, Ending,
       Unhooking, NoCall
  <1>16. ASSUME NEW c \in Handles, LinkOver(c)
        PROVE  BookInv'
    BY <1>0, <1>16, LinkOverDoes, KeptFacts, BookKept DEF Others, Live, Making, Ending,
       Unhooking, NoCall
  <1>17. ASSUME NEW c \in Handles, LinkBack(c)
        PROVE  BookInv'
    BY <1>0, <1>17, LinkBackDoes, KeptFacts, BookKept DEF Others, Live, Making, Ending,
       Unhooking, NoCall
  <1>18. ASSUME NEW c \in Handles, FreeNode(c)
        PROVE  BookInv'
    <2>1. /\ Kept' = Kept \ {call[c].node} /\ UNCHANGED <<nodes, tcb, upset>> /\ Others(c)
          /\ call[c].pc = "free" /\ call'[c].pc = "none"
      BY <1>0, <1>18, FreeNodeDoes DEF Kept, NoCall
    <2>2. \A n \in Kept' : Settled(n)' => Settled(n) /\ tcb'[nodes[n].handle] = tcb[nodes[n].handle]
      BY <1>0, <2>1 DEF BookInv, Settled, Live, Being, Others
    <2>3. \A n \in Kept' : nodes'[n].handle = Null =>
            nodes'[n].task \in upset' \/ Being(n, Making)'
      BY <1>0, <2>1 DEF BookInv, Being, Others, Making
    <2>4. End \notin Kept'
      BY <1>0, <2>1, KeptFacts DEF End
    <2> QED BY <1>0, <2>1, <2>2, <2>3, <2>4, BookIf
  <1>19. ASSUME NEW c \in Handles, UsesFreedNode(c) \/ DeletesNobody(c)
        PROVE  BookInv'
    BY <1>0, <1>19, FaultDoes, KeptFacts, BookKept DEF Others, Live, Making, Ending,
       Unhooking, NoCall
  <1>20. ASSUME vTaskStartScheduler \/ \E h \in Handles : IdleFrees(h)
        PROVE  BookInv'
    BY <1>0, <1>20, KernelDoes, KeptFacts, BookKept DEF Others, Live, Making, Ending,
       Unhooking, NoCall
  <1>21. CASE UNCHANGED vars
    BY <1>0, <1>21 DEF vars, list, history, BookInv, Settled, Being, Kept, Live, Runs
  <1> QED
    BY <1>1, <1>2, <1>3, <1>4, <1>5, <1>6, <1>7, <1>8, <1>9, <1>10, <1>11, <1>12, <1>13,
       <1>14, <1>15, <1>16, <1>17, <1>18, <1>19, <1>20, <1>21
    DEF Next, Continues

\* A task keeps its node when nodes and blocks stay, and no call turns to its end.
LEMMA NodeKept ==
  ASSUME TypeOK, NodeInv, Kept \subseteq Kept',
         \A n \in Kept : nodes'[n].handle = nodes[n].handle,
         \A h \in Handles : tcb'[h].state = "live" => tcb'[h] = tcb[h],
         \A d \in Handles : call'[d].pc \in Ending =>
           call[d].pc \in Ending /\ call'[d].node = call[d].node
  PROVE  NodeInv'
  <1>1. \A n : Being(n, Ending)' => Being(n, Ending)
    BY DEF Being
  <1>2. ASSUME NEW h \in Handles, tcb'[h].state = "live", tcb'[h].arg # End
        PROVE  /\ tcb'[h].arg \in Kept' /\ nodes'[tcb'[h].arg].handle = h
               /\ ~\E d \in Handles : call'[d].pc \in Ending /\ call'[d].node = tcb'[h].arg
    BY <1>2 DEF NodeInv, Being
  <1> QED BY <1>2 DEF NodeInv, Being

\* In calm, tasks keep their nodes.
LEMMA NodeStep ==
  ASSUME RInv, [Next]_vars, Calm'
  PROVE  NodeInv'
  <1> USE RtosAssumption
  <1>0. /\ TypeOK /\ MadeInv /\ CallInv /\ MutInv /\ FoundInv /\ OneCallInv /\ BookInv
        /\ NodeInv /\ ObjectInv /\ LinksInv /\ WalkInv /\ Lasts
        /\ upset = {} /\ upset' = {} /\ ~met /\ ~met'
    BY LastsStep DEF RInv, Calm, Lasts
  <1>1. ASSUME NEW t \in Tasks, BootStart(t)
        PROVE  NodeInv'
    <2>0. PICK m : m = made + 1
      OBVIOUS
    <2>1. PICK h \in Handles :
            /\ ~running /\ nodes'[m].handle = h /\ UNCHANGED <<freed, call>> /\ made' = m
            /\ \A n \in 1..made : nodes'[n] = nodes[n]
            /\ tcb'[h].arg = m /\ \A g \in Handles \ {h} : tcb'[g] = tcb[g]
      BY <1>0, <1>1, <2>0, BootDoes
    <2>2. Kept \subseteq Kept' /\ m \in Kept'
      BY <1>0, <2>0, <2>1, Ranges DEF Kept
    <2>3. \A d \in Handles : call'[d].pc = "none"
      BY <1>0, <2>1 DEF CallInv
    <2>4. \A n : ~Being(n, Ending)'
      BY <2>3 DEF Being, Ending, Unhooking
    <2>5. ASSUME NEW g \in Handles, tcb'[g].state = "live", tcb'[g].arg # End
          PROVE  tcb'[g].arg \in Kept' /\ nodes'[tcb'[g].arg].handle = g
      BY <1>0, <2>1, <2>2, <2>5, KeptFacts DEF NodeInv
    <2>6. ASSUME NEW g \in Handles PROVE ~Being(tcb[g].arg, Ending)'
      BY <2>3 DEF Being, Ending, Unhooking
    <2> QED BY <2>5, <2>6 DEF NodeInv
  <1>2. ASSUME NEW c \in Handles, NEW t \in Tasks, TaskStart(c, t)
        PROVE  NodeInv'
    BY <1>0, <1>2, StartDoes, KeptFacts, NodeKept DEF Others, Kept, Ending, Unhooking,
       NoCall
  <1>3. ASSUME NEW c \in Handles, TaskReturns(c) \/ \E t \in Tasks : TaskStop(c, t)
        PROVE  NodeInv'
    BY <1>0, <1>3, LooksDoes, KeptFacts, NodeKept DEF Others, Kept, Ending, Unhooking,
       NoCall
  <1>4. ASSUME NEW c \in Handles, Pend(c)
        PROVE  NodeInv'
    BY <1>0, <1>4, PendDoes, KeptFacts, NodeKept DEF Others, Kept, Ending, Unhooking,
       NoCall
  <1>5. ASSUME NEW c \in Handles, Push(c)
        PROVE  NodeInv'
    BY <1>0, <1>5, PushDoes, KeptFacts, NodeKept DEF Others, Kept, Ending, Unhooking,
       NoCall
  <1>6. ASSUME NEW c \in Handles, LinkLast(c)
        PROVE  NodeInv'
    BY <1>0, <1>6, LinkLastDoes, KeptFacts, NodeKept DEF Others, Kept, Ending, Unhooking,
       NoCall
  <1>7. ASSUME NEW c \in Handles, BecomesLast(c)
        PROVE  NodeInv'
    BY <1>0, <1>7, BecomesLastDoes, KeptFacts, NodeKept DEF Others, Kept, Ending,
       Unhooking, NoCall
  <1>8. ASSUME NEW c \in Handles, Create(c)
        PROVE  NodeInv'
    <2>0. PICK back : back = prev[End]
      OBVIOUS
    <2>1. PICK h \in Handles :
            /\ tcb'[h].arg = back /\ \A g \in Handles \ {h} : tcb'[g] = tcb[g]
            /\ nodes'[back].handle = h /\ \A n \in 1..made : n # back => nodes'[n] = nodes[n]
            /\ back \in Kept /\ call[c].pc = "create" /\ call'[c].pc = "post" /\ Others(c)
      BY <1>0, <1>8, <2>0, CreateDoes
    <2>2. Kept' = Kept
      BY <1>0, <1>8, CreateDoes DEF Kept
    <2>3. back = call[c].node
      BY <1>0, <1>8, <2>0, CreateDoes
    <2>4. nodes[back].handle = Null
      BY <1>0, <2>1, <2>3 DEF MutInv, Making
    <2>5. \A d \in Handles : call'[d].pc \in Ending => call[d].pc \in Ending /\ call'[d] = call[d]
      BY <2>1 DEF Others, Ending, Unhooking
    <2>6. \A d \in Handles : call[d].pc \in Ending => call[d].node # back
      BY <1>0, <2>4 DEF FoundInv
    <2>7. ASSUME NEW g \in Handles, tcb'[g].state = "live", tcb'[g].arg # End
          PROVE  /\ tcb'[g].arg \in Kept' /\ nodes'[tcb'[g].arg].handle = g
                 /\ ~\E d \in Handles : call'[d].pc \in Ending /\ call'[d].node = tcb'[g].arg
      <3>1. CASE g = h
        BY <2>1, <2>2, <2>5, <2>6, <3>1
      <3>2. CASE g # h
        <4>1. /\ tcb'[g] = tcb[g] /\ tcb[g].arg \in Kept /\ nodes[tcb[g].arg].handle = g
              /\ ~Being(tcb[g].arg, Ending)
          BY <1>0, <2>1, <2>7, <3>2 DEF NodeInv
        <4>2. tcb[g].arg # back /\ tcb[g].arg \in 1..made
          BY <1>0, <2>4, <4>1, KeptFacts
        <4> QED BY <2>1, <2>2, <2>5, <4>1, <4>2 DEF Being
      <3> QED BY <3>1, <3>2
    <2> QED BY <2>7 DEF NodeInv, Being
  <1>9. ASSUME NEW c \in Handles, CreateFails(c)
        PROVE  NodeInv'
    BY <1>0, <1>9, CreateFailsDoes, KeptFacts, NodeKept DEF Others, Kept, Ending,
       Unhooking, NoCall
  <1>10. ASSUME NEW c \in Handles, Post(c)
        PROVE  NodeInv'
    BY <1>0, <1>10, PostDoes, KeptFacts, NodeKept DEF Others, Kept, Ending, Unhooking,
       NoCall
  <1>11. ASSUME NEW c \in Handles, Find(c)
        PROVE  NodeInv'
    BY <1>0, <1>11, FindDoes, KeptFacts, NodeKept DEF Others, Kept, Ending, Unhooking,
       NoCall
  <1>12. ASSUME NEW c \in Handles, FindsNothing(c)
        PROVE  NodeInv'
    BY <1>0, <1>12, FindsNothingDoes, KeptFacts, NodeKept DEF Others, Kept, Ending,
       Unhooking, NoCall
  <1>13. ASSUME NEW c \in Handles, DeletesItself(c)
        PROVE  NodeInv'
    BY <1>0, <1>13, DeletesItselfDoes, KeptFacts, NodeKept DEF Others, Kept, Ending,
       Unhooking, NoCall
  <1>14. ASSUME NEW c \in Handles, Deletes(c)
        PROVE  NodeInv'
    <2>0. PICK m, v : m = call[c].node /\ v = nodes[m].handle
      OBVIOUS
    <2>1. /\ UNCHANGED <<made, freed, nodes>> /\ v \in Handles \ {c} /\ call'[v] = NoCall
          /\ call'[c].node = m /\ tcb'[v].state = "free"
          /\ \A d \in Handles \ {c, v} : call'[d] = call[d]
          /\ \A g \in Handles \ {v} : tcb'[g] = tcb[g]
      BY <1>0, <1>14, <2>0, DeletesDoes
    <2>2. \A d \in Handles : call'[d].pc \in Ending =>
            (call[d].pc \in Ending /\ call'[d] = call[d]) \/ call'[d].node = m
      BY <2>1 DEF NoCall, Ending, Unhooking
    <2>3. ASSUME NEW g \in Handles, tcb'[g].state = "live", tcb'[g].arg # End
          PROVE  /\ tcb'[g].arg \in Kept' /\ nodes'[tcb'[g].arg].handle = g
                 /\ ~\E d \in Handles : call'[d].pc \in Ending /\ call'[d].node = tcb'[g].arg
      <3>1. g # v /\ tcb'[g] = tcb[g]
        BY <2>1, <2>3
      <3>2. /\ tcb[g].arg \in Kept /\ nodes[tcb[g].arg].handle = g
            /\ ~Being(tcb[g].arg, Ending)
        BY <1>0, <2>3, <3>1 DEF NodeInv
      <3>3. tcb[g].arg # m
        BY <2>0, <3>1, <3>2
      <3> QED BY <2>1, <2>2, <3>1, <3>2, <3>3 DEF Being, Kept
    <2> QED BY <2>3 DEF NodeInv, Being
  <1>15. ASSUME NEW c \in Handles, Erase(c)
        PROVE  NodeInv'
    BY <1>0, <1>15, EraseDoes, KeptFacts, NodeKept DEF Others, Kept, Ending, Unhooking,
       NoCall
  <1>16. ASSUME NEW c \in Handles, LinkOver(c)
        PROVE  NodeInv'
    BY <1>0, <1>16, LinkOverDoes, KeptFacts, NodeKept DEF Others, Kept, Ending, Unhooking,
       NoCall
  <1>17. ASSUME NEW c \in Handles, LinkBack(c)
        PROVE  NodeInv'
    BY <1>0, <1>17, LinkBackDoes, KeptFacts, NodeKept DEF Others, Kept, Ending, Unhooking,
       NoCall
  <1>18. ASSUME NEW c \in Handles, FreeNode(c)
        PROVE  NodeInv'
    <2>1. /\ freed' = freed \cup {call[c].node} /\ UNCHANGED <<made, nodes, tcb>> /\ Others(c)
          /\ call[c].pc = "free" /\ call'[c].pc = "none"
      BY <1>0, <1>18, FreeNodeDoes DEF NoCall
    <2>2. \A d \in Handles : call'[d].pc \in Ending => call[d].pc \in Ending /\ call'[d] = call[d]
      BY <2>1 DEF Others, Ending, Unhooking
    <2>3. ASSUME NEW g \in Handles, tcb[g].state = "live", tcb[g].arg # End
          PROVE  /\ tcb[g].arg \in Kept' /\ nodes[tcb[g].arg].handle = g
                 /\ ~\E d \in Handles : call'[d].pc \in Ending /\ call'[d].node = tcb[g].arg
      <3>1. /\ tcb[g].arg \in Kept /\ nodes[tcb[g].arg].handle = g
            /\ ~Being(tcb[g].arg, Ending)
        BY <1>0, <2>3 DEF NodeInv
      <3>2. tcb[g].arg # call[c].node
        BY <2>1, <3>1 DEF Being, Ending
      <3> QED BY <2>1, <2>2, <3>1, <3>2 DEF Being, Kept
    <2> QED BY <2>1, <2>3 DEF NodeInv, Being
  <1>19. ASSUME NEW c \in Handles, UsesFreedNode(c) \/ DeletesNobody(c)
        PROVE  NodeInv'
    BY <1>0, <1>19, FaultDoes, KeptFacts, NodeKept DEF Others, Kept, Ending, Unhooking,
       NoCall
  <1>20. ASSUME vTaskStartScheduler \/ \E h \in Handles : IdleFrees(h)
        PROVE  NodeInv'
    BY <1>0, <1>20, KernelDoes, KeptFacts, NodeKept DEF Others, Kept, Ending, Unhooking,
       NoCall
  <1>21. CASE UNCHANGED vars
    BY <1>0, <1>21 DEF vars, list, history, NodeInv, Being, Kept
  <1> QED
    BY <1>1, <1>2, <1>3, <1>4, <1>5, <1>6, <1>7, <1>8, <1>9, <1>10, <1>11, <1>12, <1>13,
       <1>14, <1>15, <1>16, <1>17, <1>18, <1>19, <1>20, <1>21
    DEF Next, Continues

\* Objects keep their nodes when no node is made, and none dies that has one.
LEMMA ObjectKept ==
  ASSUME TypeOK, ObjectInv, Kept' \subseteq Kept,
         \A n \in 1..made : nodes'[n].task = nodes[n].task,
         \A n \in Kept' : nodes[n].task \in alive',
         \A d \in Handles : call'[d].pc \in {"pend", "push"} =>
           /\ call[d].pc \in {"pend", "push"} /\ call'[d].task = call[d].task
           /\ call[d].task \in alive'
  PROVE  ObjectInv'
  BY KeptFacts DEF ObjectInv

\* In calm, an object has one node.
LEMMA ObjectStep ==
  ASSUME RInv, [Next]_vars, Calm'
  PROVE  ObjectInv'
  <1> USE RtosAssumption
  <1>0. /\ TypeOK /\ MadeInv /\ CallInv /\ MutInv /\ FoundInv /\ OneCallInv /\ BookInv
        /\ NodeInv /\ ObjectInv /\ LinksInv /\ WalkInv /\ Lasts
        /\ upset = {} /\ upset' = {} /\ ~met /\ ~met'
    BY LastsStep DEF RInv, Calm, Lasts
  <1>1. ASSUME NEW t \in Tasks, BootStart(t)
        PROVE  ObjectInv'
    BY <1>0, <1>1, BootDoes, KeptFacts, ObjectKept DEF Others, Kept, NoCall, Lasts,
       ObjectInv
  <1>2. ASSUME NEW c \in Handles, NEW t \in Tasks, TaskStart(c, t)
        PROVE  ObjectInv'
    BY <1>0, <1>2, StartDoes, KeptFacts, ObjectKept DEF Others, Kept, NoCall, Lasts,
       ObjectInv
  <1>3. ASSUME NEW c \in Handles, TaskReturns(c) \/ \E t \in Tasks : TaskStop(c, t)
        PROVE  ObjectInv'
    BY <1>0, <1>3, LooksDoes, KeptFacts, ObjectKept DEF Others, Kept, NoCall, Lasts,
       ObjectInv
  <1>4. ASSUME NEW c \in Handles, Pend(c)
        PROVE  ObjectInv'
    BY <1>0, <1>4, PendDoes, KeptFacts, ObjectKept DEF Others, Kept, NoCall, Lasts,
       ObjectInv
  <1>5. ASSUME NEW c \in Handles, Push(c)
        PROVE  ObjectInv'
    <2>0. PICK m, t : m = made + 1 /\ t = call[c].task
      OBVIOUS
    <2>1. /\ nodes'[m].task = t /\ \A n \in 1..made : nodes'[n] = nodes[n]
          /\ made' = m /\ UNCHANGED <<freed, alive>> /\ Others(c)
          /\ call[c].pc = "push" /\ call'[c].pc = "link"
      BY <1>0, <1>5, <2>0, PushDoes
    <2>2. Kept' \subseteq Kept \cup {m}
      BY <1>0, <2>0, <2>1, Ranges DEF Kept
    <2>3. t \in alive /\ \A n \in Kept : nodes[n].task # t
      BY <1>0, <2>0, <2>1 DEF ObjectInv
    <2>4. ASSUME NEW d \in Handles, call'[d].pc \in {"pend", "push"}
          PROVE  call'[d] = call[d] /\ call[d].task # t
      BY <1>0, <2>0, <2>1, <2>4 DEF OneCallInv, Others
    <2>5. \A n \in Kept : nodes'[n] = nodes[n]
      BY <1>0, <2>1, KeptFacts
    <2> QED BY <1>0, <2>1, <2>2, <2>3, <2>4, <2>5 DEF ObjectInv
  <1>6. ASSUME NEW c \in Handles, LinkLast(c)
        PROVE  ObjectInv'
    BY <1>0, <1>6, LinkLastDoes, KeptFacts, ObjectKept DEF Others, Kept, NoCall, Lasts,
       ObjectInv
  <1>7. ASSUME NEW c \in Handles, BecomesLast(c)
        PROVE  ObjectInv'
    BY <1>0, <1>7, BecomesLastDoes, KeptFacts, ObjectKept DEF Others, Kept, NoCall, Lasts,
       ObjectInv
  <1>8. ASSUME NEW c \in Handles, Create(c)
        PROVE  ObjectInv'
    BY <1>0, <1>8, CreateDoes, KeptFacts, ObjectKept DEF Others, Kept, NoCall, Lasts,
       ObjectInv
  <1>9. ASSUME NEW c \in Handles, CreateFails(c)
        PROVE  ObjectInv'
    BY <1>0, <1>9, CreateFailsDoes, KeptFacts, ObjectKept DEF Others, Kept, NoCall, Lasts,
       ObjectInv
  <1>10. ASSUME NEW c \in Handles, Post(c)
        PROVE  ObjectInv'
    BY <1>0, <1>10, PostDoes, KeptFacts, ObjectKept DEF Others, Kept, NoCall, Lasts,
       ObjectInv
  <1>11. ASSUME NEW c \in Handles, Find(c)
        PROVE  ObjectInv'
    BY <1>0, <1>11, FindDoes, KeptFacts, ObjectKept DEF Others, Kept, NoCall, Lasts,
       ObjectInv
  <1>12. ASSUME NEW c \in Handles, FindsNothing(c)
        PROVE  ObjectInv'
    <2>1. /\ call[c].pc = "find" /\ call[c].node = End /\ call'[c] = NoCall /\ Others(c)
          /\ alive' \in {alive, alive \ {call[c].task}} /\ UNCHANGED <<made, nodes, freed>>
      BY <1>0, <1>12, FindsNothingDoes
    <2>2. ASSUME NEW n \in Kept, nodes[n].task = call[c].task PROVE n \in Ahead
      <3> SUFFICES ASSUME NEW d \in Handles, call[d].pc \in {"link", "relink", "free"},
                          call[d].node = n
                   PROVE  FALSE
        BY DEF Ahead, Being
      <3>1. call[d].task = call[c].task
        BY <1>0, <2>2 DEF MutInv, FoundInv, Making, Ending, Unhooking
      <3> QED BY <1>0, <2>1, <3>1 DEF OneCallInv
    <2>3. \A n \in Kept : nodes[n].task \in alive'
      BY <1>0, <2>1, <2>2 DEF WalkInv, ObjectInv
    <2>4. \A d \in Handles : call'[d].pc \in {"pend", "push"} =>
            call'[d] = call[d] /\ call[d].task \in alive'
      BY <1>0, <2>1 DEF OneCallInv, ObjectInv, Others, NoCall
    <2> QED BY <1>0, <2>1, <2>3, <2>4, ObjectKept DEF Kept
  <1>13. ASSUME NEW c \in Handles, DeletesItself(c)
        PROVE  ObjectInv'
    BY <1>0, <1>13, DeletesItselfDoes, KeptFacts, ObjectKept DEF Others, Kept, NoCall,
       Lasts, ObjectInv
  <1>14. ASSUME NEW c \in Handles, Deletes(c)
        PROVE  ObjectInv'
    BY <1>0, <1>14, DeletesDoes, KeptFacts, ObjectKept DEF Others, Kept, NoCall, Lasts,
       ObjectInv
  <1>15. ASSUME NEW c \in Handles, Erase(c)
        PROVE  ObjectInv'
    BY <1>0, <1>15, EraseDoes, KeptFacts, ObjectKept DEF Others, Kept, NoCall, Lasts,
       ObjectInv
  <1>16. ASSUME NEW c \in Handles, LinkOver(c)
        PROVE  ObjectInv'
    BY <1>0, <1>16, LinkOverDoes, KeptFacts, ObjectKept DEF Others, Kept, NoCall, Lasts,
       ObjectInv
  <1>17. ASSUME NEW c \in Handles, LinkBack(c)
        PROVE  ObjectInv'
    BY <1>0, <1>17, LinkBackDoes, KeptFacts, ObjectKept DEF Others, Kept, NoCall, Lasts,
       ObjectInv
  <1>18. ASSUME NEW c \in Handles, FreeNode(c)
        PROVE  ObjectInv'
    <2>1. /\ call[c].pc = "free" /\ call'[c] = NoCall /\ Others(c)
          /\ freed' = freed \cup {call[c].node}
          /\ alive' \in {alive, alive \ {call[c].task}} /\ UNCHANGED <<made, nodes>>
      BY <1>0, <1>18, FreeNodeDoes
    <2>2. call[c].node \in Kept /\ nodes[call[c].node].task = call[c].task
      BY <1>0, <2>1 DEF WalkInv, FoundInv, Ending
    <2>3. \A n \in Kept' : n \in Kept /\ nodes[n].task \in alive'
      BY <1>0, <2>1, <2>2 DEF ObjectInv, Kept
    <2>4. \A d \in Handles : call'[d].pc \in {"pend", "push"} =>
            call'[d] = call[d] /\ call[d].task \in alive'
      BY <1>0, <2>1 DEF OneCallInv, ObjectInv, Others, NoCall
    <2> QED BY <1>0, <2>1, <2>3, <2>4, ObjectKept
  <1>19. ASSUME NEW c \in Handles, UsesFreedNode(c) \/ DeletesNobody(c)
        PROVE  ObjectInv'
    BY <1>0, <1>19, FaultDoes, KeptFacts, ObjectKept DEF Others, Kept, NoCall, Lasts,
       ObjectInv
  <1>20. ASSUME vTaskStartScheduler \/ \E h \in Handles : IdleFrees(h)
        PROVE  ObjectInv'
    BY <1>0, <1>20, KernelDoes, KeptFacts, ObjectKept DEF Others, Kept, NoCall, Lasts,
       ObjectInv
  <1>21. CASE UNCHANGED vars
    BY <1>0, <1>21 DEF vars, list, history, ObjectInv, Kept
  <1> QED
    BY <1>1, <1>2, <1>3, <1>4, <1>5, <1>6, <1>7, <1>8, <1>9, <1>10, <1>11, <1>12, <1>13,
       <1>14, <1>15, <1>16, <1>17, <1>18, <1>19, <1>20, <1>21
    DEF Next, Continues

\* What writing the links of a new last node m after node p makes of S.
LEMMA HookSets ==
  ASSUME NEW S \in SUBSET (Nat \ {End}), NEW m \in Nat \ {End}, \A k \in S : k < m,
         NEW p, IsLast(p, S)
  PROVE  /\ Follows(m, p, S \cup {m}) /\ Follows(End, m, S \cup {m})
         /\ \A n \in S \cup {End} : \A x : n # p /\ Follows(x, n, S) => Follows(x, n, S \cup {m})
         /\ Precedes(p, m, S \cup {m}) /\ IsLast(m, S \cup {m})
         /\ \A n \in S : \A x : Precedes(x, n, S) => Precedes(x, n, S \cup {m})
  <1>1. p \in Nat /\ p < m /\ End \in Nat /\ ~(m < m) /\ m <= m
    BY DEF IsLast, End
  <1>2. Follows(m, p, S \cup {m}) /\ Follows(End, m, S \cup {m})
    BY <1>1 DEF Follows, IsLast
  <1>3. Precedes(p, m, S \cup {m}) /\ IsLast(m, S \cup {m})
    BY <1>1 DEF Precedes, IsLast
  <1>4. ASSUME NEW n \in S \cup {End}, NEW x, n # p, Follows(x, n, S)
        PROVE  Follows(x, n, S \cup {m})
    <2>1. n < p /\ p \in S
      BY <1>1, <1>4 DEF IsLast, End
    <2>2. x # End /\ x \in S /\ x < m /\ n < x
      BY <1>4, <2>1 DEF Follows
    <2> QED BY <1>4, <2>2 DEF Follows
  <1>5. ASSUME NEW n \in S, NEW x, Precedes(x, n, S)
        PROVE  Precedes(x, n, S \cup {m})
    BY <1>5 DEF Precedes
  <1> QED BY <1>2, <1>3, <1>4, <1>5

\* What writing the links of a node x between b and a makes of S without it.
LEMMA UnhookSets ==
  ASSUME NEW S \in SUBSET (Nat \ {End}), NEW x \in S, NEW a, NEW b,
         Precedes(b, x, S), Follows(a, x, S \ {x})
  PROVE  /\ b \in (S \cup {End}) \ {x} /\ a \in (S \cup {End}) \ {x}
         /\ Follows(a, b, S \ {x})
         /\ \A n \in S \cup {End} : \A y : n \notin {b, x} /\ Follows(y, n, S) => Follows(y, n, S \ {x})
         /\ a # End => Precedes(b, a, S \ {x})
         /\ \A n \in S : \A y : n \notin {a, x} /\ Precedes(y, n, S) => Precedes(y, n, S \ {x})
         /\ a = End => IsLast(b, S \ {x})
         /\ \A y : a # End /\ IsLast(y, S) => IsLast(y, S \ {x})
  BY DEF Follows, Precedes, IsLast, End

\* The links are as they should be if what they are now, and what the calls
\* have read of them, is.
LEMMA LinksIf ==
  ASSUME NEW A, NEW B, NEW nx, NEW pv, Ahead' = A, Back' = B, next' = nx, prev' = pv,
         \A n \in A \cup {End} : Follows(nx[n], n, A),
         \A n \in B : Precedes(pv[n], n, B),
         IsLast(pv[End], B),
         \A d \in Handles : call'[d].pc \in Hooking => pv[call'[d].node] = pv[End],
         \A d \in Handles : call'[d].pc = "link" => nx[call'[d].node] = End,
         \A d \in Handles : \A x, a : call'[d].pc \in Unhooking /\ call'[d].node = x
                                  /\ call'[d].after = a =>
           /\ call'[d].before = pv[x] /\ Follows(a, x, A)
           /\ \A e \in Handles : call'[e].pc \notin Hooking
  PROVE  LinksInv'
  BY DEF LinksInv, Follows, Precedes, IsLast

\* The links stay right when no call takes a step in the list.
LEMMA LinksKept ==
  ASSUME LinksInv, UNCHANGED <<made, freed, next, prev>>,
         \A d \in Handles :
           \/ call[d].pc \in Hooking \cup Unhooking \cup {"free"}
           \/ call'[d].pc \in Hooking \cup Unhooking \cup {"free"}
           => call'[d] = call[d]
  PROVE  LinksInv'
  <1>1. Ahead' = Ahead
    <2>1. \A n : Being(n, {"link", "relink", "free"})' <=> Being(n, {"link", "relink", "free"})
      BY DEF Being, Hooking, Unhooking
    <2> QED BY <2>1 DEF Ahead, Kept
  <1>2. Back' = Back
    <2>1. \A n : Being(n, {"link", "last", "free"})' <=> Being(n, {"link", "last", "free"})
      BY DEF Being, Hooking, Unhooking
    <2> QED BY <2>1 DEF Back, Kept
  <1>3. \A d \in Handles : call'[d].pc \in Hooking \cup Unhooking => call'[d] = call[d]
    OBVIOUS
  <1>4. (\A e \in Handles : call[e].pc \notin Hooking) =>
          \A e \in Handles : call'[e].pc \notin Hooking
    BY <1>3
  <1>5. \A d \in Handles : call'[d].pc \in Hooking => prev[call'[d].node] = prev[End]
    BY <1>3 DEF LinksInv
  <1>6. \A d \in Handles : call'[d].pc = "link" => next[call'[d].node] = End
    BY <1>3 DEF LinksInv, Hooking
  <1>7. \A d \in Handles : \A x, a : call'[d].pc \in Unhooking /\ call'[d].node = x
                                  /\ call'[d].after = a =>
           /\ call'[d].before = prev[x] /\ Follows(a, x, Ahead)
           /\ \A e \in Handles : call'[e].pc \notin Hooking
    BY <1>3, <1>4 DEF LinksInv
  <1> QED BY <1>1, <1>2, <1>5, <1>6, <1>7, LinksIf DEF LinksInv

\* In calm, the links lead through the nodes.
LEMMA LinksStep ==
  ASSUME RInv, [Next]_vars, Calm'
  PROVE  LinksInv'
  <1> USE RtosAssumption
  <1>0. /\ TypeOK /\ MadeInv /\ CallInv /\ MutInv /\ FoundInv /\ OneCallInv /\ BookInv
        /\ NodeInv /\ ObjectInv /\ LinksInv /\ WalkInv /\ Lasts
        /\ upset = {} /\ upset' = {} /\ ~met /\ ~met'
    BY LastsStep DEF RInv, Calm, Lasts
  <1>1. ASSUME NEW t \in Tasks, BootStart(t)
        PROVE  LinksInv'
    <2>0. PICK m, p, A : m = made + 1 /\ p = prev[End] /\ A = Kept
      OBVIOUS
    <2>1. /\ ~running /\ made' = m /\ UNCHANGED <<freed, call>>
          /\ next'[p] = m /\ next'[m] = End /\ \A n \in 0..made : n # p => next'[n] = next[n]
          /\ prev'[m] = p /\ prev'[End] = m /\ \A n \in 1..made : prev'[n] = prev[n]
      BY <1>0, <1>1, <2>0, BootDoes
    <2>2. \A d \in Handles : call[d].pc = "none" /\ call'[d].pc = "none"
      BY <1>0, <2>1 DEF CallInv
    <2>3. /\ A \in SUBSET (Nat \ {End}) /\ m \in Nat \ {End} /\ \A k \in A : k < m
          /\ A \cup {End} \subseteq 0..made /\ A \subseteq 1..made /\ Kept' = A \cup {m}
      BY <1>0, <2>0, <2>1, Ranges DEF Kept, End
    <2>4. Ahead = A /\ Back = A /\ Ahead' = A \cup {m} /\ Back' = A \cup {m}
      BY <2>0, <2>2, <2>3 DEF Ahead, Back, Being
    <2>5. /\ \A n \in A \cup {End} : Follows(next[n], n, A)
          /\ \A n \in A : Precedes(prev[n], n, A)
          /\ IsLast(p, A)
      BY <1>0, <2>0, <2>4 DEF LinksInv
    <2>6. PICK nx, pv : nx = next' /\ pv = prev'
      OBVIOUS
    <2>7. \A n \in (A \cup {m}) \cup {End} : Follows(nx[n], n, A \cup {m})
      <3>1. /\ Follows(m, p, A \cup {m}) /\ Follows(End, m, A \cup {m})
            /\ \A n \in A \cup {End} : \A x :
                 n # p /\ Follows(x, n, A) => Follows(x, n, A \cup {m})
        BY <2>3, <2>5, HookSets
      <3> QED BY <2>1, <2>3, <2>5, <2>6, <3>1
    <2>8. /\ \A n \in A \cup {m} : Precedes(pv[n], n, A \cup {m})
          /\ IsLast(pv[End], A \cup {m})
      <3>1. /\ Precedes(p, m, A \cup {m}) /\ IsLast(m, A \cup {m})
            /\ \A n \in A : \A x : Precedes(x, n, A) => Precedes(x, n, A \cup {m})
        BY <2>3, <2>5, HookSets
      <3>2. pv[m] = p /\ pv[End] = m /\ \A n \in A : pv[n] = prev[n]
        BY <2>1, <2>3, <2>6
      <3> QED BY <2>5, <3>1, <3>2
    <2> QED BY <2>2, <2>4, <2>6, <2>7, <2>8, LinksIf DEF Hooking, Unhooking
  <1>2. ASSUME NEW c \in Handles, NEW t \in Tasks, TaskStart(c, t)
        PROVE  LinksInv'
    BY <1>0, <1>2, StartDoes, LinksKept DEF Others, NoCall, Hooking, Unhooking, Loses,
       CallInv
  <1>3. ASSUME NEW c \in Handles, TaskReturns(c) \/ \E t \in Tasks : TaskStop(c, t)
        PROVE  LinksInv'
    BY <1>0, <1>3, LooksDoes, LinksKept DEF Others, NoCall, Hooking, Unhooking, Loses,
       CallInv
  <1>4. ASSUME NEW c \in Handles, Pend(c)
        PROVE  LinksInv'
    BY <1>0, <1>4, PendDoes, LinksKept DEF Others, NoCall, Hooking, Unhooking, Loses,
       CallInv
  <1>5. ASSUME NEW c \in Handles, Push(c)
        PROVE  LinksInv'
    <2>0. PICK m, A, B : m = made + 1 /\ A = Ahead /\ B = Back
      OBVIOUS
    <2>1. /\ call[c].pc = "push" /\ call'[c].pc = "link" /\ call'[c].node = m /\ Others(c)
          /\ made' = m /\ UNCHANGED freed
          /\ next'[m] = End /\ prev'[m] = prev[End]
          /\ \A n \in 0..made : next'[n] = next[n] /\ prev'[n] = prev[n]
      BY <1>0, <1>5, <2>0, PushDoes
    <2>2. \A d \in Handles : call[d].pc \notin Hooking \cup Unhooking
      <3>1. ~Meets(c, Unhooking)
        BY <1>0, <1>5, PushDoes
      <3>2. \A d \in Handles : call[d].pc \notin Unhooking
        BY <1>0, <2>1, <3>1 DEF Meets, CallInv, Unhooking
      <3>3. \A d \in Handles : call[d].pc \notin Hooking
        BY <1>0, <2>1 DEF MutInv, Holding, Starting, Hooking
      <3> QED BY <3>2, <3>3
    <2>3. /\ Kept' = Kept \cup {m} /\ m \notin 0..made /\ m # End
          /\ Kept \cup {End} \subseteq 0..made /\ End \in 0..made
      BY <1>0, <2>0, <2>1, Ranges DEF Kept, End
    <2>4. Ahead' = A
      <3>1. \A n \in Kept : Being(n, {"link", "relink", "free"})'
                            <=> Being(n, {"link", "relink", "free"})
        BY <2>1, <2>3 DEF Being, Others
      <3>2. Being(m, {"link", "relink", "free"})'
        BY <2>1 DEF Being
      <3> QED BY <2>0, <2>3, <3>1, <3>2 DEF Ahead
    <2>5. Back' = B
      <3>1. \A n \in Kept : Being(n, {"link", "last", "free"})'
                            <=> Being(n, {"link", "last", "free"})
        BY <2>1, <2>3 DEF Being, Others
      <3>2. Being(m, {"link", "last", "free"})'
        BY <2>1 DEF Being
      <3> QED BY <2>0, <2>3, <3>1, <3>2 DEF Back
    <2>6. PICK nx, pv : nx = next' /\ pv = prev'
      OBVIOUS
    <2>7. A \cup {End} \subseteq 0..made /\ B \cup {End} \subseteq 0..made
      BY <2>0, <2>3 DEF Ahead, Back
    <2>8. /\ \A n \in A \cup {End} : Follows(nx[n], n, A)
          /\ \A n \in B : Precedes(pv[n], n, B)
          /\ IsLast(pv[End], B)
      BY <1>0, <2>0, <2>1, <2>6, <2>7 DEF LinksInv
    <2>9. /\ \A d \in Handles : call'[d].pc \notin Unhooking
          /\ \A d \in Handles : call'[d].pc \in Hooking => d = c
      BY <2>1, <2>2 DEF Others, Unhooking
    <2>10. pv[m] = pv[End] /\ nx[m] = End
      BY <2>1, <2>3, <2>6
    <2> QED BY <2>1, <2>4, <2>5, <2>6, <2>8, <2>9, <2>10, LinksIf DEF Hooking
  <1>6. ASSUME NEW c \in Handles, LinkLast(c)
        PROVE  LinksInv'
    <2>0. PICK m, p, A, B : m = call[c].node /\ p = prev[End] /\ A = Ahead /\ B = Back
      OBVIOUS
    <2>1. /\ call[c].pc = "link" /\ call'[c].pc = "last" /\ call'[c].node = m /\ Others(c)
          /\ UNCHANGED <<made, freed, prev>> /\ prev[m] = p /\ next[m] = End
      BY <1>0, <1>6, <2>0, LinkLastDoes DEF LinksInv, Hooking
    <2>2. next'[p] = m /\ \A n \in 0..made : n # p => next'[n] = next[n]
      BY <1>0, <1>6, <2>0, <2>1, LinkLastDoes
    <2>3. /\ \A d \in Handles : call[d].pc \in Hooking => d = c
          /\ \A d \in Handles : call[d].pc \notin Unhooking
      BY <1>0, <2>1 DEF MutInv, LinksInv, Holding, Starting, Hooking
    <2>4. m = made /\ m \in Kept /\ \A n \in Kept : n # m => n < m
      <3>1. m = made /\ made \notin freed /\ m # End
        BY <1>0, <2>0, <2>1 DEF MutInv, CallInv, Making
      <3> QED BY <1>0, <3>1, Ranges DEF Kept, End
    <2>5. Kept' = Kept /\ A = B /\ m \notin A /\ Ahead' = A \cup {m} /\ Back' = B
      <3>1. Kept' = Kept
        BY <2>1 DEF Kept
      <3>2. \A n \in Kept : /\ Being(n, {"link", "relink", "free"}) <=> n = m \/ Being(n, {"free"})
                            /\ Being(n, {"link", "last", "free"}) <=> n = m \/ Being(n, {"free"})
        BY <2>0, <2>1, <2>3 DEF Being, Hooking, Unhooking
      <3>3. \A n \in Kept : Being(n, {"link", "last", "free"})' <=> n = m \/ Being(n, {"free"})
        BY <2>1, <2>3 DEF Being, Hooking, Unhooking, Others
      <3>4. \A n \in Kept : Being(n, {"link", "relink", "free"})' <=> Being(n, {"free"})
        BY <2>1, <2>3 DEF Being, Hooking, Unhooking, Others
      <3>5. ~Being(m, {"free"})
        BY <1>0, <2>0, <2>1, <2>4 DEF Being, MutInv, FoundInv, Making, Ending
      <3> QED BY <2>0, <2>4, <3>1, <3>2, <3>3, <3>4, <3>5 DEF Ahead, Back
    <2>6. /\ A \in SUBSET (Nat \ {End}) /\ m \in Nat \ {End} /\ \A k \in A : k < m
          /\ A \cup {End} \subseteq 0..made /\ m \in 0..made
      BY <1>0, <2>0, <2>4, <2>5, KeptFacts DEF Ahead, End
    <2>7. /\ \A n \in A \cup {End} : Follows(next[n], n, A)
          /\ \A n \in B : Precedes(prev[n], n, B)
          /\ IsLast(p, B)
      BY <1>0, <2>0 DEF LinksInv
    <2>8. PICK nx, pv : nx = next' /\ pv = prev'
      OBVIOUS
    <2>9. \A n \in (A \cup {m}) \cup {End} : Follows(nx[n], n, A \cup {m})
      <3>1. p # m
        BY <2>5, <2>6, <2>7 DEF IsLast
      <3>2. /\ Follows(m, p, A \cup {m}) /\ Follows(End, m, A \cup {m})
            /\ \A n \in A \cup {End} : \A x :
                 n # p /\ Follows(x, n, A) => Follows(x, n, A \cup {m})
        BY <2>5, <2>6, <2>7, HookSets
      <3>3. nx[m] = End
        BY <2>1, <2>2, <2>6, <2>8, <3>1
      <3> QED BY <2>2, <2>6, <2>7, <2>8, <3>1, <3>2, <3>3
    <2>10. /\ \A n \in B : Precedes(pv[n], n, B)
           /\ IsLast(pv[End], B) /\ pv[m] = pv[End]
      BY <2>0, <2>1, <2>7, <2>8
    <2>11. /\ \A d \in Handles : call'[d].pc \notin Unhooking
           /\ \A d \in Handles : call'[d].pc \in Hooking => d = c
      BY <2>1, <2>3 DEF Others, Unhooking
    <2> QED BY <2>1, <2>5, <2>8, <2>9, <2>10, <2>11, LinksIf DEF Hooking
  <1>7. ASSUME NEW c \in Handles, BecomesLast(c)
        PROVE  LinksInv'
    <2>0. PICK m, p, A, B : m = call[c].node /\ p = prev[End] /\ A = Ahead /\ B = Back
      OBVIOUS
    <2>1. /\ call[c].pc = "last" /\ call'[c].pc = "create" /\ call'[c].node = m /\ Others(c)
          /\ UNCHANGED <<made, freed, next>> /\ prev[m] = p
          /\ prev'[End] = m /\ \A n \in 1..made : prev'[n] = prev[n]
      BY <1>0, <1>7, <2>0, BecomesLastDoes DEF LinksInv, Hooking
    <2>3. /\ \A d \in Handles : call[d].pc \in Hooking => d = c
          /\ \A d \in Handles : call[d].pc \notin Unhooking
      BY <1>0, <2>1 DEF MutInv, LinksInv, Holding, Starting, Hooking
    <2>4. m = made /\ m \in Kept /\ \A n \in Kept : n # m => n < m
      <3>1. m = made /\ made \notin freed /\ m # End
        BY <1>0, <2>0, <2>1 DEF MutInv, CallInv, Making
      <3> QED BY <1>0, <3>1, Ranges DEF Kept, End
    <2>5. Kept' = Kept /\ Ahead' = A /\ m \notin B /\ Back' = B \cup {m}
      <3>1. Kept' = Kept
        BY <2>1 DEF Kept
      <3>2. \A n \in Kept : Being(n, {"link", "last", "free"}) <=> n = m \/ Being(n, {"free"})
        BY <2>0, <2>1, <2>3 DEF Being, Hooking, Unhooking
      <3>3. \A n \in Kept : Being(n, {"link", "last", "free"})' <=> Being(n, {"free"})
        BY <2>1, <2>3 DEF Being, Hooking, Unhooking, Others
      <3>4. \A n \in Kept : Being(n, {"link", "relink", "free"})'
                            <=> Being(n, {"link", "relink", "free"})
        BY <2>1 DEF Being, Others
      <3>5. ~Being(m, {"free"})
        BY <1>0, <2>0, <2>1, <2>4 DEF Being, MutInv, FoundInv, Making, Ending
      <3> QED BY <2>0, <2>4, <3>1, <3>2, <3>3, <3>4, <3>5 DEF Ahead, Back
    <2>6. /\ B \in SUBSET (Nat \ {End}) /\ m \in Nat \ {End} /\ \A k \in B : k < m
          /\ B \subseteq 1..made /\ m \in 1..made
      BY <1>0, <2>0, <2>4, <2>5, KeptFacts DEF Back, End
    <2>7. /\ \A n \in A \cup {End} : Follows(next[n], n, A)
          /\ \A n \in B : Precedes(prev[n], n, B)
          /\ IsLast(p, B)
      BY <1>0, <2>0 DEF LinksInv
    <2>8. PICK nx, pv : nx = next' /\ pv = prev'
      OBVIOUS
    <2>9. /\ \A n \in B \cup {m} : Precedes(pv[n], n, B \cup {m})
          /\ IsLast(pv[End], B \cup {m})
      BY <2>1, <2>6, <2>7, <2>8, HookSets
    <2>10. \A n \in A \cup {End} : Follows(nx[n], n, A)
      BY <2>1, <2>7, <2>8
    <2>11. \A d \in Handles : call'[d].pc \notin Unhooking \cup Hooking
      BY <2>1, <2>3 DEF Others, Unhooking, Hooking
    <2> QED BY <2>1, <2>5, <2>8, <2>9, <2>10, <2>11, LinksIf DEF Hooking
  <1>8. ASSUME NEW c \in Handles, Create(c)
        PROVE  LinksInv'
    BY <1>0, <1>8, CreateDoes, LinksKept DEF Others, NoCall, Hooking, Unhooking, Loses,
       CallInv
  <1>9. ASSUME NEW c \in Handles, CreateFails(c)
        PROVE  LinksInv'
    BY <1>0, <1>9, CreateFailsDoes, LinksKept DEF Others, NoCall, Hooking, Unhooking,
       Loses, CallInv
  <1>10. ASSUME NEW c \in Handles, Post(c)
        PROVE  LinksInv'
    BY <1>0, <1>10, PostDoes, LinksKept DEF Others, NoCall, Hooking, Unhooking, Loses,
       CallInv
  <1>11. ASSUME NEW c \in Handles, Find(c)
        PROVE  LinksInv'
    BY <1>0, <1>11, FindDoes, LinksKept DEF Others, NoCall, Hooking, Unhooking, Loses,
       CallInv
  <1>12. ASSUME NEW c \in Handles, FindsNothing(c)
        PROVE  LinksInv'
    BY <1>0, <1>12, FindsNothingDoes, LinksKept DEF Others, NoCall, Hooking, Unhooking,
       Loses, CallInv
  <1>13. ASSUME NEW c \in Handles, DeletesItself(c)
        PROVE  LinksInv'
    BY <1>0, <1>13, DeletesItselfDoes, LinksKept DEF Others, NoCall, Hooking, Unhooking,
       Loses, CallInv
  <1>14. ASSUME NEW c \in Handles, Deletes(c)
        PROVE  LinksInv'
    BY <1>0, <1>14, DeletesDoes, LinksKept DEF Others, NoCall, Hooking, Unhooking, Loses,
       CallInv
  <1>15. ASSUME NEW c \in Handles, Erase(c)
        PROVE  LinksInv'
    <2>0. PICK x, A : x = call[c].node /\ A = Kept
      OBVIOUS
    <2>1. /\ call[c].pc = "erase" /\ call'[c].pc = "unlink" /\ call'[c].node = x /\ Others(c)
          /\ call'[c].before = prev[x] /\ call'[c].after = next[x]
          /\ UNCHANGED <<made, freed, next, prev>>
      BY <1>0, <1>15, <2>0, EraseDoes
    <2>2. \A d \in Handles : /\ call[d].pc \notin Hooking
                             /\ call[d].pc \in Unhooking \cup {"free"} => d = c
      <3>1. ~Meets(c, Hooking)
        BY <1>0, <1>15, EraseDoes
      <3>2. \A d \in Handles : call[d].pc \notin Hooking
        BY <1>0, <2>1, <3>1 DEF Meets, CallInv, Hooking
      <3>3. \A d \in Handles : call[d].pc \in Unhooking \cup {"free"} => d = c
        BY <1>0, <2>1 DEF WalkInv, Stopping
      <3> QED BY <3>2, <3>3
    <2>3. Ahead = A /\ Back = A /\ Ahead' = A /\ Back' = A
      <3>1. \A n, P : P \in {{"link", "relink", "free"}, {"link", "last", "free"}} =>
                        ~Being(n, P) /\ ~\E d \in Handles : call'[d].pc \in P /\ call'[d].node = n
        BY <2>1, <2>2 DEF Being, Hooking, Unhooking, Others
      <3>2. Kept' = A
        BY <2>0, <2>1 DEF Kept
      <3> QED BY <2>0, <3>1, <3>2 DEF Ahead, Back, Being
    <2>4. /\ \A n \in A \cup {End} : Follows(next[n], n, A)
          /\ \A n \in A : Precedes(prev[n], n, A)
          /\ IsLast(prev[End], A) /\ x \in A
      BY <1>0, <2>0, <2>1, <2>3 DEF LinksInv, WalkInv
    <2>5. PICK nx, pv : nx = next' /\ pv = prev'
      OBVIOUS
    <2>6. \A d \in Handles : /\ call'[d].pc \notin Hooking
                             /\ call'[d].pc \in Unhooking => d = c
      BY <2>1, <2>2 DEF Others, Hooking
    <2>7. /\ \A n \in A \cup {End} : Follows(nx[n], n, A)
          /\ \A n \in A : Precedes(pv[n], n, A)
          /\ IsLast(pv[End], A) /\ call'[c].before = pv[x] /\ call'[c].after = nx[x]
      BY <2>1, <2>4, <2>5
    <2> QED BY <2>1, <2>3, <2>4, <2>5, <2>6, <2>7, LinksIf DEF Hooking
  <1>16. ASSUME NEW c \in Handles, LinkOver(c)
        PROVE  LinksInv'
    <2>0. PICK x, a, b, S : /\ x = call[c].node /\ a = call[c].after /\ b = call[c].before
                            /\ S = Kept
      OBVIOUS
    <2>1. /\ call[c].pc = "unlink" /\ call'[c].pc = "relink" /\ call'[c].node = x /\ Others(c)
          /\ call'[c].before = b /\ call'[c].after = a /\ UNCHANGED <<made, freed, prev>>
          /\ next'[b] = a /\ \A n \in 0..made : n # b => next'[n] = next[n]
      BY <1>0, <1>16, <2>0, LinkOverDoes
    <2>2. \A d \in Handles : /\ call[d].pc \notin Hooking
                             /\ call[d].pc \in Unhooking \cup {"free"} => d = c
      BY <1>0, <2>1 DEF LinksInv, WalkInv, Stopping, Unhooking
    <2>3. x \in Kept /\ Ahead = S /\ Back = S /\ Ahead' = S \ {x} /\ Back' = S
      <3>1. \A n : ~Being(n, {"link", "relink", "free"}) /\ ~Being(n, {"link", "last", "free"})
        BY <2>1, <2>2 DEF Being, Hooking, Unhooking
      <3>2. \A n : ~Being(n, {"link", "last", "free"})'
        BY <2>1, <2>2 DEF Being, Hooking, Others
      <3>3. \A n : Being(n, {"link", "relink", "free"})' <=> n = x
        BY <2>1, <2>2 DEF Being, Hooking, Unhooking, Others
      <3>4. Kept' = S
        BY <2>0, <2>1 DEF Kept
      <3>5. x \in Kept
        BY <1>0, <2>0, <2>1 DEF WalkInv, Ending, Unhooking
      <3> QED BY <2>0, <3>1, <3>2, <3>3, <3>4, <3>5 DEF Ahead, Back
    <2>4. /\ \A n \in S \cup {End} : Follows(next[n], n, S)
          /\ \A n \in S : Precedes(prev[n], n, S)
          /\ IsLast(prev[End], S) /\ b = prev[x] /\ Follows(a, x, S)
      BY <1>0, <2>0, <2>1, <2>3 DEF LinksInv, Unhooking
    <2>5. S \in SUBSET (Nat \ {End}) /\ x \in S /\ S \cup {End} \subseteq 0..made
      BY <1>0, <2>0, <2>3, KeptFacts DEF End
    <2>6. Precedes(b, x, S) /\ Follows(a, x, S \ {x})
      BY <2>4, <2>5 DEF Follows
    <2>7. PICK nx, pv : nx = next' /\ pv = prev'
      OBVIOUS
    <2>8. \A n \in (S \ {x}) \cup {End} : Follows(nx[n], n, S \ {x})
      <3>1. Follows(a, b, S \ {x})
        BY <2>5, <2>6, UnhookSets
      <3>4. ASSUME NEW n \in S \cup {End}, NEW y, n \notin {b, x}, Follows(y, n, S)
            PROVE  Follows(y, n, S \ {x})
        BY <2>5, <2>6, <3>4, UnhookSets
      <3>2. nx[b] = a /\ \A n \in S \cup {End} : n # b => nx[n] = next[n]
        BY <2>1, <2>5, <2>7
      <3>3. End # x
        BY <2>5
      <3> QED BY <2>4, <3>1, <3>2, <3>3, <3>4
    <2>9. /\ \A n \in S : Precedes(pv[n], n, S)
          /\ IsLast(pv[End], S) /\ b = pv[x]
      BY <2>1, <2>4, <2>7
    <2>10. \A d \in Handles : /\ call'[d].pc \notin Hooking
                              /\ call'[d].pc \in Unhooking => d = c
      BY <2>1, <2>2 DEF Others, Hooking
    <2> QED BY <2>1, <2>3, <2>6, <2>7, <2>8, <2>9, <2>10, LinksIf DEF Hooking
  <1>17. ASSUME NEW c \in Handles, LinkBack(c)
        PROVE  LinksInv'
    <2>0. PICK x, a, b, S : /\ x = call[c].node /\ a = call[c].after /\ b = call[c].before
                            /\ S = Kept
      OBVIOUS
    <2>1. /\ call[c].pc = "relink" /\ call'[c].pc = "free" /\ call'[c].node = x /\ Others(c)
          /\ UNCHANGED <<made, freed, next>>
          /\ prev'[a] = b /\ \A n \in 0..made : n # a => prev'[n] = prev[n]
      BY <1>0, <1>17, <2>0, LinkBackDoes
    <2>2. \A d \in Handles : /\ call[d].pc \notin Hooking
                             /\ call[d].pc \in Unhooking \cup {"free"} => d = c
      BY <1>0, <2>1 DEF LinksInv, WalkInv, Stopping, Unhooking
    <2>3. /\ x \in Kept /\ Ahead = S \ {x} /\ Back = S
          /\ Ahead' = S \ {x} /\ Back' = S \ {x}
      <3>1. \A n : /\ Being(n, {"link", "relink", "free"}) <=> n = x
                   /\ ~Being(n, {"link", "last", "free"})
        BY <2>0, <2>1, <2>2 DEF Being, Hooking, Unhooking
      <3>2. \A n : Being(n, {"link", "last", "free"})' <=> n = x
        BY <2>1, <2>2 DEF Being, Hooking, Others
      <3>3. \A n : Being(n, {"link", "relink", "free"})' <=> n = x
        BY <2>1, <2>2 DEF Being, Hooking, Unhooking, Others
      <3>4. Kept' = S
        BY <2>0, <2>1 DEF Kept
      <3>5. x \in Kept
        BY <1>0, <2>0, <2>1 DEF WalkInv, Ending, Unhooking
      <3> QED BY <2>0, <3>1, <3>2, <3>3, <3>4, <3>5 DEF Ahead, Back
    <2>4. /\ \A n \in (S \ {x}) \cup {End} : Follows(next[n], n, S \ {x})
          /\ \A n \in S : Precedes(prev[n], n, S)
          /\ IsLast(prev[End], S) /\ b = prev[x] /\ Follows(a, x, S \ {x})
      BY <1>0, <2>0, <2>1, <2>3 DEF LinksInv, Unhooking
    <2>5. S \in SUBSET (Nat \ {End}) /\ x \in S /\ S \cup {End} \subseteq 0..made /\ End \in 0..made
      BY <1>0, <2>0, <2>3, KeptFacts DEF End
    <2>6. Precedes(b, x, S)
      BY <2>4, <2>5
    <2>7. PICK nx, pv : nx = next' /\ pv = prev'
      OBVIOUS
    <2>8. \A n \in S \ {x} : Precedes(pv[n], n, S \ {x})
      <3>1. /\ a # End => Precedes(b, a, S \ {x})
            /\ \A n \in S : \A y :
                 n \notin {a, x} /\ Precedes(y, n, S) => Precedes(y, n, S \ {x})
        BY <2>4, <2>5, <2>6, UnhookSets
      <3>2. pv[a] = b /\ \A n \in S : n # a => pv[n] = prev[n]
        BY <2>1, <2>5, <2>7
      <3>3. \A n \in S : n # End
        BY <2>5
      <3> QED BY <2>4, <3>1, <3>2, <3>3
    <2>9. IsLast(pv[End], S \ {x})
      <3>1. /\ a = End => IsLast(b, S \ {x})
            /\ \A y : a # End /\ IsLast(y, S) => IsLast(y, S \ {x})
        BY <2>4, <2>5, <2>6, UnhookSets
      <3>2. pv[a] = b /\ (a # End => pv[End] = prev[End])
        BY <2>1, <2>5, <2>7
      <3> QED BY <2>4, <3>1, <3>2
    <2>10. \A d \in Handles : call'[d].pc \notin Hooking \cup Unhooking
      BY <2>1, <2>2 DEF Others, Hooking, Unhooking
    <2> QED BY <2>1, <2>3, <2>4, <2>7, <2>8, <2>9, <2>10, LinksIf DEF Hooking
  <1>18. ASSUME NEW c \in Handles, FreeNode(c)
        PROVE  LinksInv'
    <2>0. PICK x, A, B : x = call[c].node /\ A = Ahead /\ B = Back
      OBVIOUS
    <2>1. /\ call[c].pc = "free" /\ call'[c].pc = "none" /\ Others(c)
          /\ freed' = freed \cup {x} /\ UNCHANGED <<made, next, prev>>
      BY <1>0, <1>18, <2>0, FreeNodeDoes DEF NoCall
    <2>2. /\ \A d \in Handles : call[d].pc \notin Unhooking
          /\ \A d \in Handles : call[d].pc = "free" => d = c
      BY <1>0, <2>1 DEF WalkInv, Stopping, Unhooking
    <2>3. Kept' = Kept \ {x}
      BY <2>1 DEF Kept
    <2>4. Ahead' = A /\ Back' = B
      <3>1. \A n, P : P \in {{"link", "relink", "free"}, {"link", "last", "free"}} =>
              (Being(n, P) <=> n = x \/ \E d \in Handles : call'[d].pc \in P /\ call'[d].node = n)
        BY <2>0, <2>1, <2>2 DEF Being, Others
      <3> QED BY <2>0, <2>3, <3>1 DEF Ahead, Back, Being
    <2>5. PICK nx, pv : nx = next' /\ pv = prev'
      OBVIOUS
    <2>6. /\ \A n \in A \cup {End} : Follows(nx[n], n, A)
          /\ \A n \in B : Precedes(pv[n], n, B)
          /\ IsLast(pv[End], B)
      BY <1>0, <2>0, <2>1, <2>5 DEF LinksInv
    <2>7. \A d \in Handles : /\ call'[d].pc \notin Unhooking
                             /\ call'[d].pc \in Hooking => call'[d] = call[d]
      BY <2>1, <2>2 DEF Others, Unhooking, Hooking
    <2>8. /\ \A d \in Handles : call'[d].pc \in Hooking => pv[call'[d].node] = pv[End]
          /\ \A d \in Handles : call'[d].pc = "link" => nx[call'[d].node] = End
      BY <1>0, <2>1, <2>5, <2>7 DEF LinksInv, Hooking
    <2> QED BY <2>4, <2>5, <2>6, <2>7, <2>8, LinksIf
  <1>19. ASSUME NEW c \in Handles, UsesFreedNode(c) \/ DeletesNobody(c)
        PROVE  LinksInv'
    BY <1>0, <1>19, FaultDoes, LinksKept DEF Others, NoCall, Hooking, Unhooking, Loses,
       CallInv
  <1>20. ASSUME vTaskStartScheduler \/ \E h \in Handles : IdleFrees(h)
        PROVE  LinksInv'
    BY <1>0, <1>20, KernelDoes, LinksKept DEF Others, NoCall, Hooking, Unhooking, Loses,
       CallInv
  <1>21. CASE UNCHANGED vars
    BY <1>0, <1>21, LinksKept DEF vars, list, history
  <1> QED
    BY <1>1, <1>2, <1>3, <1>4, <1>5, <1>6, <1>7, <1>8, <1>9, <1>10, <1>11, <1>12, <1>13,
       <1>14, <1>15, <1>16, <1>17, <1>18, <1>19, <1>20, <1>21
    DEF Next, Continues

\* The nodes the links lead to are the same when no call takes a step on them.
LEMMA AheadSame ==
  ASSUME UNCHANGED <<made, freed>>,
         \A d \in Handles :
           \/ call[d].pc \in {"link", "relink", "free"}
           \/ call'[d].pc \in {"link", "relink", "free"}
           => call'[d] = call[d]
  PROVE  Ahead' = Ahead /\ Kept' = Kept
  <1>1. \A n : Being(n, {"link", "relink", "free"})' <=> Being(n, {"link", "relink", "free"})
    BY DEF Being
  <1> QED BY <1>1 DEF Ahead, Kept

\* A stop is not disturbed by a step of another call, if that brings no new node
\* of its object.
LEMMA WalkKept ==
  ASSUME WalkInv, NEW A, NEW K, Ahead' = A, Kept' = K, Ahead \subseteq A, Kept \subseteq K,
         \A n \in Ahead : nodes'[n].task = nodes[n].task,
         \A d \in Handles : call'[d].pc \in Stopping =>
           call'[d] = call[d] /\ \A n \in A \ Ahead : nodes'[n].task # call[d].task
  PROVE  WalkInv'
  <1>1. \A d \in Handles : call'[d].pc \in {"find", "delete", "erase", "unlink"} \cup Ending =>
          /\ call'[d] = call[d]
          /\ \A n \in A : nodes'[n].task = call[d].task =>
               n \in Ahead /\ nodes[n].task = call[d].task
    BY DEF Stopping, Ending, Unhooking
  <1>2. \A d, e \in Handles : call'[d].pc \in Stopping /\ call'[e].pc \in Stopping => d = e
    BY DEF WalkInv
  <1> QED BY <1>1, <1>2 DEF WalkInv

\* Nor by a step of another call that does nothing to the list.
LEMMA WalkSame ==
  ASSUME TypeOK, WalkInv, Lasts, UNCHANGED <<made, freed>>,
         \A d \in Handles :
           \/ call[d].pc \in {"link", "relink", "free"}
           \/ call'[d].pc \in {"link", "relink", "free"} \cup Stopping
           => call'[d] = call[d]
  PROVE  WalkInv'
  <1>1. Ahead' = Ahead /\ Kept' = Kept
    BY AheadSame
  <1>2. \A n \in Ahead : n \in 1..made
    BY KeptFacts DEF Ahead
  <1>3. \A n \in Ahead : nodes'[n].task = nodes[n].task
    BY <1>2 DEF Lasts
  <1> QED BY <1>1, <1>3, WalkKept

\* When there is no other stop, it is this one's own walk that counts.
LEMMA WalkOne ==
  ASSUME NEW c \in Handles, NEW A, NEW K, NEW x, Ahead' = A, Kept' = K, call'[c].node = x,
         \A d \in Handles \ {c} : call'[d].pc \notin Stopping,
         call'[c].pc = "find" =>
           /\ x \in A \cup {End}
           /\ \A n \in A : nodes'[n].task = call'[c].task => x # End /\ x <= n,
         call'[c].pc \in {"delete", "erase", "unlink"} => x \in A,
         call'[c].pc \in Ending => x \in K /\ ~call'[c].ends
  PROVE  WalkInv'
  <1>1. \A d \in Handles : call'[d].pc \in {"find", "delete", "erase", "unlink"} \cup Ending =>
          d = c
    BY DEF Stopping, Ending, Unhooking
  <1>2. \A d, e \in Handles : call'[d].pc \in Stopping /\ call'[e].pc \in Stopping => d = e
    OBVIOUS
  <1> QED BY <1>1, <1>2 DEF WalkInv

\* In calm, a stop walks through nodes there are.
LEMMA WalkStep ==
  ASSUME RInv, [Next]_vars, Calm'
  PROVE  WalkInv'
  <1> USE RtosAssumption
  <1>0. /\ TypeOK /\ MadeInv /\ CallInv /\ MutInv /\ FoundInv /\ OneCallInv /\ BookInv
        /\ NodeInv /\ ObjectInv /\ LinksInv /\ WalkInv /\ Lasts
        /\ upset = {} /\ upset' = {} /\ ~met /\ ~met'
    BY LastsStep DEF RInv, Calm, Lasts
  <1>1. ASSUME NEW t \in Tasks, BootStart(t)
        PROVE  WalkInv'
    <2>1. ~running /\ UNCHANGED call
      BY <1>0, <1>1, BootDoes
    <2>2. \A d \in Handles : call'[d].pc = "none"
      BY <1>0, <2>1 DEF CallInv
    <2> QED BY <2>2 DEF WalkInv, Stopping, Ending, Unhooking
  <1>2. ASSUME NEW c \in Handles, NEW t \in Tasks, TaskStart(c, t)
        PROVE  WalkInv'
    BY <1>0, <1>2, StartDoes, WalkSame
    DEF Others, NoCall, Hooking, Stopping, Unhooking
  <1>3. ASSUME NEW c \in Handles, TaskReturns(c) \/ \E t \in Tasks : TaskStop(c, t)
        PROVE  WalkInv'
    <2>0. PICK x : x = next[End]
      OBVIOUS
    <2>1. /\ call[c].pc = "none" /\ call'[c].pc = "find" /\ call'[c].node = x /\ Others(c)
          /\ UNCHANGED <<made, freed, nodes>>
      BY <1>0, <1>3, <2>0, LooksDoes
    <2>2. ~Meets(c, Stopping)
      BY <1>0, <1>3, LooksDoes
    <2>3. \A d \in Handles \ {c} : call'[d].pc \notin Stopping
      BY <1>0, <2>1, <2>2 DEF Meets, Others, CallInv, Stopping, Unhooking
    <2>4. Ahead' = Ahead /\ Kept' = Kept
      BY <2>1, AheadSame DEF Others
    <2>5. x \in Ahead \cup {End} /\ \A n \in Ahead : End < n => x # End /\ x <= n
      BY <1>0, <2>0 DEF LinksInv, Follows
    <2>6. \A n \in Ahead : End < n
      BY <1>0, KeptFacts DEF Ahead, End
    <2> QED BY <2>1, <2>3, <2>4, <2>5, <2>6, WalkOne DEF Ending, Unhooking
  <1>4. ASSUME NEW c \in Handles, Pend(c)
        PROVE  WalkInv'
    BY <1>0, <1>4, PendDoes, WalkSame
    DEF Others, NoCall, Hooking, Stopping, Unhooking
  <1>5. ASSUME NEW c \in Handles, Push(c)
        PROVE  WalkInv'
    <2>0. PICK m, A, K : m = made + 1 /\ A = Ahead' /\ K = Kept'
      OBVIOUS
    <2>1. /\ call[c].pc = "push" /\ call'[c].pc = "link" /\ call'[c].node = m /\ Others(c)
          /\ nodes'[m].task = call[c].task /\ \A n \in 1..made : nodes'[n] = nodes[n]
          /\ made' = m /\ UNCHANGED freed
      BY <1>0, <1>5, <2>0, PushDoes
    <2>2. K = Kept \cup {m} /\ m \notin 1..made /\ Kept \subseteq 1..made
      <3>1. freed \subseteq 1..made /\ made \in Nat
        BY <1>0, Ranges
      <3> QED BY <2>0, <2>1, <3>1 DEF Kept
    <2>3. \A n \in Kept : Being(n, {"link", "relink", "free"})'
                          <=> Being(n, {"link", "relink", "free"})
      BY <2>1, <2>2 DEF Being, Others
    <2>4. Ahead \subseteq A /\ A \subseteq Ahead \cup {m}
      BY <2>0, <2>2, <2>3 DEF Ahead
    <2>5. \A n \in Ahead : nodes'[n].task = nodes[n].task
      BY <2>1, <2>2 DEF Ahead
    <2>6. \A d \in Handles : call'[d].pc \in Stopping =>
            call'[d] = call[d] /\ call[d].task # call[c].task
      BY <1>0, <2>1 DEF Others, Stopping, Unhooking, OneCallInv
    <2> QED BY <1>0, <2>0, <2>1, <2>2, <2>4, <2>5, <2>6, WalkKept
  <1>6. ASSUME NEW c \in Handles, LinkLast(c)
        PROVE  WalkInv'
    <2>0. PICK m, A, K : m = call[c].node /\ A = Ahead' /\ K = Kept'
      OBVIOUS
    <2>1. /\ call[c].pc = "link" /\ call'[c].pc = "last" /\ call'[c].node = m /\ Others(c)
          /\ UNCHANGED <<made, freed, nodes>>
      BY <1>0, <1>6, <2>0, LinkLastDoes
    <2>2. nodes[m].task = call[c].task
      BY <1>0, <2>0, <2>1 DEF MutInv, Making
    <2>3. K = Kept
      BY <2>0, <2>1 DEF Kept
    <2>4. \A n \in Kept : n # m => (Being(n, {"link", "relink", "free"})'
                                     <=> Being(n, {"link", "relink", "free"}))
      BY <2>0, <2>1 DEF Being, Others
    <2>5. ~Being(m, {"link", "relink", "free"}) => FALSE
      BY <2>0, <2>1 DEF Being
    <2>6. Ahead \subseteq A /\ A \subseteq Ahead \cup {m}
      BY <2>0, <2>3, <2>4, <2>5 DEF Ahead
    <2>7. \A d \in Handles : call'[d].pc \in Stopping =>
            call'[d] = call[d] /\ call[d].task # call[c].task
      BY <1>0, <2>1 DEF Others, Stopping, Unhooking, OneCallInv
    <2> QED BY <1>0, <2>0, <2>1, <2>2, <2>3, <2>6, <2>7, WalkKept
  <1>7. ASSUME NEW c \in Handles, BecomesLast(c)
        PROVE  WalkInv'
    BY <1>0, <1>7, BecomesLastDoes, WalkSame
    DEF Others, NoCall, Hooking, Stopping, Unhooking
  <1>8. ASSUME NEW c \in Handles, Create(c)
        PROVE  WalkInv'
    BY <1>0, <1>8, CreateDoes, WalkSame
    DEF Others, NoCall, Hooking, Stopping, Unhooking
  <1>9. ASSUME NEW c \in Handles, CreateFails(c)
        PROVE  WalkInv'
    BY <1>0, <1>9, CreateFailsDoes, WalkSame
    DEF Others, NoCall, Hooking, Stopping, Unhooking
  <1>10. ASSUME NEW c \in Handles, Post(c)
        PROVE  WalkInv'
    BY <1>0, <1>10, PostDoes, WalkSame
    DEF Others, NoCall, Hooking, Stopping, Unhooking
  <1>11. ASSUME NEW c \in Handles, Find(c)
        PROVE  WalkInv'
    <2>0. PICK n : n = call[c].node
      OBVIOUS
    <2>1. /\ call[c].pc = "find" /\ Others(c) /\ n \in Kept /\ n \in 1..made
          /\ call'[c].task = call[c].task
          /\ nodes[n].task = call[c].task => call'[c].pc = "delete" /\ call'[c].node = n
          /\ nodes[n].task # call[c].task => call'[c].pc = "find" /\ call'[c].node = next[n]
          /\ UNCHANGED <<made, freed, nodes>>
      BY <1>0, <1>11, <2>0, FindDoes
    <2>2. \A d \in Handles \ {c} : call'[d].pc \notin Stopping
      BY <1>0, <2>1 DEF Others, WalkInv, Stopping, Unhooking
    <2>3. Ahead' = Ahead /\ Kept' = Kept
      BY <2>1, AheadSame DEF Others
    <2>4. n \in Ahead /\ \A k \in Ahead : nodes[k].task = call[c].task => n <= k
      BY <1>0, <2>0, <2>1 DEF WalkInv, End
    <2>5. next[n] \in Ahead \cup {End} /\ \A k \in Ahead : n < k => next[n] # End /\ next[n] <= k
      BY <1>0, <2>4 DEF LinksInv, Follows
    <2>6. CASE nodes[n].task = call[c].task
      BY <2>1, <2>2, <2>3, <2>4, <2>6, WalkOne DEF Ending, Unhooking
    <2>7. CASE nodes[n].task # call[c].task
      <3>1. \A k \in Ahead : nodes[k].task = call[c].task => n < k
        BY <1>0, <2>1, <2>4, <2>7, KeptFacts DEF Ahead
      <3> QED BY <2>1, <2>2, <2>3, <2>5, <2>7, <3>1, WalkOne DEF Ending, Unhooking
    <2> QED BY <2>6, <2>7
  <1>12. ASSUME NEW c \in Handles, FindsNothing(c)
        PROVE  WalkInv'
    BY <1>0, <1>12, FindsNothingDoes, WalkSame
    DEF Others, NoCall, Hooking, Stopping, Unhooking
  <1>13. ASSUME NEW c \in Handles, DeletesItself(c)
        PROVE  WalkInv'
    BY <1>0, <1>13, DeletesItselfDoes, WalkSame
    DEF Others, NoCall, Hooking, Stopping, Unhooking
  <1>14. ASSUME NEW c \in Handles, Deletes(c)
        PROVE  WalkInv'
    <2>0. PICK m, v : m = call[c].node /\ v = nodes[m].handle
      OBVIOUS
    <2>1. /\ call[c].pc = "delete" /\ call'[c].pc = "erase" /\ call'[c].node = m
          /\ v \in Handles \ {c} /\ call'[c].ends = call[c].ends /\ Live(c)
          /\ call'[v] = NoCall /\ \A d \in Handles \ {c, v} : call'[d] = call[d]
          /\ UNCHANGED <<made, freed, nodes>> /\ Loses(v, call[c].task)
      BY <1>0, <1>14, <2>0, DeletesDoes
    <2>2. \A d \in Handles \ {c} : call'[d].pc \notin Stopping
      BY <1>0, <2>1 DEF NoCall, WalkInv, Stopping, Unhooking
    <2>3. call[v].pc = "none"
      BY <1>0, <2>1 DEF Loses, CallInv
    <2>4. Ahead' = Ahead /\ Kept' = Kept
      BY <2>1, <2>3, AheadSame DEF NoCall
    <2>5. m \in Ahead /\ m \in Kept /\ nodes[m].task = call[c].task
      BY <1>0, <2>0, <2>1 DEF WalkInv, FoundInv, Ahead
    <2>6. ~call[c].ends
      <3> SUFFICES ASSUME call[c].ends PROVE FALSE
        OBVIOUS
      <3>1. tcb[c].arg # End /\ call[c].task = nodes[tcb[c].arg].task
        BY <1>0, <2>1 DEF CallInv, Stopping
      <3>2. tcb[c].arg \in Kept /\ nodes[tcb[c].arg].handle = c
        BY <1>0, <2>1, <3>1 DEF NodeInv, Live
      <3>3. tcb[c].arg = m
        BY <1>0, <2>5, <3>1, <3>2 DEF ObjectInv
      <3> QED BY <2>0, <2>1, <3>2, <3>3
    <2> QED BY <2>1, <2>2, <2>4, <2>5, <2>6, WalkOne DEF Ending
  <1>15. ASSUME NEW c \in Handles, Erase(c)
        PROVE  WalkInv'
    <2>0. PICK x : x = call[c].node
      OBVIOUS
    <2>1. /\ call[c].pc = "erase" /\ call'[c].pc = "unlink" /\ call'[c].node = x /\ Others(c)
          /\ UNCHANGED <<made, freed, nodes>> /\ call'[c].ends = call[c].ends
      BY <1>0, <1>15, <2>0, EraseDoes
    <2>2. \A d \in Handles \ {c} : call'[d].pc \notin Stopping
      BY <1>0, <2>1 DEF Others, WalkInv, Stopping, Unhooking
    <2>3. Ahead' = Ahead /\ Kept' = Kept
      BY <2>1, AheadSame DEF Others
    <2>4. x \in Ahead /\ x \in Kept /\ ~call[c].ends
      BY <1>0, <2>0, <2>1 DEF WalkInv, Ending
    <2> QED BY <2>1, <2>2, <2>3, <2>4, WalkOne
  <1>16. ASSUME NEW c \in Handles, LinkOver(c)
        PROVE  WalkInv'
    <2>0. PICK x, A : x = call[c].node /\ A = Ahead'
      OBVIOUS
    <2>1. /\ call[c].pc = "unlink" /\ call'[c].pc = "relink" /\ call'[c].node = x /\ Others(c)
          /\ UNCHANGED <<made, freed, nodes>> /\ call'[c].ends = call[c].ends
      BY <1>0, <1>16, <2>0, LinkOverDoes
    <2>2. \A d \in Handles \ {c} : call'[d].pc \notin Stopping
      BY <1>0, <2>1 DEF Others, WalkInv, Stopping, Unhooking
    <2>3. Kept' = Kept
      BY <2>1 DEF Kept
    <2>4. x \in Kept /\ ~call[c].ends
      BY <1>0, <2>0, <2>1 DEF WalkInv, Ending, Unhooking
    <2> QED BY <2>0, <2>1, <2>2, <2>3, <2>4, WalkOne
  <1>17. ASSUME NEW c \in Handles, LinkBack(c)
        PROVE  WalkInv'
    <2>0. PICK x, A : x = call[c].node /\ A = Ahead'
      OBVIOUS
    <2>1. /\ call[c].pc = "relink" /\ call'[c].pc = "free" /\ call'[c].node = x /\ Others(c)
          /\ UNCHANGED <<made, freed, nodes>> /\ call'[c].ends = call[c].ends
      BY <1>0, <1>17, <2>0, LinkBackDoes
    <2>2. \A d \in Handles \ {c} : call'[d].pc \notin Stopping
      BY <1>0, <2>1 DEF Others, WalkInv, Stopping, Unhooking
    <2>3. Kept' = Kept
      BY <2>1 DEF Kept
    <2>4. x \in Kept /\ ~call[c].ends
      BY <1>0, <2>0, <2>1 DEF WalkInv, Ending, Unhooking
    <2> QED BY <2>0, <2>1, <2>2, <2>3, <2>4, WalkOne
  <1>18. ASSUME NEW c \in Handles, FreeNode(c)
        PROVE  WalkInv'
    <2>1. /\ call[c].pc = "free" /\ call'[c].pc = "none" /\ Others(c)
      BY <1>0, <1>18, FreeNodeDoes DEF NoCall
    <2>2. \A d \in Handles : call'[d].pc \notin Stopping
      BY <1>0, <2>1 DEF Others, WalkInv, Stopping, Unhooking
    <2> QED BY <2>2 DEF WalkInv, Stopping, Ending, Unhooking
  <1>19. ASSUME NEW c \in Handles, UsesFreedNode(c) \/ DeletesNobody(c)
        PROVE  WalkInv'
    BY <1>0, <1>19, FaultDoes, WalkSame
    DEF Others, NoCall, Hooking, Stopping, Unhooking
  <1>20. ASSUME vTaskStartScheduler \/ \E h \in Handles : IdleFrees(h)
        PROVE  WalkInv'
    BY <1>0, <1>20, KernelDoes, WalkSame
    DEF Others, NoCall, Hooking, Stopping, Unhooking
  <1>21. CASE UNCHANGED vars
    BY <1>0, <1>21 DEF vars, list, history, WalkInv, Ahead, Being, Kept
  <1> QED
    BY <1>1, <1>2, <1>3, <1>4, <1>5, <1>6, <1>7, <1>8, <1>9, <1>10, <1>11, <1>12, <1>13,
       <1>14, <1>15, <1>16, <1>17, <1>18, <1>19, <1>20, <1>21
    DEF Next, Continues

\* A stop that is about to end a task ends one of its object, unless that object
\* was upset.
LEMMA DeletesItsOwn ==
  ASSUME TypeOK, CallInv, FoundInv, OneCallInv, BookInv,
         NEW c \in Handles, call[c].pc = "delete", call[c].node \notin freed,
         nodes[call[c].node].handle \in Handles, call[c].task \notin upset
  PROVE  /\ tcb[nodes[call[c].node].handle].state = "live"
         /\ Runs(nodes[call[c].node].handle) = call[c].task
  <1> USE RtosAssumption
  <1>1. call[c].node \in Kept
    BY Ranges DEF CallInv, Kept, End
  <1>2. nodes[call[c].node].task = call[c].task
    BY DEF FoundInv
  <1>3. ~Being(call[c].node, Ending)
    BY <1>2 DEF Being, Ending, Unhooking, FoundInv, OneCallInv
  <1>4. Settled(call[c].node)
    BY <1>2, <1>3 DEF Settled
  <1> QED BY <1>1, <1>2, <1>4 DEF BookInv, Runs

\* In calm, nothing is used that was freed, and no task returns.
LEMMA NoFault ==
  ASSUME TypeOK, MadeInv, CallInv, MutInv, FoundInv, OneCallInv, BookInv,
         NodeInv, ObjectInv, LinksInv, WalkInv, upset = {},
         NEW c \in Handles, UsesFreedNode(c) \/ DeletesNobody(c)
  PROVE  FALSE
  <1> USE RtosAssumption
  <1>1. /\ freed \subseteq 1..made /\ End \notin freed /\ End \notin Kept /\ Kept \cap freed = {}
        /\ Ahead \subseteq Kept /\ Back \subseteq Kept /\ made \in Nat
    BY Ranges DEF Kept, Ahead, Back, End
  <1>2. prev[End] \notin freed
    BY <1>1 DEF LinksInv, IsLast
  <1>3. ASSUME At(c, "none"), tcb[c].arg \in freed PROVE FALSE
    BY <1>1, <1>3 DEF At, Live, NodeInv
  <1>4. ASSUME At(c, "link"), {prev[call[c].node], prev[End]} \cap freed # {} PROVE FALSE
    BY <1>2, <1>4 DEF At, LinksInv, Hooking
  <1>5. ASSUME At(c, "create"), prev[End] \in freed \cup {End} PROVE FALSE
    <2>1. /\ call[c].pc = "create" /\ call[c].node = made /\ nodes[made].handle = Null
          /\ made \in Kept /\ \A d \in Handles : call[d].pc \notin Hooking
      BY <1>1, <1>5 DEF At, MutInv, CallInv, Making, Holding, Starting, Hooking, Kept, End
    <2>2. made \in Back
      BY <2>1 DEF Back, Being, Hooking, FoundInv, Ending
    <2> QED BY <1>1, <1>2, <1>5, <2>2 DEF LinksInv, IsLast, End
  <1>6. ASSUME NEW pc \in {"find", "delete", "erase", "free"}, At(c, pc), call[c].node \in freed
        PROVE  FALSE
    BY <1>1, <1>6 DEF At, WalkInv, Ending
  <1>7. ASSUME At(c, "unlink"), call[c].before \in freed PROVE FALSE
    <2>1. call[c].pc = "unlink" /\ call[c].before = prev[call[c].node] /\ call[c].node \in Kept
      BY <1>1, <1>7 DEF At, LinksInv, WalkInv, Unhooking
    <2>2. call[c].node \in Back
      BY <2>1 DEF Back, Being, LinksInv, WalkInv, Hooking, Unhooking, Stopping
    <2>3. prev[call[c].node] \in Back \cup {End}
      BY <2>2 DEF LinksInv, Precedes
    <2> QED BY <1>1, <1>7, <2>1, <2>3
  <1>8. ASSUME At(c, "relink"), call[c].after \in freed PROVE FALSE
    BY <1>1, <1>8 DEF At, LinksInv, Unhooking, Follows
  <1>9. ASSUME At(c, "find"), call[c].node = End, call[c].ends PROVE FALSE
    <2>1. /\ call[c].pc = "find" /\ tcb[c].state = "live" /\ tcb[c].arg # End
          /\ call[c].task = nodes[tcb[c].arg].task
      BY <1>9 DEF At, Live, CallInv, Stopping
    <2>2. /\ tcb[c].arg \in Kept /\ nodes[tcb[c].arg].handle = c /\ ~Being(tcb[c].arg, Ending)
      BY <2>1 DEF NodeInv
    <2>3. \A d \in Handles : call[d].pc \in {"link", "relink", "free"} =>
            call[d].pc \in Ending \/ nodes[call[d].node].handle = Null
      BY DEF Ending, Unhooking, MutInv, Making
    <2>4. tcb[c].arg \in Ahead
      BY <2>2, <2>3 DEF Ahead, Being
    <2> QED BY <1>9, <2>1, <2>4 DEF WalkInv
  <1>10. ASSUME DeletesNobody(c) PROVE FALSE
    BY <1>10, DeletesItsOwn DEF DeletesNobody, At, Live
  <1> QED BY <1>3, <1>4, <1>5, <1>6, <1>7, <1>8, <1>9, <1>10 DEF UsesFreedNode

\* TaskStop keeps to its own.
LEMMA StopsStep ==
  ASSUME RInv, [Next]_vars
  PROVE  StopsOnlyItsOwn'
  <1> USE RtosAssumption
  <1>0. TypeOK /\ CallInv /\ MutInv /\ StopsOnlyItsOwn /\ Lasts
    BY LastsStep DEF RInv
  <1>1. ASSUME NEW t \in Tasks, BootStart(t)
        PROVE  StopsOnlyItsOwn'
    BY <1>0, <1>1, BootDoes DEF StopsOnlyItsOwn, Lasts
  <1>2. ASSUME NEW c \in Handles, NEW t \in Tasks, TaskStart(c, t)
        PROVE  StopsOnlyItsOwn'
    BY <1>0, <1>2, StartDoes DEF StopsOnlyItsOwn, Lasts
  <1>3. ASSUME NEW c \in Handles, TaskReturns(c) \/ \E t \in Tasks : TaskStop(c, t)
        PROVE  StopsOnlyItsOwn'
    BY <1>0, <1>3, LooksDoes DEF StopsOnlyItsOwn, Lasts
  <1>4. ASSUME NEW c \in Handles, Pend(c)
        PROVE  StopsOnlyItsOwn'
    BY <1>0, <1>4, PendDoes DEF StopsOnlyItsOwn, Lasts
  <1>5. ASSUME NEW c \in Handles, Push(c)
        PROVE  StopsOnlyItsOwn'
    BY <1>0, <1>5, PushDoes DEF StopsOnlyItsOwn, Lasts
  <1>6. ASSUME NEW c \in Handles, LinkLast(c)
        PROVE  StopsOnlyItsOwn'
    BY <1>0, <1>6, LinkLastDoes DEF StopsOnlyItsOwn, Lasts
  <1>7. ASSUME NEW c \in Handles, BecomesLast(c)
        PROVE  StopsOnlyItsOwn'
    BY <1>0, <1>7, BecomesLastDoes DEF StopsOnlyItsOwn, Lasts
  <1>8. ASSUME NEW c \in Handles, Create(c)
        PROVE  StopsOnlyItsOwn'
    BY <1>0, <1>8, CreateDoes DEF StopsOnlyItsOwn, Lasts
  <1>9. ASSUME NEW c \in Handles, CreateFails(c)
        PROVE  StopsOnlyItsOwn'
    BY <1>0, <1>9, CreateFailsDoes DEF StopsOnlyItsOwn, Lasts
  <1>10. ASSUME NEW c \in Handles, Post(c)
        PROVE  StopsOnlyItsOwn'
    BY <1>0, <1>10, PostDoes DEF StopsOnlyItsOwn, Lasts
  <1>11. ASSUME NEW c \in Handles, Find(c)
        PROVE  StopsOnlyItsOwn'
    BY <1>0, <1>11, FindDoes DEF StopsOnlyItsOwn, Lasts
  <1>12. ASSUME NEW c \in Handles, FindsNothing(c)
        PROVE  StopsOnlyItsOwn'
    BY <1>0, <1>12, FindsNothingDoes DEF StopsOnlyItsOwn, Lasts
  <1>13. ASSUME NEW c \in Handles, DeletesItself(c)
        PROVE  StopsOnlyItsOwn'
    <2>1. call[c].pc = "delete" /\ Loses(c, call[c].task) /\ UNCHANGED fault
      BY <1>0, <1>13, DeletesItselfDoes
    <2>2. call[c].task \in Tasks
      BY <1>0, <2>1 DEF CallInv
    <2>3. mistaken' \subseteq upset'
      BY <1>0, <2>1, <2>2 DEF Loses, StopsOnlyItsOwn
    <2> QED BY <1>0, <2>1, <2>3 DEF StopsOnlyItsOwn, Lasts
  <1>14. ASSUME NEW c \in Handles, Deletes(c)
        PROVE  StopsOnlyItsOwn'
    <2>0. PICK v : v = nodes[call[c].node].handle
      OBVIOUS
    <2>1. /\ call[c].pc = "delete" /\ Loses(v, call[c].task) /\ UNCHANGED fault
          /\ v \in Handles /\ call[c].node \notin freed
      BY <1>0, <1>14, <2>0, DeletesDoes
    <2>2. Runs(v) # call[c].task => call[c].task \in upset
      BY <2>0, <2>1, DeletesItsOwn DEF RInv
    <2>3. mistaken' \subseteq upset'
      BY <1>0, <2>1, <2>2 DEF Loses, StopsOnlyItsOwn
    <2> QED BY <1>0, <2>1, <2>3 DEF StopsOnlyItsOwn, Lasts
  <1>15. ASSUME NEW c \in Handles, Erase(c)
        PROVE  StopsOnlyItsOwn'
    BY <1>0, <1>15, EraseDoes DEF StopsOnlyItsOwn, Lasts
  <1>16. ASSUME NEW c \in Handles, LinkOver(c)
        PROVE  StopsOnlyItsOwn'
    BY <1>0, <1>16, LinkOverDoes DEF StopsOnlyItsOwn, Lasts
  <1>17. ASSUME NEW c \in Handles, LinkBack(c)
        PROVE  StopsOnlyItsOwn'
    BY <1>0, <1>17, LinkBackDoes DEF StopsOnlyItsOwn, Lasts
  <1>18. ASSUME NEW c \in Handles, FreeNode(c)
        PROVE  StopsOnlyItsOwn'
    <2>1. call[c].pc = "free" /\ fault' = call[c].ends /\ UNCHANGED <<upset, met, mistaken>>
      BY <1>0, <1>18, FreeNodeDoes
    <2>2. Calm => ~call[c].ends
      BY <2>1 DEF RInv, WalkInv, Ending
    <2> QED BY <1>0, <2>1, <2>2 DEF StopsOnlyItsOwn, Calm
  <1>19. ASSUME NEW c \in Handles, UsesFreedNode(c) \/ DeletesNobody(c)
        PROVE  StopsOnlyItsOwn'
    <2>1. UNCHANGED <<upset, met, mistaken>>
      BY <1>19, FaultDoes
    <2>2. ~Calm
      BY <1>19, NoFault DEF RInv, Calm
    <2> QED BY <1>0, <2>1, <2>2 DEF StopsOnlyItsOwn, Calm
  <1>20. ASSUME vTaskStartScheduler \/ \E h \in Handles : IdleFrees(h)
        PROVE  StopsOnlyItsOwn'
    BY <1>0, <1>20, KernelDoes DEF StopsOnlyItsOwn, Lasts
  <1>21. CASE UNCHANGED vars
    BY <1>0, <1>21 DEF vars, list, history, StopsOnlyItsOwn, Lasts
  <1> QED
    BY <1>1, <1>2, <1>3, <1>4, <1>5, <1>6, <1>7, <1>8, <1>9, <1>10, <1>11, <1>12, <1>13,
       <1>14, <1>15, <1>16, <1>17, <1>18, <1>19, <1>20, <1>21
    DEF Next, Continues

-----------------------------------------------------------------------------
\* Before the scheduler runs there is no node, no call, and no task but main's.
LEMMA InitRInv == Init => RInv
  <1> SUFFICES ASSUME Init PROVE RInv
    OBVIOUS
  <1> USE RtosAssumption
  <1>1. /\ made = 0 /\ freed = {} /\ upset = {} /\ mistaken = {} /\ fault = FALSE
        /\ \A c \in Handles : call[c] = NoCall /\ tcb[c].arg = End
    BY DEF Init, Free
  <1>2. TypeOK
    <2>1. NoNode \in NodeType /\ Free \in BlockType(made) /\ NoCall \in CallType(made)
          /\ [state |-> "live", arg |-> End] \in BlockType(made) /\ End \in 0..made
      BY <1>1 DEF NoNode, Free, NoCall, NodeType, BlockType, CallType, End
    <2>2. BlocksOK
      BY <2>1 DEF Init, BlocksOK
    <2>3. ListOK
      BY <1>1, <2>1 DEF Init, ListOK
    <2>4. FlagsOK
      <3>1. /\ running = FALSE /\ mut = TRUE /\ alive = {} /\ fault = FALSE
            /\ upset = {} /\ met = FALSE /\ cut = FALSE /\ mistaken = {}
        BY DEF Init
      <3>2. {running, mut, fault, met, cut} \subseteq BOOLEAN
        BY <3>1, Zenon
      <3> QED BY <3>1, <3>2 DEF FlagsOK
    <2> QED BY <2>2, <2>3, <2>4, TypesAre
  <1>3. Kept = {} /\ 1..made = {}
    BY <1>1 DEF Kept
  <1>4. \A c \in Handles : /\ call[c].pc = "none" /\ tcb[c].arg = End
                           /\ call[c].pc \notin Holding \cup Stopping \cup Making \cup Ending
    BY <1>1 DEF NoCall, Holding, Starting, Stopping, Hooking, Unhooking, Making, Ending
  <1>5. MadeInv /\ CallInv /\ MutInv /\ FoundInv /\ OneCallInv /\ BookInv
    BY <1>3, <1>4 DEF MadeInv, CallInv, MutInv, FoundInv, OneCallInv, BookInv
  <1>6. NodeInv /\ ObjectInv /\ WalkInv
    BY <1>3, <1>4 DEF NodeInv, ObjectInv, WalkInv
  <1>7. LinksInv
    <2>1. Ahead = {} /\ Back = {} /\ next[End] = End /\ prev[End] = End
      BY <1>3 DEF Ahead, Back, Init
    <2> QED BY <1>4, <2>1 DEF LinksInv, Follows, IsLast, Hooking, Unhooking
  <1>8. StopsOnlyItsOwn
    BY <1>1 DEF StopsOnlyItsOwn
  <1> QED BY <1>2, <1>5, <1>6, <1>7, <1>8 DEF RInv

\* The facade keeps its books on every path through TaskStart and TaskStop
\* (rtos.cc); while nothing was upset and no calls met in the list, the links
\* that push_back and erase write one by one lead through the nodes there are.
THEOREM RInvAlways == Spec => []RInv
  <1>1. RInv /\ [Next]_vars => RInv'
    <2> SUFFICES ASSUME RInv, [Next]_vars PROVE RInv'
      OBVIOUS
    <2>1. TypeOK' /\ MadeInv' /\ CallInv' /\ MutInv' /\ FoundInv' /\ OneCallInv' /\ BookInv'
      BY TypeStep, MadeStep, CallStep, MutStep, FoundStep, OneCallStep, BookStep
    <2>2. Calm' => NodeInv' /\ ObjectInv' /\ LinksInv' /\ WalkInv'
      BY NodeStep, ObjectStep, LinksStep, WalkStep
    <2> QED BY <2>1, <2>2, StopsStep DEF RInv
  <1> QED BY <1>1, InitRInv, PTL DEF Spec

\* The state keeps its types.
THEOREM TypesHold == Spec => []TypeOK
  <1>1. RInv => TypeOK
    BY DEF RInv
  <1> QED BY <1>1, RInvAlways, PTL

\* TaskStop (rtos.cc) ends the task of the object it is given and no other, and
\* uses no node or block that was freed, but for objects whose book-keeping one
\* of the named cases upset, or after two stops, or a push and an erase, met in
\* the list; the steps of push_back and erase interleave with all others.
THEOREM OnlyItsOwnEnds == Spec => []StopsOnlyItsOwn
  <1>1. RInv => StopsOnlyItsOwn
    BY DEF RInv
  <1> QED BY <1>1, RInvAlways, PTL
=============================================================================
