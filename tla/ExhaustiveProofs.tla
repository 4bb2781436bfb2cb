-------------------------- MODULE ExhaustiveProofs --------------------------
(* Theorems about Exhaustive, for every scene and configuration.             *)
EXTENDS Exhaustive, ScenarioProofs, FiniteSetTheorems

-----------------------------------------------------------------------------
(* The scene. *)

\* The transition tried next is one of those left to try.
LEMMA HighestIn ==
    ASSUME NEW sc \in Scene, NEW s \in State(sc),
           NEW U \in SUBSET Enabled(sc, s), U # {}
    PROVE  Highest(U) \in U
BY OrderAssumption DEF Highest

\* The frame of a successor.
LEMMA ChildType ==
    ASSUME scene \in Scene, frame \in FrameSet, NEW t \in Enabled(scene, frame.state)
    PROVE  /\ Child(frame, t) \in FrameSet
           /\ Child(frame, t).state = Apply(scene, frame.state, t)
           /\ Child(frame, t).schedule = Append(frame.schedule, t)
           /\ Child(frame, t).path = Append(frame.path, Child(frame, t).state)
           /\ Child(frame, t).schedule # <<>>
<1>1. /\ frame.state \in State(scene)
      /\ frame.schedule \in Seq(Transition)
      /\ frame.path \in Seq(State(scene))
  BY DEF FrameSet, Schedule
<1>2. t \in Transition /\ Apply(scene, frame.state, t) \in State(scene)
  BY <1>1, SceneAssumption
<1>3. QED
  BY <1>1, <1>2 DEF Child, Frame, FrameSet, Schedule

-----------------------------------------------------------------------------
(* Type correctness. *)

LEMMA InitTypeOK == Init => TypeOK
<1> SUFFICES ASSUME Init PROVE TypeOK
  OBVIOUS
<1>1. scene \in Scene /\ cfg \in Config
  BY InputAssumption DEF Init
<1>2. Initial(scene) \in State(scene)
  BY <1>1, SceneAssumption
<1>3. Root(scene) \in FrameSet
  BY <1>2 DEF Root, Frame, FrameSet, Schedule
<1>4. NoWitness \in Witness
  BY NoWitnessType
<1>5. Result(FALSE, NoWitness, 0) \in Outcome
  BY <1>4 DEF Result, Outcome, Witness
<1>6. ControlOK
  BY <1>1, <1>3 DEF Init, ControlOK
<1>7. CountsOK
  BY <1>2 DEF Init, CountsOK, Tallies, Tally
<1>8. FoundOK
  <2>1. <<>> \in Seq(State(scene)) /\ {} \subseteq State(scene) \X Nat
    OBVIOUS
  <2>2. QED
    BY <1>4, <1>5, <2>1 DEF Init, FoundOK
<1>9. QED
  BY <1>6, <1>7, <1>8 DEF TypeOK

\* The frame that is popped.
LEMMA PopType ==
    ASSUME TypeOK, stack # <<>>
    PROVE  /\ Head(stack) \in FrameSet
           /\ Tail(stack) \in Seq(FrameSet)
           /\ Head(stack).state \in State(scene)
           /\ Depth(Head(stack)) \in Nat
<1>1. Head(stack) \in FrameSet /\ Tail(stack) \in Seq(FrameSet)
  BY HeadTailProperties DEF TypeOK, ControlOK
<1>2. QED
  BY <1>1 DEF FrameSet, Depth, Schedule

\* The successor that is tried.
LEMMA NextChildType ==
    ASSUME TypeOK, pc = "children"
    PROVE  /\ Highest(todo) \in todo
           /\ NextChild \in FrameSet
           /\ NextChild.state \in State(scene)
           /\ NextChild.path \in Seq(State(scene))
           /\ NextChild.schedule \in Schedule
           /\ NextChild.schedule # <<>>
<1>1. /\ scene \in Scene
      /\ frame \in FrameSet
      /\ frame.state \in State(scene)
      /\ todo \subseteq Enabled(scene, frame.state)
      /\ todo # {}
  BY DEF TypeOK, ControlOK, FrameSet
<1>2. Highest(todo) \in todo
  BY <1>1, HighestIn
<1>3. NextChild \in FrameSet /\ NextChild.schedule # <<>>
  BY <1>1, <1>2, ChildType DEF NextChild
<1>4. QED
  BY <1>2, <1>3 DEF FrameSet

\* A result built from a witness.
LEMMA ResultType ==
    ASSUME NEW passed \in BOOLEAN, NEW w \in Witness, NEW n \in Nat
    PROVE  Result(passed, w, n) \in Outcome
BY DEF Result, Outcome, Witness, Schedule

\* Counting keeps the counters natural numbers.
LEMMA CountType ==
    ASSUME NEW counts \in Tallies, NEW c \in Tally
    PROVE  Count(counts, c) \in Tallies
BY DEF Count, Tallies

LEMMA VisitedType == ASSUME stats \in Tallies PROVE \A s : Visited(s) \in Tallies
<1>1. "visited" \in Tally /\ "unique" \in Tally
  BY DEF Tally
<1>2. QED
  BY <1>1, CountType DEF Visited

\* The meter updates the counters, or leaves them.
LEMMA MeterType ==
    ASSUME stats \in Tallies, NEW new \in Tallies, Meter(new)
    PROVE  stats' \in Tallies
BY DEF Meter

\* The sets FrameSet stands for do not change: the scene does not.
LEMMA SameScene ==
    ASSUME Next
    PROVE  scene' = scene /\ cfg' = cfg /\ FrameSet' = FrameSet
<1>1. scene' = scene /\ cfg' = cfg
  BY DEF Next, PopLeaf, PopPruned, PopExpand, Finish, ChildPushed,
         ChildViolates, input
<1>2. QED
  BY <1>1 DEF FrameSet

LEMMA StepControl == TypeOK /\ Next => ControlOK'
<1> SUFFICES ASSUME TypeOK, Next PROVE ControlOK'
  OBVIOUS
<1> USE SameScene
<1>1. ControlOK
  BY DEF TypeOK
<1>2. CASE PopLeaf
  BY <1>1, <1>2, PopType DEF PopLeaf, Pop, ControlOK
<1>3. CASE PopPruned
  BY <1>1, <1>3, PopType DEF PopPruned, ControlOK
<1>4. CASE PopExpand
  BY <1>1, <1>4, PopType DEF PopExpand, Pop, ControlOK
<1>5. CASE Finish
  BY <1>1, <1>5 DEF Finish, ControlOK
<1>6. CASE ChildPushed
  <2>1. <<NextChild>> \o stack \in Seq(FrameSet)
    BY <1>1, <1>6, NextChildType, ConcatProperties
       DEF ControlOK, ChildPushed, Try
  <2>2. QED
    BY <1>1, <1>6, <2>1 DEF ChildPushed, Try, Proceed, ControlOK
<1>7. CASE ChildViolates
  BY <1>1, <1>7 DEF ChildViolates, Try, Proceed, ControlOK
<1>8. QED
  BY <1>2, <1>3, <1>4, <1>5, <1>6, <1>7 DEF Next

LEMMA StepCounts == TypeOK /\ Next => CountsOK'
<1> SUFFICES ASSUME TypeOK, Next PROVE CountsOK'
  OBVIOUS
<1> USE SameScene
<1>1. CountsOK
  BY DEF TypeOK
<1>2. stats' \in Tallies
  <2>1. stats \in Tallies
    BY <1>1 DEF CountsOK
  <2>2. \A c \in Tally : Meter(Count(stats, c)) => stats' \in Tallies
    BY <2>1, CountType, MeterType
  <2>3. \A s : Meter(Visited(s)) => stats' \in Tallies
    BY <2>1, VisitedType, MeterType
  <2>4. "schedules" \in Tally /\ "violations" \in Tally /\ "pruned" \in Tally
    BY DEF Tally
  <2>5. \A s : Meter(Count(Count(Visited(s), "violations"), "schedules"))
                 => stats' \in Tallies
    BY <2>1, <2>4, VisitedType, CountType, MeterType
  <2>6. QED
    BY <2>1, <2>2, <2>3, <2>4, <2>5
       DEF Next, PopLeaf, PopPruned, PopExpand, Finish, ChildPushed, ChildViolates
<1>3. explored' \in Nat
  <2>1. explored \in Nat /\ explored' \in {explored, explored + 1}
    BY <1>1 DEF CountsOK, Next, PopLeaf, PopPruned, PopExpand, Finish,
                ChildPushed, ChildViolates
  <2>2. QED
    BY <2>1
<1>4. seen' \subseteq {Fingerprint(scene, s) : s \in State(scene)}
  BY <1>1, NextChildType DEF CountsOK, Next, PopLeaf, PopPruned, PopExpand,
                             Finish, ChildPushed, ChildViolates, Try
<1>5. expanded' \subseteq {NodeKey(scene, s) : s \in State(scene)}
  BY <1>1, PopType DEF CountsOK, Next, PopLeaf, PopPruned, PopExpand, Pop,
                       Finish, ChildPushed, ChildViolates
<1>6. QED
  BY <1>2, <1>3, <1>4, <1>5 DEF CountsOK

LEMMA StepFound == TypeOK /\ Next => FoundOK'
<1> SUFFICES ASSUME TypeOK, Next PROVE FoundOK'
  OBVIOUS
<1> USE SameScene
<1>1. FoundOK /\ explored \in Nat /\ scene \in Scene
  BY DEF TypeOK, CountsOK, ControlOK
<1>2. ASSUME Pop PROVE reached' \subseteq State(scene) \X Nat
  BY <1>1, <1>2, PopType DEF Pop, FoundOK
<1>3. CASE PopLeaf
  BY <1>1, <1>2, <1>3 DEF PopLeaf, FoundOK
<1>4. CASE PopPruned
  BY <1>1, <1>4 DEF PopPruned, FoundOK
<1>5. CASE PopExpand
  BY <1>1, <1>2, <1>5 DEF PopExpand, FoundOK
<1>6. CASE Finish
  <2>1. result' \in Outcome
    BY <1>1, <1>6, ResultType DEF Finish, FoundOK
  <2>2. QED
    BY <1>1, <1>6, <2>1 DEF Finish, FoundOK
<1>7. CASE ChildPushed
  BY <1>1, <1>7 DEF ChildPushed, FoundOK
<1>8. CASE ChildViolates
  <2> DEFINE w == Check(scene, NextChild.state, NextChild.schedule)
  <2>1. w \in Witness
    BY <1>1, <1>8, NextChildType, CheckFails DEF ChildViolates, Try
  <2>2. Result(FALSE, w, explored) \in Outcome
    BY <1>1, <2>1, ResultType
  <2>3. NextChild.path \in Seq(State(scene))
    BY <1>8, NextChildType DEF ChildViolates, Try
  <2>4. result' \in Outcome
    BY <1>1, <1>8, <2>2 DEF ChildViolates, FoundOK
  <2>5. first' \in Witness /\ trace' \in Seq(State(scene))
    BY <1>1, <1>8, <2>1, <2>3 DEF ChildViolates, FoundOK
  <2>6. QED
    BY <1>1, <1>8, <2>4, <2>5 DEF ChildViolates, FoundOK
<1>9. QED
  BY <1>3, <1>4, <1>5, <1>6, <1>7, <1>8 DEF Next

LEMMA StepTypeOK == TypeOK /\ [Next]_vars => TypeOK'
<1>1. TypeOK /\ Next => TypeOK'
  BY StepControl, StepCounts, StepFound DEF TypeOK
<1>2. TypeOK /\ UNCHANGED vars => TypeOK'
  BY DEF vars, input, TypeOK, ControlOK, CountsOK, FoundOK, FrameSet
<1>3. QED
  BY <1>1, <1>2

\* Types: every variable of a search keeps the values its declaration allows.
THEOREM TypeCorrect == Spec => []TypeOK
BY InitTypeOK, StepTypeOK, PTL DEF Spec
-----------------------------------------------------------------------------
(* A search that passes has covered everything. *)

\* The frames that wait, after a pop and after a push.
LEMMA WaitingPopped ==
    ASSUME TypeOK, stack # <<>>, stack' = Tail(stack)
    PROVE  Waiting = Waiting' \cup {Head(stack)}
<1>1. stack \in Seq(FrameSet)
  BY DEF TypeOK, ControlOK
<1>2. /\ Head(stack) = stack[1]
      /\ Len(stack) \in Nat \ {0}
      /\ Len(stack') = Len(stack) - 1
      /\ \A i \in 1..Len(stack') : stack'[i] = stack[i+1]
  BY <1>1, HeadTailProperties, EmptySeq
<1>3. ASSUME NEW i \in 1..Len(stack), i # 1
      PROVE  i - 1 \in 1..Len(stack') /\ stack[i] = stack'[i-1]
  BY <1>2, <1>3
<1>4. QED
  BY <1>2, <1>3 DEF Waiting

LEMMA WaitingPushed ==
    ASSUME TypeOK, NEW f \in FrameSet, stack' = <<f>> \o stack
    PROVE  Waiting' = Waiting \cup {f}
<1>1. stack \in Seq(FrameSet)
  BY DEF TypeOK, ControlOK
<1>2. /\ Len(stack') = Len(stack) + 1
      /\ Len(stack) \in Nat
      /\ stack'[1] = f
      /\ \A i \in 1..Len(stack) : stack'[i+1] = stack[i]
  BY <1>1
<1>3. ASSUME NEW i \in 1..Len(stack'), i # 1
      PROVE  i - 1 \in 1..Len(stack) /\ stack'[i] = stack[i-1]
  BY <1>2, <1>3
<1>4. QED
  BY <1>2, <1>3 DEF Waiting

LEMMA InitCoverage == Init => Coverage
<1> SUFFICES ASSUME Init PROVE Coverage
  OBVIOUS
<1>1. TypeOK
  BY InitTypeOK
<1>2. Root(scene) \in Waiting
  BY DEF Init, Waiting
<1>3. Root(scene).state = Initial(scene) /\ Depth(Root(scene)) = 0
  BY DEF Root, Frame, Depth
<1>4. QED
  BY <1>1, <1>2, <1>3
     DEF Init, Coverage, ExpandedWereReached, NothingLost, DealtWith

\* What is dealt with stays so, when frames leave the stack only to be reached
\* or because an equal state was.
LEMMA DealtStays ==
    ASSUME NEW s, NEW d, DealtWith(s, d), scene' = scene, cfg' = cfg,
           reached \subseteq reached',
           \A f \in Waiting : \/ f \in Waiting'
                              \/ \E p \in reached' : /\ p[1] = f.state
                                                     /\ p[2] = Depth(f) \/ cfg.prune
    PROVE  DealtWith(s, d)'
BY DEF DealtWith, Depth

\* Of the nodes already reached, nothing is uncovered by a step that keeps
\* todo and what is dealt with.
LEMMA CoveredStays ==
    ASSUME NEW p, NEW t, Covered(p, t), scene' = scene, cfg' = cfg,
           t \in todo /\ p = <<frame.state, Depth(frame)>>
             => t \in todo' /\ frame' = frame,
           \A s, d : DealtWith(s, d) => DealtWith(s, d)'
    PROVE  Covered(p, t)'
BY DEF Covered, Depth

LEMMA StepCoverage == Coverage /\ Next => Coverage'
<1> SUFFICES ASSUME Coverage, Next PROVE Coverage'
  OBVIOUS
<1>1. TypeOK /\ TypeOK' /\ scene' = scene /\ cfg' = cfg
  BY StepTypeOK, SameScene DEF Coverage
<1>2. ExpandedWereReached /\ NothingLost
  BY DEF Coverage
<1>3. ASSUME NEW s \in State(scene), NEW r \in State(scene),
             NodeKey(scene, s) = NodeKey(scene, r)
      PROVE  s = r
  BY <1>1, <1>3, FingerprintAssumption DEF TypeOK, ControlOK
<1>4. CASE PopLeaf
  <2> PICK f : f = Head(stack)
    OBVIOUS
  <2>1. Waiting = Waiting' \cup {f} /\ f \in FrameSet
    BY <1>1, <1>4, WaitingPopped, PopType DEF PopLeaf, Pop
  <2>2. reached' = reached \cup {<<f.state, Depth(f)>>} /\ todo = {} /\ todo' = {}
    BY <1>1, <1>4 DEF PopLeaf, Pop, TypeOK, ControlOK
  <2>3. \A s, d : DealtWith(s, d) => DealtWith(s, d)'
    <3> DEFINE p == <<f.state, Depth(f)>>
    <3>1. p \in reached' /\ p[1] = f.state /\ p[2] = Depth(f)
      BY <2>2
    <3> HIDE DEF p
    <3>2. QED
      BY <1>1, <2>1, <2>2, <3>1, DealtStays
  <2>4. ExpandedWereReached'
    BY <1>1, <1>2, <1>4, <2>2 DEF PopLeaf, ExpandedWereReached, NodeKey
  <2>5. NothingLost'
    <3> SUFFICES ASSUME first = NoWitness PROVE NothingLost'
      BY <1>4 DEF PopLeaf, NothingLost
    <3>1. DealtWith(Initial(scene), 0)'
      BY <1>1, <1>2, <2>3 DEF NothingLost
    <3>2. ASSUME NEW p \in reached, NEW t \in Enabled(scene, p[1])
          PROVE  Covered(p, t)'
      BY <1>1, <1>2, <2>2, <2>3, CoveredStays DEF NothingLost
    <3>3. ASSUME NEW p, p = <<f.state, Depth(f)>>, NEW t \in Enabled(scene, p[1])
          PROVE  Covered(p, t)'
      BY <1>1, <1>4, <3>3 DEF PopLeaf, AtBound, Covered
    <3>4. QED
      BY <1>1, <2>2, <3>1, <3>2, <3>3 DEF NothingLost
  <2>6. QED
    BY <1>1, <1>4, <2>4, <2>5 DEF Coverage, PopLeaf, Pop
<1>5. CASE PopPruned
  <2> PICK f : f = Head(stack)
    OBVIOUS
  <2>1. Waiting = Waiting' \cup {f} /\ f \in FrameSet /\ f.state \in State(scene)
    BY <1>1, <1>5, WaitingPopped, PopType DEF PopPruned
  <2>2. \E p \in reached : p[1] = f.state
    <3>1. PICK p \in reached : NodeKey(scene, f.state) = NodeKey(scene, p[1])
      BY <1>2, <1>5 DEF PopPruned, Known, ExpandedWereReached
    <3>2. p[1] \in State(scene)
      BY <1>1 DEF TypeOK, FoundOK
    <3>3. QED
      BY <1>3, <2>1, <3>1, <3>2
  <2>3. \A s, d : DealtWith(s, d) => DealtWith(s, d)'
    <3>1. cfg.prune /\ reached' = reached
      BY <1>5 DEF PopPruned, Known
    <3>2. QED
      BY <1>1, <2>1, <2>2, <3>1, DealtStays
  <2>4. ExpandedWereReached'
    BY <1>1, <1>2, <1>5 DEF PopPruned, ExpandedWereReached, NodeKey
  <2>5. NothingLost'
    <3> SUFFICES ASSUME first = NoWitness PROVE NothingLost'
      BY <1>5 DEF PopPruned, NothingLost
    <3>1. ASSUME NEW p \in reached, NEW t \in Enabled(scene, p[1])
          PROVE  Covered(p, t)'
      BY <1>1, <1>2, <1>5, <2>3, CoveredStays DEF NothingLost, PopPruned
    <3>2. QED
      BY <1>1, <1>2, <1>5, <2>3, <3>1 DEF NothingLost, PopPruned
  <2>6. QED
    BY <1>1, <1>5, <2>4, <2>5 DEF Coverage, PopPruned
<1>6. CASE PopExpand
  <2> PICK f : f = Head(stack)
    OBVIOUS
  <2>1. Waiting = Waiting' \cup {f} /\ f \in FrameSet
    BY <1>1, <1>6, WaitingPopped, PopType DEF PopExpand, Pop
  <2>2. /\ reached' = reached \cup {<<f.state, Depth(f)>>}
        /\ todo = {}
        /\ todo' = Enabled(scene, f.state)
        /\ frame' = f
    BY <1>1, <1>6 DEF PopExpand, Pop, TypeOK, ControlOK
  <2>3. \A s, d : DealtWith(s, d) => DealtWith(s, d)'
    <3> DEFINE p == <<f.state, Depth(f)>>
    <3>1. p \in reached' /\ p[1] = f.state /\ p[2] = Depth(f)
      BY <2>2
    <3> HIDE DEF p
    <3>2. QED
      BY <1>1, <2>1, <2>2, <3>1, DealtStays
  <2>4. ExpandedWereReached'
    <3> DEFINE p == <<f.state, Depth(f)>>
    <3>1. p \in reached' /\ p[1] = f.state
      BY <2>2
    <3> HIDE DEF p
    <3>2. \A key \in expanded' : key \in expanded \/ key = NodeKey(scene, f.state)
      BY <1>6 DEF PopExpand
    <3>3. QED
      BY <1>1, <1>2, <2>2, <3>1, <3>2 DEF ExpandedWereReached, NodeKey
  <2>5. NothingLost'
    <3> SUFFICES ASSUME first = NoWitness PROVE NothingLost'
      BY <1>6 DEF PopExpand, NothingLost
    <3>1. ASSUME NEW p \in reached, NEW t \in Enabled(scene, p[1])
          PROVE  Covered(p, t)'
      BY <1>1, <1>2, <2>2, <2>3, CoveredStays DEF NothingLost
    <3>2. ASSUME NEW p, p = <<f.state, Depth(f)>>, NEW t \in Enabled(scene, p[1])
          PROVE  Covered(p, t)'
      BY <1>1, <2>2, <3>2 DEF Covered, Depth
    <3>3. QED
      BY <1>1, <1>2, <2>2, <2>3, <3>1, <3>2 DEF NothingLost
  <2>6. QED
    BY <1>1, <1>6, <2>4, <2>5 DEF Coverage, PopExpand, Pop
<1>7. CASE Finish
  <2>1. Waiting' = Waiting /\ todo = {}
    BY <1>1, <1>7 DEF Finish, Waiting, TypeOK, ControlOK
  <2>2. \A s, d : DealtWith(s, d) => DealtWith(s, d)'
    BY <1>1, <1>7, <2>1, DealtStays DEF Finish
  <2>3. ExpandedWereReached'
    BY <1>1, <1>2, <1>7 DEF Finish, ExpandedWereReached, NodeKey
  <2>4. NothingLost'
    <3> SUFFICES ASSUME first = NoWitness PROVE NothingLost'
      BY <1>7 DEF Finish, NothingLost
    <3>1. ASSUME NEW p \in reached, NEW t \in Enabled(scene, p[1])
          PROVE  Covered(p, t)'
      BY <1>1, <1>2, <1>7, <2>2, CoveredStays DEF NothingLost, Finish
    <3>2. QED
      BY <1>1, <1>2, <1>7, <2>2, <3>1 DEF NothingLost, Finish
  <2>5. result'.passed => first = NoWitness
    BY <1>7 DEF Finish, Result
  <2>6. QED
    BY <1>1, <1>7, <2>1, <2>3, <2>4, <2>5 DEF Coverage, Finish
<1>8. CASE ChildPushed
  <2> PICK t1, p1, c : /\ t1 = Highest(todo)
                       /\ p1 = <<frame.state, Depth(frame)>>
                       /\ c = NextChild
    OBVIOUS
  <2>1. /\ t1 \in todo
        /\ c \in FrameSet
        /\ c.state = Apply(scene, frame.state, t1)
        /\ Depth(c) = Depth(frame) + 1
    <3>1. t1 \in todo /\ NextChild \in FrameSet
      BY <1>1, <1>8, NextChildType DEF ChildPushed, Try
    <3>2. /\ t1 \in Enabled(scene, frame.state)
          /\ scene \in Scene
          /\ frame \in FrameSet
      BY <1>1, <3>1 DEF TypeOK, ControlOK
    <3>3. /\ NextChild.state = Apply(scene, frame.state, t1)
          /\ NextChild.schedule = Append(frame.schedule, t1)
      BY <3>2, ChildType DEF NextChild
    <3>4. frame.schedule \in Seq(Transition) /\ t1 \in Transition
      BY <3>2, SceneAssumption DEF FrameSet, Schedule
    <3>5. QED
      BY <3>1, <3>3, <3>4 DEF Depth
  <2>2. Waiting' = Waiting \cup {c}
    BY <1>1, <1>8, <2>1, WaitingPushed DEF ChildPushed
  <2>3. /\ reached' = reached
        /\ expanded' = expanded
        /\ first' = first
        /\ frame' = frame
        /\ todo' = todo \ {t1}
        /\ ~Violates(scene, c.state)
        /\ pc' # "done"
    BY <1>8 DEF ChildPushed, Try, Proceed
  <2>4. \A s, d : DealtWith(s, d) => DealtWith(s, d)'
    BY <1>1, <2>2, <2>3, DealtStays
  <2>5. ExpandedWereReached'
    BY <1>1, <1>2, <2>3 DEF ExpandedWereReached, NodeKey
  <2>6. Covered(p1, t1)'
    <3>1. DealtWith(c.state, Depth(c))'
      BY <2>2 DEF DealtWith, Depth
    <3>2. QED
      BY <1>1, <2>1, <2>3, <3>1 DEF Covered
  <2>7. NothingLost'
    <3> SUFFICES ASSUME first = NoWitness PROVE NothingLost'
      BY <2>3 DEF NothingLost
    <3>1. ASSUME NEW p \in reached, NEW t \in Enabled(scene, p[1])
          PROVE  Covered(p, t)'
      <4>1. CASE p = p1 /\ t = t1
        BY <2>6, <4>1
      <4>2. CASE ~(p = p1 /\ t = t1)
        BY <1>1, <1>2, <2>3, <2>4, <4>2, CoveredStays DEF NothingLost
      <4>3. QED
        BY <4>1, <4>2
    <3>2. QED
      BY <1>1, <1>2, <2>3, <2>4, <3>1 DEF NothingLost
  <2>8. QED
    BY <1>1, <2>3, <2>5, <2>7 DEF Coverage
<1>9. CASE ChildViolates
  <2>1. first' # NoWitness
    BY <1>1, <1>9, NextChildType, CheckFails DEF ChildViolates, Try, TypeOK, ControlOK
  <2>2. ExpandedWereReached'
    BY <1>1, <1>2, <1>9 DEF ChildViolates, ExpandedWereReached, NodeKey
  <2>3. pc' = "done" => ~result'.passed
    BY <1>9 DEF ChildViolates, Try, Proceed, Result
  <2>4. QED
    BY <1>1, <2>1, <2>2, <2>3 DEF Coverage, NothingLost
<1>10. QED
  BY <1>4, <1>5, <1>6, <1>7, <1>8, <1>9 DEF Next

\* While the search has met no violation, nothing is lost and pruning refers to
\* work done or under way, for every scene and configuration
\* (scheduler.go:102-174).
THEOREM CoverageHolds == Spec => []Coverage
<1>1. Coverage /\ UNCHANGED vars => Coverage'
  <2> SUFFICES ASSUME Coverage, UNCHANGED vars PROVE Coverage'
    OBVIOUS
  <2>1. TypeOK'
    BY StepTypeOK DEF Coverage
  <2>2. ExpandedWereReached' /\ NothingLost'
    BY DEF vars, input, Coverage, ExpandedWereReached, NothingLost, Covered,
           DealtWith, Waiting, NodeKey, Depth
  <2>3. QED
    BY <2>1, <2>2 DEF vars, input, Coverage
<1>2. Coverage /\ [Next]_vars => Coverage'
  BY <1>1, StepCoverage
<1>3. QED
  BY <1>2, InitCoverage, PTL DEF Spec
-----------------------------------------------------------------------------
(* What "passed" means. *)

\* At the end of a search that passed, what is covered is clean and reached.
LEMMA PassCovers ==
    ASSUME Coverage, pc = "done", result.passed
    PROVE  /\ \E p \in reached : p[1] = Initial(scene) /\ (p[2] = 0 \/ cfg.prune)
           /\ \A p \in reached : \A t \in Enabled(scene, p[1]) :
                 \/ cfg.maxDepth > 0 /\ p[2] >= cfg.maxDepth
                 \/ /\ ~Violates(scene, Apply(scene, p[1], t))
                    /\ \E q \in reached : /\ q[1] = Apply(scene, p[1], t)
                                          /\ q[2] = p[2] + 1 \/ cfg.prune
<1>1. first = NoWitness /\ todo = {} /\ Waiting = {}
  BY DEF Coverage, Waiting
<1>2. QED
  BY <1>1 DEF Coverage, NothingLost, Covered, DealtWith

\* A search without a bound that reports "passed" has a certificate, pruned or
\* not: the set of the states it popped (scheduler.go:124-133).
THEOREM PassesAreCertified == Spec => []PassIsCertified
<1>1. Coverage => PassIsCertified
  <2> SUFFICES ASSUME Coverage, pc = "done", result.passed, cfg.maxDepth = 0
               PROVE  Certifies({p[1] : p \in reached}, scene)
    BY DEF PassIsCertified
  <2>1. QED
    BY PassCovers DEF Certifies
<1>2. QED
  BY <1>1, CoverageHolds, PTL

\* No execution of the scene violates an invariant after its first state, if
\* the search has no bound or, unpruned, within the bound.
PassMeansClean ==
    pc = "done" /\ result.passed =>
        \A schedule \in Schedule : \A path \in Seq(State(scene)) :
            /\ IsRun(scene, path, schedule)
            /\ cfg.maxDepth = 0 \/ (~cfg.prune /\ Len(schedule) <= cfg.maxDepth)
            => CleanUpTo(scene, path, Len(path))

\* "Passed" means what the report says of it: no schedule, of any length,
\* breaks an invariant, or none within the bound (scheduler.go:69, 176-178).
THEOREM PassesAreClean == Spec => []PassMeansClean
<1> SUFFICES Coverage => PassMeansClean
  BY CoverageHolds, PTL
<1> SUFFICES ASSUME Coverage, pc = "done", result.passed,
                    NEW schedule \in Schedule, NEW path \in Seq(State(scene)),
                    IsRun(scene, path, schedule),
                    cfg.maxDepth = 0 \/ (~cfg.prune /\ Len(schedule) <= cfg.maxDepth)
             PROVE  CleanUpTo(scene, path, Len(path))
  BY DEF PassMeansClean
<1> DEFINE Met(i) == \E p \in reached : p[1] = path[i] /\ (p[2] = i - 1 \/ cfg.prune)
<1>1. /\ cfg.maxDepth \in Nat
      /\ \A p \in reached : p[2] \in Nat
  BY DEF Coverage, TypeOK, ControlOK, FoundOK, Config
<1>2. /\ Len(schedule) \in Nat
      /\ Len(path) = Len(schedule) + 1
      /\ path[1] = Initial(scene)
      /\ \A i \in 1..Len(schedule) : /\ schedule[i] \in Enabled(scene, path[i])
                                     /\ path[i+1] = Apply(scene, path[i], schedule[i])
  BY DEF IsRun, Schedule
<1>3. ASSUME NEW i \in 1..Len(schedule), Met(i)
      PROVE  ~Violates(scene, path[i+1]) /\ Met(i+1)
  <2>1. PICK p \in reached : p[1] = path[i] /\ (p[2] = i - 1 \/ cfg.prune)
    BY <1>3
  <2>2. ~(cfg.maxDepth > 0 /\ p[2] >= cfg.maxDepth)
    BY <1>1, <1>2, <2>1
  <2>3. /\ ~Violates(scene, path[i+1])
        /\ \E q \in reached : /\ q[1] = path[i+1]
                              /\ q[2] = p[2] + 1 \/ cfg.prune
    <3> PICK t : t = schedule[i]
      OBVIOUS
    <3>1. t \in Enabled(scene, p[1]) /\ Apply(scene, p[1], t) = path[i+1]
      BY <1>2, <2>1
    <3>2. /\ ~Violates(scene, Apply(scene, p[1], t))
          /\ \E q \in reached : /\ q[1] = Apply(scene, p[1], t)
                                /\ q[2] = p[2] + 1 \/ cfg.prune
      BY <2>2, <3>1, PassCovers
    <3>3. QED
      BY <3>1, <3>2
  <2>4. PICK q \in reached : q[1] = path[i+1] /\ (q[2] = p[2] + 1 \/ cfg.prune)
    BY <2>3
  <2>5. q[2] = (i + 1) - 1 \/ cfg.prune
    BY <2>1, <2>4
  <2>6. QED
    BY <2>3, <2>4, <2>5
<1>4. \A i \in 1..Len(path) : Met(i)
  <2> DEFINE Missed == {i \in 1..Len(path) : ~Met(i)}
  <2>1. Met(1)
    BY <1>2, PassCovers
  <2>2. ASSUME Missed # {} PROVE FALSE
    <3>1. Missed \in SUBSET Nat
      OBVIOUS
    <3>2. PICK m \in Missed : \A n \in Missed : m <= n
      BY <2>2, <3>1, LeastNumber
    <3>3. m - 1 \in 1..Len(schedule) /\ m - 1 \in 1..Len(path) /\ m - 1 \notin Missed
      <4>1. m \in 1..Len(path) /\ m # 1
        BY <2>1, <3>2
      <4>2. m - 1 \in 1..Len(schedule) /\ m - 1 \in 1..Len(path)
        BY <1>2, <4>1
      <4>3. ~(m <= m - 1)
        BY <4>1
      <4>4. QED
        BY <3>2, <4>2, <4>3
    <3>4. Met(m - 1) /\ (m - 1) + 1 = m
      BY <3>3
    <3> HIDE DEF Met
    <3>5. Met(m)
      BY <1>3, <3>3, <3>4
    <3>6. QED
      BY <3>2, <3>5
  <2>3. QED
    BY <2>2
<1> HIDE DEF Met
<1>5. ASSUME NEW i \in 2..Len(path)
      PROVE  ~Violates(scene, path[i])
  <2>1. i - 1 \in 1..Len(schedule) /\ i - 1 \in 1..Len(path) /\ (i - 1) + 1 = i
    BY <1>2
  <2>2. QED
    BY <1>3, <1>4, <2>1
<1>6. QED
  BY <1>5 DEF CleanUpTo
-----------------------------------------------------------------------------
(* The evidence. *)

\* A clean execution, one transition further.
LEMMA RunGrows ==
    ASSUME scene \in Scene, NEW f \in FrameSet, IsCleanRun(f),
           NEW t \in Enabled(scene, f.state),
           NEW c, c.state = Apply(scene, f.state, t),
           c.schedule = Append(f.schedule, t), c.path = Append(f.path, c.state)
    PROVE  /\ IsRun(scene, c.path, c.schedule)
           /\ c.path[Len(c.path)] = c.state
           /\ CleanUpTo(scene, c.path, Len(c.path) - 1)
           /\ ~Violates(scene, c.state) => IsCleanRun(c)
<1>1. /\ f.state \in State(scene)
      /\ f.schedule \in Schedule
      /\ f.path \in Seq(State(scene))
      /\ IsRun(scene, f.path, f.schedule)
      /\ f.path[Len(f.path)] = f.state
      /\ CleanUpTo(scene, f.path, Len(f.path))
  BY DEF FrameSet, IsCleanRun
<1> PICK path, schedule : path = f.path /\ schedule = f.schedule
  OBVIOUS
<1> DEFINE s == Apply(scene, path[Len(path)], t)
           longer == Append(schedule, t)
           further == Append(path, s)
<1>2. s = c.state /\ longer = c.schedule /\ further = c.path
  BY <1>1
<1>3. /\ IsRun(scene, further, longer)
      /\ further[Len(further)] = s
      /\ CleanUpTo(scene, further, Len(further) - 1)
      /\ ~Violates(scene, s) => CleanUpTo(scene, further, Len(further))
  <2>1. /\ schedule \in Schedule /\ path \in Seq(State(scene))
        /\ IsRun(scene, path, schedule) /\ CleanUpTo(scene, path, Len(path))
        /\ t \in Enabled(scene, path[Len(path)])
    BY <1>1
  <2>2. QED
    BY <2>1, ExecutionGrows
<1> HIDE DEF s, longer, further
<1>4. QED
  BY <1>2, <1>3 DEF IsCleanRun

\* Unless told to continue, the search ends with the first witness.
StopsAtFirst == first # NoWitness /\ ~cfg.continueAfterViolation => pc = "done"

\* Frames are clean executions, and the witness ends one.
Grounded == TypeOK /\ FramesAreCleanRuns /\ WitnessReproduces /\ StopsAtFirst

LEMMA InitGrounded == Init => Grounded
<1> SUFFICES ASSUME Init PROVE Grounded
  OBVIOUS
<1>1. IsCleanRun(Root(scene))
  BY DEF Root, Frame, IsCleanRun, IsRun, CleanUpTo
<1>2. Waiting \cup {frame} = {Root(scene)}
  BY DEF Init, Waiting
<1>3. FramesAreCleanRuns
  BY <1>1, <1>2 DEF FramesAreCleanRuns
<1>4. WitnessReproduces /\ StopsAtFirst
  BY DEF Init, WitnessReproduces, StopsAtFirst, Result
<1>5. QED
  BY <1>3, <1>4, InitTypeOK DEF Grounded

\* While the scene and the witness stay, so does what is said of them.
LEMMA EvidenceStays ==
    ASSUME WitnessReproduces, scene' = scene, first' = first, trace' = trace,
           result'.witness \in {result.witness, first}
    PROVE  WitnessReproduces'
BY DEF WitnessReproduces

LEMMA CleanStays ==
    ASSUME NEW f, IsCleanRun(f), scene' = scene
    PROVE  IsCleanRun(f)'
BY DEF IsCleanRun

LEMMA StepGrounded == Grounded /\ Next => Grounded'
<1> SUFFICES ASSUME Grounded, Next PROVE Grounded'
  OBVIOUS
<1>1. TypeOK /\ TypeOK' /\ scene' = scene /\ scene \in Scene
  BY StepTypeOK, SameScene DEF Grounded, TypeOK, ControlOK
<1>2. FramesAreCleanRuns /\ WitnessReproduces
  BY DEF Grounded
<1>3. ASSUME Waiting' \cup {frame'} \subseteq Waiting \cup {frame}
      PROVE  FramesAreCleanRuns'
  BY <1>1, <1>2, <1>3, CleanStays DEF FramesAreCleanRuns
<1>3a. StopsAtFirst'
  BY DEF Grounded, StopsAtFirst, Next, PopLeaf, PopPruned, PopExpand, Pop,
         Finish, ChildPushed, ChildViolates, Try, input
<1>4. CASE PopLeaf \/ PopPruned
  <2>1. Waiting' \subseteq Waiting /\ frame' = frame
    BY <1>1, <1>4, WaitingPopped DEF PopLeaf, PopPruned, Pop
  <2>2. WitnessReproduces'
    BY <1>1, <1>2, <1>4, EvidenceStays DEF PopLeaf, PopPruned
  <2>3. QED
    BY <1>1, <1>3, <1>3a, <2>1, <2>2 DEF Grounded
<1>5. CASE PopExpand
  <2>1. Waiting = Waiting' \cup {frame'}
    BY <1>1, <1>5, WaitingPopped DEF PopExpand, Pop
  <2>2. WitnessReproduces'
    BY <1>1, <1>2, <1>5, EvidenceStays DEF PopExpand
  <2>3. QED
    BY <1>1, <1>3, <1>3a, <2>1, <2>2 DEF Grounded
<1>6. CASE Finish
  <2>1. Waiting' = Waiting /\ frame' = frame
    BY <1>6 DEF Finish, Waiting
  <2>2. WitnessReproduces'
    BY <1>1, <1>2, <1>6, EvidenceStays DEF Finish, Result
  <2>3. QED
    BY <1>1, <1>3, <1>3a, <2>1, <2>2 DEF Grounded
<1>7. ASSUME pc = "children"
      PROVE  /\ NextChild \in FrameSet
             /\ NextChild.schedule \in Schedule /\ NextChild.schedule # <<>>
             /\ NextChild.state \in State(scene)
             /\ IsRun(scene, NextChild.path, NextChild.schedule)
             /\ NextChild.path[Len(NextChild.path)] = NextChild.state
             /\ CleanUpTo(scene, NextChild.path, Len(NextChild.path) - 1)
             /\ ~Violates(scene, NextChild.state) => IsCleanRun(NextChild)
  <2>1. /\ frame \in FrameSet
        /\ IsCleanRun(frame)
        /\ Highest(todo) \in Enabled(scene, frame.state)
    BY <1>1, <1>2, <1>7, NextChildType DEF TypeOK, ControlOK, FramesAreCleanRuns
  <2>2. /\ NextChild.state = Apply(scene, frame.state, Highest(todo))
        /\ NextChild.schedule = Append(frame.schedule, Highest(todo))
        /\ NextChild.path = Append(frame.path, NextChild.state)
    BY <1>1, <2>1, ChildType DEF NextChild
  <2>3. QED
    BY <1>1, <1>7, <2>1, <2>2, RunGrows, NextChildType
<1>8. CASE ChildPushed
  <2> PICK c : c = NextChild
    OBVIOUS
  <2>1. IsCleanRun(c) /\ c \in FrameSet
    BY <1>7, <1>8 DEF ChildPushed, Try
  <2>2. Waiting' = Waiting \cup {c} /\ frame' = frame
    BY <1>1, <1>8, <2>1, WaitingPushed DEF ChildPushed
  <2>3. FramesAreCleanRuns'
    BY <1>1, <1>2, <2>1, <2>2, CleanStays DEF FramesAreCleanRuns
  <2>4. WitnessReproduces'
    BY <1>1, <1>2, <1>8, EvidenceStays DEF ChildPushed
  <2>5. QED
    BY <1>1, <1>3a, <2>3, <2>4 DEF Grounded
<1>9. CASE ChildViolates
  <2>1. Waiting' = Waiting /\ frame' = frame
    BY <1>9 DEF ChildViolates, Waiting
  <2>2. WitnessReproduces'
    <3>1. CASE first # NoWitness
      <4>1. cfg.continueAfterViolation
        BY <1>9, <3>1 DEF Grounded, StopsAtFirst, ChildViolates, Try
      <4>2. QED
        BY <1>1, <1>2, <1>9, <3>1, <4>1, EvidenceStays DEF ChildViolates
    <3>2. CASE first = NoWitness
      <4> PICK c : c = NextChild
        OBVIOUS
      <4>1. /\ first' = Check(scene, c.state, c.schedule)
            /\ trace' = c.path
            /\ Violates(scene, c.state)
        BY <1>9, <3>2 DEF ChildViolates
      <4>2. Check(scene, c.state, c.schedule).schedule = c.schedule
        BY <1>1, <1>7, <1>9, <4>1, CheckFails DEF ChildViolates, Try
      <4>3. result'.witness \in {NoWitness, first'}
        BY <1>2, <1>9, <3>2 DEF ChildViolates, WitnessReproduces, Result
      <4>4. QED
        BY <1>1, <1>7, <1>9, <4>1, <4>2, <4>3
           DEF ChildViolates, Try, WitnessReproduces
    <3>3. QED
      BY <3>1, <3>2
  <2>3. QED
    BY <1>1, <1>3, <1>3a, <2>1, <2>2 DEF Grounded
<1>10. QED
  BY <1>4, <1>5, <1>6, <1>8, <1>9 DEF Next

LEMMA GroundedHolds == Spec => []Grounded
<1>1. Grounded /\ UNCHANGED vars => Grounded'
  BY StepTypeOK
     DEF vars, input, Grounded, FramesAreCleanRuns, WitnessReproduces, Waiting,
         IsCleanRun, StopsAtFirst
<1>2. Grounded /\ [Next]_vars => Grounded'
  BY <1>1, StepGrounded
<1>3. QED
  BY <1>2, InitGrounded, PTL DEF Spec

\* The search stays on clean executions of the scene (scheduler.go:169).
THEOREM FramesStayClean == Spec => []FramesAreCleanRuns
BY GroundedHolds, PTL DEF Grounded

\* Replaying the schedule of a witness leads, through states that violate
\* nothing, to a state that fails the check the witness reports
\* (witness.go:5, invariant.go:15).
THEOREM WitnessesReproduce == Spec => []WitnessReproduces
BY GroundedHolds, PTL DEF Grounded

-----------------------------------------------------------------------------
(* Layers: the states that are so many transitions away.                    *)

\* An execution ends in the layer of its length.
LEMMA RunInLayers ==
    ASSUME NEW sc \in Scene, NEW schedule \in Schedule,
           NEW path \in Seq(State(sc)), IsRun(sc, path, schedule)
    PROVE  path[Len(path)] \in Layer(sc)[Len(schedule)]
<1> DEFINE N == {n \in Nat : n <= Len(schedule) => path[n+1] \in Layer(sc)[n]}
<1>1. /\ Len(schedule) \in Nat /\ Len(path) = Len(schedule) + 1
      /\ path[1] = Initial(sc)
      /\ \A i \in 1..Len(schedule) : /\ schedule[i] \in Enabled(sc, path[i])
                                     /\ path[i+1] = Apply(sc, path[i], schedule[i])
  BY DEF IsRun, Schedule
<1>2. 0 \in N
  BY <1>1, LayerDef
<1>3. ASSUME NEW n \in Nat, n \in N PROVE n + 1 \in N
  <2>1. SUFFICES ASSUME n + 1 <= Len(schedule)
                 PROVE  path[(n + 1) + 1] \in Layer(sc)[n + 1]
    OBVIOUS
  <2>2. n <= Len(schedule) /\ n + 1 \in 1..Len(schedule)
    BY <1>1, <2>1
  <2>3. path[n+1] \in Layer(sc)[n]
    BY <1>3, <2>2
  <2>4. PICK i : i = n + 1
    OBVIOUS
  <2>5. /\ schedule[i] \in Enabled(sc, path[i])
        /\ path[i+1] = Apply(sc, path[i], schedule[i])
    BY <1>1, <2>2, <2>4
  <2>6. path[i+1] \in Successors(sc, Layer(sc)[n])
    BY <2>3, <2>4, <2>5 DEF Successors
  <2>7. QED
    BY <2>4, <2>6, LayerDef
<1>4. Nat \subseteq N
  <2> HIDE DEF N
  <2>1. QED
    BY <1>2, <1>3, AllNumbers
<1>5. QED
  BY <1>1, <1>4

\* After an empty layer there are no others.
LEMMA LayersEnd ==
    ASSUME NEW sc \in Scene, NEW m \in Nat, Layer(sc)[m] = {},
           NEW n \in Nat, m <= n
    PROVE  Layer(sc)[n] = {}
<1> DEFINE N == {k \in Nat : Layer(sc)[m+k] = {}}
<1>1. 0 \in N
  OBVIOUS
<1>2. ASSUME NEW k \in Nat, k \in N PROVE k + 1 \in N
  <2>1. m + k \in Nat /\ m + (k + 1) = (m + k) + 1
    OBVIOUS
  <2>2. Layer(sc)[(m + k) + 1] = Successors(sc, Layer(sc)[m + k])
    BY <2>1, LayerDef
  <2>3. QED
    BY <1>2, <2>1, <2>2 DEF Successors
<1>3. Nat \subseteq N
  <2> HIDE DEF N
  <2>1. QED
    BY <1>1, <1>2, AllNumbers
<1>4. n - m \in Nat /\ m + (n - m) = n
  OBVIOUS
<1>5. QED
  BY <1>3, <1>4

\* The first so many layers of sc have no state in common.
Apart(sc, k) == \A n \in 1..k : \A m \in 0..n-1 : Layer(sc)[m] \cap Layer(sc)[n] = {}

\* If they are as many as there are states, the next one is empty.
LEMMA LastLayer ==
    ASSUME NEW sc \in Scene, IsFiniteSet(State(sc)),
           Apart(sc, Cardinality(State(sc)))
    PROVE  Layer(sc)[Cardinality(State(sc))] = {}
<1> DEFINE k == Cardinality(State(sc))
           S == 0..k
           f == [i \in S |-> CHOOSE s : s \in Layer(sc)[i]]
<1>1. k \in Nat
  BY FS_CardinalityType
<1>2. IsFiniteSet(S) /\ Cardinality(S) = k + 1
  <2>1. 0 \in Int /\ k \in Int /\ ~(0 > k) /\ k - 0 + 1 = k + 1
    BY <1>1
  <2>2. IsFiniteSet(S) /\ Cardinality(S) = k - 0 + 1
    BY <2>1, FS_Interval
  <2>3. QED
    BY <2>1, <2>2
<1>3. \A i \in Nat : Layer(sc)[i] \in SUBSET State(sc)
  BY LayerDef
<1>4. \A i \in S, j \in S : i < j => Layer(sc)[i] \cap Layer(sc)[j] = {}
  <2>1. \A i \in S, j \in S : i < j => j \in 1..k /\ i \in 0..j-1
    BY <1>1
  <2>2. QED
    BY <2>1 DEF Apart
<1>5. S \subseteq Nat
  BY <1>1
<1>6. Layer(sc)[k] = {}
  <2> SUFFICES ASSUME Layer(sc)[k] # {} PROVE FALSE
    OBVIOUS
  <2>1. \A i \in S : Layer(sc)[i] # {}
    <3>1. \A i \in S : i \in Nat /\ i <= k
      BY <1>1
    <3>2. QED
      BY <1>1, <3>1, LayersEnd
  <2>2. \A i \in S : f[i] \in Layer(sc)[i]
    BY <2>1
  <2>3. f \in [S -> State(sc)]
    BY <1>3, <1>5, <2>2
  <2> HIDE DEF S, f
  <2>4. Cardinality(State(sc)) < Cardinality(S)
    BY <1>1, <1>2
  <2>5. PICK i \in S, j \in S : i # j /\ f[i] = f[j]
    BY <1>2, <2>3, <2>4, FS_PigeonHole
  <2>6. i < j \/ j < i
    BY <1>5, <2>5
  <2>7. QED
    BY <1>4, <2>2, <2>5, <2>6
<1>7. QED
  BY <1>6

\* Then no two layers have a state in common.
LEMMA LayersApart ==
    ASSUME NEW sc \in Scene, IsFiniteSet(State(sc)),
           Apart(sc, Cardinality(State(sc))),
           NEW m \in Nat, NEW n \in Nat, m # n
    PROVE  Layer(sc)[m] \cap Layer(sc)[n] = {}
<1> DEFINE k == Cardinality(State(sc))
           S == 0..k
<1>1. k \in Nat /\ Layer(sc)[k] = {}
  BY FS_CardinalityType, LastLayer
<1>2. \A i \in S, j \in S : i < j => Layer(sc)[i] \cap Layer(sc)[j] = {}
  <2>1. \A i \in S, j \in S : i < j => j \in 1..k /\ i \in 0..j-1
    BY <1>1
  <2>2. QED
    BY <2>1 DEF Apart
<1>3. \A i \in Nat : i \notin S => Layer(sc)[i] = {}
  <2>1. \A i \in Nat : i \notin S => k <= i
    BY <1>1
  <2>2. QED
    BY <1>1, <2>1, LayersEnd
<1> HIDE DEF S, k
<1>4. m < n \/ n < m
  OBVIOUS
<1>5. QED
  BY <1>2, <1>3, <1>4

\* What was popped is in the layer of its depth.
InLayers == \A p \in reached : p[1] \in Layer(scene)[p[2]]

LEMMA StepInLayers ==
    ASSUME Grounded, InLayers, [Next]_vars
    PROVE  InLayers'
<1>1. scene' = scene /\ scene \in Scene
  BY SameScene DEF vars, input, Grounded, TypeOK, ControlOK
<1>2. CASE reached' = reached
  BY <1>1, <1>2 DEF InLayers
<1>3. ASSUME Pop PROVE InLayers'
  <2>1. stack \in Seq(FrameSet) /\ stack # <<>>
    BY <1>3 DEF Pop, Grounded, TypeOK, ControlOK
  <2>2. PICK f : f = Head(stack)
    OBVIOUS
  <2>3. f \in FrameSet /\ f \in Waiting
    <3>1. Len(stack) \in Nat \ {0} /\ f = stack[1]
      BY <2>1, <2>2, EmptySeq
    <3>2. QED
      BY <2>1, <3>1 DEF Waiting
  <2>4. IsCleanRun(f)
    BY <2>3 DEF Grounded, FramesAreCleanRuns
  <2>5. PICK path, schedule : path = f.path /\ schedule = f.schedule
    OBVIOUS
  <2>6. /\ schedule \in Schedule /\ path \in Seq(State(scene))
        /\ IsRun(scene, path, schedule) /\ path[Len(path)] = f.state
    BY <2>3, <2>4, <2>5 DEF IsCleanRun, FrameSet
  <2>7. f.state \in Layer(scene)[Len(schedule)]
    BY <1>1, <2>6, RunInLayers
  <2>8. reached' = reached \cup {<<f.state, Len(schedule)>>}
    BY <1>3, <2>2, <2>5 DEF Pop, Depth
  <2>9. QED
    BY <1>1, <2>7, <2>8 DEF InLayers
<1>4. QED
  BY <1>2, <1>3 DEF Next, vars, PopLeaf, PopPruned, PopExpand, Finish,
                    ChildPushed, ChildViolates

LEMMA InLayersHolds == Spec => []InLayers
<1>1. Init => InLayers
  BY DEF Init, InLayers
<1>2. Grounded /\ InLayers /\ [Next]_vars => InLayers'
  BY StepInLayers
<1>3. QED
  BY <1>1, <1>2, GroundedHolds, PTL DEF Spec

\* "Passed" means that no state within the horizon violates an invariant: with
\* pruning under a bound too, if the states embed their progress, for every
\* scene with finitely many states (stats.go:25-27, scheduler.go:69, 176-178).
THEOREM PassesAreSound ==
    Spec => [](IsFiniteSet(State(scene)) => PassIsSound)
<1> SUFFICES Coverage /\ InLayers => (IsFiniteSet(State(scene)) => PassIsSound)
  BY CoverageHolds, InLayersHolds, PTL
<1> DEFINE horizon == IF cfg.maxDepth = 0 THEN Cardinality(State(scene))
                      ELSE cfg.maxDepth
<1> SUFFICES ASSUME Coverage, InLayers, IsFiniteSet(State(scene)),
                    pc = "done", result.passed,
                    cfg.maxDepth = 0 \/ ~cfg.prune \/ EmbedsProgress
             PROVE  \A n \in 1..horizon : \A s \in Layer(scene)[n] :
                       ~Violates(scene, s)
  BY DEF PassIsSound
<1>1. /\ scene \in Scene /\ cfg.maxDepth \in Nat /\ cfg.prune \in BOOLEAN
      /\ \A p \in reached : p[2] \in Nat
  BY DEF Coverage, TypeOK, ControlOK, FoundOK, Config
<1>2. horizon \in Nat /\ (cfg.maxDepth > 0 => horizon = cfg.maxDepth)
  BY <1>1, FS_CardinalityType
<1> HIDE DEF horizon
<1> DEFINE Met(n) == \A s \in Layer(scene)[n] :
                        \E p \in reached : p[1] = s /\ (p[2] = n \/ cfg.prune)
           N == {n \in Nat : n <= horizon => Met(n)}
<1>3. ASSUME NEW n \in Nat, n < horizon, Met(n), NEW s \in Layer(scene)[n+1]
      PROVE  /\ ~Violates(scene, s)
             /\ \E p \in reached : p[1] = s /\ (p[2] = n + 1 \/ cfg.prune)
  <2>1. PICK r \in Layer(scene)[n] :
           \E t \in Enabled(scene, r) : s = Apply(scene, r, t)
    BY <1>1, LayerDef DEF Successors
  <2>2. PICK p \in reached : p[1] = r /\ (p[2] = n \/ cfg.prune)
    BY <1>3
  <2>3. ~(cfg.maxDepth > 0 /\ p[2] >= cfg.maxDepth)
    <3>1. SUFFICES ASSUME cfg.maxDepth > 0 PROVE p[2] = n
      BY <1>1, <1>2, <1>3
    <3>2. CASE ~cfg.prune
      BY <2>2, <3>2
    <3>3. CASE EmbedsProgress
      <4>1. Apart(scene, Cardinality(State(scene)))
        BY <3>3 DEF EmbedsProgress, Apart
      <4>2. r \in Layer(scene)[p[2]]
        BY <2>2 DEF InLayers
      <4>3. QED
        BY <1>1, <2>1, <4>1, <4>2, LayersApart
    <3>4. QED
      BY <1>1, <3>1, <3>2, <3>3
  <2>4. /\ ~Violates(scene, s)
        /\ \E q \in reached : q[1] = s /\ (q[2] = p[2] + 1 \/ cfg.prune)
    BY <2>1, <2>2, <2>3, PassCovers
  <2>5. QED
    BY <2>2, <2>4
<1>4. 0 \in N
  BY <1>1, PassCovers, LayerDef
<1>5. ASSUME NEW n \in Nat, n \in N PROVE n + 1 \in N
  <2>1. n + 1 <= horizon => n < horizon /\ n <= horizon
    BY <1>2
  <2>2. QED
    BY <1>3, <1>5, <2>1
<1>6. Nat \subseteq N
  <2> HIDE DEF N
  <2>1. QED
    BY <1>4, <1>5, AllNumbers
<1>7. QED
  <2>1. SUFFICES ASSUME NEW n \in 1..horizon, NEW s \in Layer(scene)[n]
                 PROVE  ~Violates(scene, s)
    OBVIOUS
  <2>2. PICK m : m = n - 1
    OBVIOUS
  <2>3. m \in Nat /\ m < horizon /\ m <= horizon /\ n = m + 1
    BY <1>2, <2>2
  <2>4. Met(m)
    BY <1>6, <2>3
  <2>5. QED
    BY <1>3, <2>1, <2>3, <2>4

-----------------------------------------------------------------------------
(* The statistics. *)

\* The counters balance, and the sets they are compared with are finite.
Balanced == IsFiniteSet(expanded) /\ IsFiniteSet(seen) /\ StatsBalance

\* The parts of StatsBalance.
StatesBalance ==
    cfg.measure /\ cfg.prune =>
        stats.visited = Len(stack) + stats.schedules + stats.pruned
                        + Cardinality(expanded)

UniqueBalance == cfg.measure => stats.unique = Cardinality(seen)

SchedulesBalance ==
    cfg.measure =>
        stats.schedules - explored =
            IF first # NoWitness /\ ~cfg.continueAfterViolation THEN 1 ELSE 0

\* What one more of a counter does to all of them.
LEMMA CountAdds ==
    ASSUME NEW counts \in Tallies, NEW c \in Tally
    PROVE  \A d \in Tally :
              Count(counts, c)[d] = IF d = c THEN counts[d] + 1 ELSE counts[d]
BY DEF Count, Tallies

LEMMA VisitedAdds ==
    ASSUME stats \in Tallies, NEW s
    PROVE  /\ Visited(s).visited = stats.visited + 1
           /\ Visited(s).unique = IF Fingerprint(scene, s) \in seen
                                  THEN stats.unique ELSE stats.unique + 1
           /\ Visited(s).schedules = stats.schedules
           /\ Visited(s).pruned = stats.pruned
<1>1. /\ "visited" \in Tally /\ "unique" \in Tally
      /\ "schedules" \in Tally /\ "pruned" \in Tally
  BY DEF Tally
<1>2. Count(stats, "visited") \in Tallies
  BY <1>1, CountType
<1>3. QED
  BY <1>1, <1>2, CountAdds DEF Visited

LEMMA InitBalanced == Init => Balanced
<1> SUFFICES ASSUME Init PROVE Balanced
  OBVIOUS
<1>1. IsFiniteSet({}) /\ Cardinality({}) = 0
  BY FS_EmptySet
<1>2. IsFiniteSet(seen) /\ Cardinality(seen) = 1
  BY FS_Singleton DEF Init
<1>3. /\ stats.visited = 1 /\ stats.unique = 1
      /\ stats.schedules = 0 /\ stats.pruned = 0
  BY DEF Init, Tally
<1>4. Len(stack) = 1
  BY DEF Init
<1>5. QED
  BY <1>1, <1>2, <1>3, <1>4 DEF Init, Balanced, StatsBalance

LEMMA StepBalanced == Grounded /\ Balanced /\ Next => Balanced'
<1> SUFFICES ASSUME Grounded, Balanced, Next PROVE Balanced'
  OBVIOUS
<1>1. TypeOK /\ stats \in Tallies /\ explored \in Nat /\ stack \in Seq(FrameSet)
  BY DEF Grounded, TypeOK, CountsOK, ControlOK
<1>2. cfg' = cfg
  BY SameScene
<1>3. /\ stats.visited \in Nat /\ stats.unique \in Nat
      /\ stats.schedules \in Nat /\ stats.pruned \in Nat
  BY <1>1 DEF Tallies, Tally
<1>4. /\ "schedules" \in Tally /\ "visited" \in Tally /\ "unique" \in Tally
      /\ "pruned" \in Tally /\ "violations" \in Tally
  BY DEF Tally
<1>5. /\ IsFiniteSet(expanded) /\ Cardinality(expanded) \in Nat
      /\ IsFiniteSet(seen) /\ Cardinality(seen) \in Nat
  BY FS_CardinalityType DEF Balanced
<1>5a. StatesBalance /\ UniqueBalance /\ SchedulesBalance
  BY DEF Balanced, StatsBalance, StatesBalance, UniqueBalance, SchedulesBalance
<1>5b. IsFiniteSet(expanded') /\ IsFiniteSet(seen') /\ StatesBalance'
         /\ UniqueBalance' /\ SchedulesBalance' => Balanced'
  BY DEF Balanced, StatsBalance, StatesBalance, UniqueBalance, SchedulesBalance
<1>5c. Len(stack) \in Nat
  BY <1>1
<1> DEFINE waiting == Len(stack)
           later == Len(stack')
           keys == Cardinality(expanded)
           laterKeys == Cardinality(expanded')
<1>5d. /\ waiting \in Nat /\ keys \in Nat
       /\ cfg.measure /\ cfg.prune =>
             stats.visited = waiting + stats.schedules + stats.pruned + keys
  BY <1>5, <1>5a, <1>5c DEF StatesBalance
<1>5e. (cfg.measure /\ cfg.prune =>
           stats'.visited = later + stats'.schedules + stats'.pruned + laterKeys)
       => StatesBalance'
  BY <1>2 DEF StatesBalance
<1>6. stack # <<>> => Len(Tail(stack)) = Len(stack) - 1 /\ Len(stack) \in Nat \ {0}
  BY <1>1
<1>7. CASE PopLeaf
  <2>1. /\ Len(stack') = Len(stack) - 1
        /\ explored' = explored + 1
        /\ UNCHANGED <<expanded, seen, first>>
        /\ Meter(Count(stats, "schedules"))
    BY <1>6, <1>7 DEF PopLeaf, Pop
  <2>2. cfg.measure => /\ stats'.schedules = stats.schedules + 1
                       /\ stats'.visited = stats.visited
                       /\ stats'.unique = stats.unique
                       /\ stats'.pruned = stats.pruned
    BY <1>1, <1>4, <2>1, CountAdds DEF Meter
  <2>3. StatesBalance'
    <3>1. later = waiting - 1 /\ laterKeys = keys
      BY <2>1, <2>2
    <3> HIDE DEF waiting, later, keys, laterKeys
    <3>2. QED
      BY <1>3, <2>2, <1>5d, <1>5e, <3>1
  <2>4. UniqueBalance'
    BY <1>1, <1>2, <1>3, <1>5, <2>1, <2>2, <1>5a, <1>5c
       DEF UniqueBalance
  <2>5. SchedulesBalance'
    BY <1>1, <1>2, <1>3, <1>5, <2>1, <2>2, <1>5a, <1>5c
       DEF SchedulesBalance
  <2>6. QED
    BY <1>5, <1>5b, <2>1, <2>3, <2>4, <2>5
<1>8. CASE PopPruned
  <2>1. /\ Len(stack') = Len(stack) - 1
        /\ UNCHANGED <<explored, expanded, seen, first>>
        /\ Meter(Count(stats, "pruned"))
    BY <1>6, <1>8 DEF PopPruned
  <2>2. cfg.measure => /\ stats'.schedules = stats.schedules
                       /\ stats'.visited = stats.visited
                       /\ stats'.unique = stats.unique
                       /\ stats'.pruned = stats.pruned + 1
    BY <1>1, <1>4, <2>1, CountAdds DEF Meter
  <2>3. StatesBalance'
    <3>1. later = waiting - 1 /\ laterKeys = keys
      BY <2>1, <2>2
    <3> HIDE DEF waiting, later, keys, laterKeys
    <3>2. QED
      BY <1>3, <2>2, <1>5d, <1>5e, <3>1
  <2>4. UniqueBalance'
    BY <1>1, <1>2, <1>3, <1>5, <2>1, <2>2, <1>5a, <1>5c
       DEF UniqueBalance
  <2>5. SchedulesBalance'
    BY <1>1, <1>2, <1>3, <1>5, <2>1, <2>2, <1>5a, <1>5c
       DEF SchedulesBalance
  <2>6. QED
    BY <1>5, <1>5b, <2>1, <2>3, <2>4, <2>5
<1>9. CASE PopExpand
  <2>1. /\ Len(stack') = Len(stack) - 1
        /\ UNCHANGED <<explored, stats, seen, first>>
    BY <1>6, <1>9 DEF PopExpand, Pop
  <2>2. /\ IsFiniteSet(expanded')
        /\ cfg.prune => Cardinality(expanded') = Cardinality(expanded) + 1
    <3> DEFINE key == NodeKey(scene, Head(stack).state)
    <3>1. /\ cfg.prune => key \notin expanded
          /\ expanded' = IF cfg.prune THEN expanded \cup {key} ELSE expanded
      BY <1>9 DEF PopExpand, Known
    <3> HIDE DEF key
    <3>2. QED
      BY <1>5, <3>1, FS_AddElement
  <2>3. StatesBalance'
    <3>1. /\ later = waiting - 1 /\ stats' = stats
          /\ cfg.prune => laterKeys = keys + 1
      BY <2>1, <2>2
    <3> HIDE DEF waiting, later, keys, laterKeys
    <3>2. QED
      BY <1>3, <1>5d, <1>5e, <3>1
  <2>4. UniqueBalance'
    BY <1>1, <1>2, <1>3, <1>5, <1>6, <2>1, <2>2, <1>5a, <1>5c
       DEF UniqueBalance
  <2>5. SchedulesBalance'
    BY <1>1, <1>2, <1>3, <1>5, <1>6, <2>1, <2>2, <1>5a, <1>5c
       DEF SchedulesBalance
  <2>6. QED
    BY <1>5, <1>5b, <2>1, <2>2, <2>3, <2>4, <2>5
<1>10. CASE Finish
  BY <1>2, <1>10 DEF Finish, Balanced, StatsBalance
<1>11. ASSUME Try
       PROVE  /\ IsFiniteSet(seen')
              /\ cfg.measure =>
                    Cardinality(seen') =
                       IF Fingerprint(scene, NextChild.state) \in seen
                       THEN Cardinality(seen) ELSE Cardinality(seen) + 1
  <2> DEFINE mark == Fingerprint(scene, NextChild.state)
  <2>1. seen' = IF cfg.measure THEN seen \cup {mark} ELSE seen
    BY <1>11 DEF Try
  <2> HIDE DEF mark
  <2>2. /\ IsFiniteSet(seen')
        /\ cfg.measure => Cardinality(seen') = IF mark \in seen THEN Cardinality(seen)
                                               ELSE Cardinality(seen) + 1
    BY <1>5, <2>1, FS_AddElement
  <2>3. QED
    BY <2>2 DEF mark
<1>12. CASE ChildPushed
  <2>1. /\ Try
        /\ stack' = <<NextChild>> \o stack
        /\ UNCHANGED <<explored, expanded, first>>
        /\ Meter(Visited(NextChild.state))
    BY <1>12 DEF ChildPushed
  <2>2. Len(stack') = Len(stack) + 1
    BY <1>1, <2>1, NextChildType DEF Try
  <2>3. cfg.measure =>
          /\ stats'.visited = stats.visited + 1
          /\ stats'.unique = IF Fingerprint(scene, NextChild.state) \in seen
                             THEN stats.unique ELSE stats.unique + 1
          /\ stats'.schedules = stats.schedules
          /\ stats'.pruned = stats.pruned
    BY <1>1, <2>1, VisitedAdds DEF Meter
  <2>4. StatesBalance'
    <3>1. later = waiting + 1 /\ laterKeys = keys
      BY <2>1, <2>2
    <3> HIDE DEF waiting, later, keys, laterKeys
    <3>2. QED
      BY <1>3, <2>3, <1>5d, <1>5e, <3>1
  <2>5. UniqueBalance'
    BY <1>1, <1>2, <1>3, <1>5, <1>11, <2>1, <2>2, <2>3, <1>5a, <1>5c
       DEF UniqueBalance
  <2>6. SchedulesBalance'
    BY <1>1, <1>2, <1>3, <1>5, <1>11, <2>1, <2>2, <2>3, <1>5a, <1>5c
       DEF SchedulesBalance
  <2>7. QED
    BY <1>5, <1>5b, <1>11, <2>1, <2>4, <2>5, <2>6
<1>13. CASE ChildViolates
  <2>1. /\ Try
        /\ UNCHANGED <<stack, expanded>>
        /\ Meter(Count(Count(Visited(NextChild.state), "violations"), "schedules"))
    BY <1>13 DEF ChildViolates
  <2>2. cfg.measure =>
          /\ stats'.visited = stats.visited + 1
          /\ stats'.unique = IF Fingerprint(scene, NextChild.state) \in seen
                             THEN stats.unique ELSE stats.unique + 1
          /\ stats'.schedules = stats.schedules + 1
          /\ stats'.pruned = stats.pruned
    <3> DEFINE new == Visited(NextChild.state)
               more == Count(new, "violations")
    <3>1. new \in Tallies /\ more \in Tallies
      BY <1>1, <1>4, VisitedType, CountType
    <3>2. /\ more.visited = new.visited /\ more.unique = new.unique
          /\ more.schedules = new.schedules /\ more.pruned = new.pruned
      BY <1>4, <3>1, CountAdds
    <3>3. LET all == Count(more, "schedules")
          IN  /\ all.visited = more.visited /\ all.unique = more.unique
              /\ all.schedules = more.schedules + 1 /\ all.pruned = more.pruned
      BY <1>4, <3>1, CountAdds
    <3>4. QED
      BY <1>1, <2>1, <3>2, <3>3, VisitedAdds DEF Meter
  <2>3. /\ first' # NoWitness
        /\ explored' = IF cfg.continueAfterViolation THEN explored + 1 ELSE explored
    <3>1. /\ pc = "children" /\ scene \in Scene
          /\ Violates(scene, NextChild.state)
      BY <1>1, <1>13, <2>1 DEF ChildViolates, Try, TypeOK, ControlOK
    <3>2. Check(scene, NextChild.state, NextChild.schedule) # NoWitness
      BY <1>1, <3>1, NextChildType, CheckFails
    <3>3. QED
      BY <1>13, <3>2 DEF ChildViolates
  <2>4. ~cfg.continueAfterViolation => first = NoWitness
    BY <2>1 DEF Grounded, StopsAtFirst, Try
  <2>5. StatesBalance'
    <3>1. later = waiting /\ laterKeys = keys
      BY <2>1, <2>2
    <3> HIDE DEF waiting, later, keys, laterKeys
    <3>2. QED
      BY <1>3, <2>2, <1>5d, <1>5e, <3>1
  <2>6. UniqueBalance'
    BY <1>1, <1>2, <1>3, <1>5, <1>11, <2>1, <2>2, <2>3, <2>4, <1>5a, <1>5c
       DEF UniqueBalance
  <2>7. SchedulesBalance'
    BY <1>1, <1>2, <1>3, <1>5, <1>11, <2>1, <2>2, <2>3, <2>4, <1>5a, <1>5c
       DEF SchedulesBalance
  <2>8. QED
    BY <1>5, <1>5b, <1>11, <2>1, <2>5, <2>6, <2>7
<1>14. QED
  BY <1>7, <1>8, <1>9, <1>10, <1>12, <1>13 DEF Next

\* Every state visited is accounted for, whatever the scene, the bound and the
\* options; the number of schedules in the statistics and in the result differ
\* by the violation that stopped the search, and by nothing else
\* (stats.go:96-125, scheduler.go:152-164).
THEOREM StatisticsBalance == Spec => []StatsBalance
<1>1. Balanced /\ UNCHANGED vars => Balanced'
  BY DEF vars, input, Balanced, StatsBalance
<1>2. Grounded /\ Balanced /\ [Next]_vars => Balanced'
  BY <1>1, StepBalanced
<1>3. Balanced => StatsBalance
  BY DEF Balanced
<1>4. QED
  BY <1>2, <1>3, InitBalanced, GroundedHolds, PTL DEF Spec
-----------------------------------------------------------------------------
(* The canonical witness. *)

\* The transitions from s to a violation.
Bad(sc, s) == {t \in Enabled(sc, s) : Violates(sc, Apply(sc, s, t))}

\* Those after which A has something to offer.
Promising(sc, A, s) == {t \in Enabled(sc, s) : A[Apply(sc, s, t)] # <<>>}

\* What comes first from s, when A is what comes first from its successors.
Ahead(sc, A, s) ==
    IF Bad(sc, s) # {} THEN <<Highest(Bad(sc, s))>>
    ELSE IF Promising(sc, A, s) = {} THEN <<>>
    ELSE <<Lowest(Promising(sc, A, s))>>
         \o A[Apply(sc, s, Lowest(Promising(sc, A, s)))]

LEMMA LowestIn ==
    ASSUME NEW sc \in Scene, NEW s \in State(sc),
           NEW U \in SUBSET Enabled(sc, s), U # {}
    PROVE  /\ Lowest(U) \in U
           /\ \A u \in U \ {Lowest(U)} : Precedes(Lowest(U), u)
BY SortedAssumption DEF Lowest

LEMMA HighestOf ==
    ASSUME NEW sc \in Scene, NEW s \in State(sc),
           NEW U \in SUBSET Enabled(sc, s), U # {}
    PROVE  /\ Highest(U) \in U
           /\ \A u \in U \ {Highest(U)} : Precedes(u, Highest(U))
BY OrderAssumption DEF Highest

\* There is but one first and one last.
LEMMA OneLowest ==
    ASSUME NEW sc \in Scene, NEW s \in State(sc),
           NEW U \in SUBSET Enabled(sc, s),
           NEW t \in U, \A u \in U \ {t} : Precedes(t, u)
    PROVE  t = Lowest(U)
<1>1. U # {}
  OBVIOUS
<1>2. Lowest(U) \in U /\ \A u \in U \ {Lowest(U)} : Precedes(Lowest(U), u)
  BY <1>1, LowestIn
<1>3. QED
  BY <1>2, SortedAssumption

LEMMA OneHighest ==
    ASSUME NEW sc \in Scene, NEW s \in State(sc),
           NEW U \in SUBSET Enabled(sc, s),
           NEW t \in U, \A u \in U \ {t} : Precedes(u, t)
    PROVE  t = Highest(U)
<1>1. U # {}
  OBVIOUS
<1>2. Highest(U) \in U /\ \A u \in U \ {Highest(U)} : Precedes(u, Highest(U))
  BY <1>1, HighestOf
<1>3. QED
  BY <1>2, SortedAssumption

LEMMA AheadType ==
    ASSUME NEW sc \in Scene, NEW A \in [State(sc) -> Schedule], NEW s \in State(sc)
    PROVE  Ahead(sc, A, s) \in Schedule
<1> PICK bad, U : bad = Bad(sc, s) /\ U = Promising(sc, A, s)
  OBVIOUS
<1>1. bad \in SUBSET Enabled(sc, s) /\ U \in SUBSET Enabled(sc, s)
  BY DEF Bad, Promising
<1>2. Enabled(sc, s) \subseteq Transition
      /\ \A t \in Enabled(sc, s) : Apply(sc, s, t) \in State(sc)
  BY SceneAssumption
<1>3. CASE bad # {}
  <2>1. Highest(bad) \in Transition
    BY <1>1, <1>2, <1>3, HighestOf
  <2>2. <<Highest(bad)>> \in Schedule
    BY <2>1 DEF Schedule
  <2>3. QED
    BY <1>3, <2>2 DEF Ahead
<1>4. CASE bad = {} /\ U = {}
  <2>1. <<>> \in Schedule
    BY DEF Schedule
  <2>2. QED
    BY <1>4, <2>1 DEF Ahead
<1>5. CASE bad = {} /\ U # {}
  <2>1. Lowest(U) \in Enabled(sc, s)
    BY <1>1, <1>5, LowestIn
  <2>2. PICK t, a : t = Lowest(U) /\ a = A[Apply(sc, s, t)]
    OBVIOUS
  <2>3. t \in Transition /\ a \in Schedule
    BY <1>2, <2>1, <2>2
  <2>4. <<t>> \o a \in Schedule
    BY <2>3 DEF Schedule
  <2>5. QED
    BY <1>5, <2>2, <2>4 DEF Ahead
<1>6. QED
  BY <1>3, <1>4, <1>5

\* The canonical schedules, one horizon after the other.
LEMMA CanonicalDef ==
    ASSUME NEW sc \in Scene
    PROVE  \A n \in Nat :
              /\ Canonical(sc)[n] \in [State(sc) -> Schedule]
              /\ \A s \in State(sc) :
                    /\ Canonical(sc)[0][s] = <<>>
                    /\ Canonical(sc)[n+1][s] = Ahead(sc, Canonical(sc)[n], s)
<1> DEFINE D == [State(sc) -> Schedule]
           zero == [s \in State(sc) |-> <<>>]
           step == [n \in Nat |-> [A \in D |-> [s \in State(sc) |-> Ahead(sc, A, s)]]]
           Equation(C) == C = [n \in Nat |->
                                 [s \in State(sc) |->
                                    IF n = 0 THEN <<>> ELSE Ahead(sc, C[n-1], s)]]
<1>1. step \in [Nat -> [D -> D]] /\ zero \in D
  <2>1. <<>> \in Schedule
    BY DEF Schedule
  <2>2. \A A \in D : [s \in State(sc) |-> Ahead(sc, A, s)] \in D
    BY AheadType
  <2>3. QED
    BY <2>1, <2>2
<1> HIDE DEF D, step, zero
<1>2. PICK f \in [Nat -> D] : Follows(f, zero, step)
  BY <1>1, Recursion
<1>3. \A n \in Nat : f[n+1] = [s \in State(sc) |-> Ahead(sc, f[n], s)]
  <2>1. ASSUME NEW n \in Nat PROVE f[n] \in D /\ n + 1 \in Nat
    OBVIOUS
  <2>2. QED
    BY <1>2, <2>1 DEF step, Follows
<1>4. Equation(f)
  <2>1. \A n \in Nat : n # 0 =>
            n - 1 \in Nat /\ f[n] = [s \in State(sc) |-> Ahead(sc, f[n-1], s)]
    <3>1. ASSUME NEW n \in Nat, n # 0 PROVE n - 1 \in Nat /\ (n - 1) + 1 = n
      BY <3>1
    <3>2. QED
      BY <1>3, <3>1
  <2>2. f[0] = [s \in State(sc) |-> <<>>]
    BY <1>2 DEF Follows, zero
  <2>3. ASSUME NEW n \in Nat
        PROVE  f[n] = [s \in State(sc) |->
                          IF n = 0 THEN <<>> ELSE Ahead(sc, f[n-1], s)]
    <3>1. CASE n = 0
      BY <2>2, <3>1
    <3>2. CASE n # 0
      BY <2>1, <3>2
    <3>3. QED
      BY <3>1, <3>2
  <2>4. QED
    BY <2>3
<1>5. Canonical(sc) = CHOOSE C : Equation(C)
  BY DEF Canonical, Ahead, Bad, Promising, Highest, Lowest
<1>6. Equation(Canonical(sc))
  <2> HIDE DEF Equation
  <2>1. QED
    BY <1>4, <1>5
<1>7. ASSUME NEW C, Equation(C), NEW n \in Nat
      PROVE  /\ C[0] = zero
             /\ C[n+1] = [s \in State(sc) |-> Ahead(sc, C[n], s)]
  <2>1. n + 1 \in Nat /\ n + 1 # 0 /\ (n + 1) - 1 = n
    OBVIOUS
  <2>2. QED
    BY <1>7, <2>1 DEF zero
<1>8. \A n \in Nat : Canonical(sc)[n] \in D
  <2> DEFINE N == {n \in Nat : Canonical(sc)[n] \in D}
  <2>1. 0 \in N
    BY <1>1, <1>6, <1>7
  <2>2. \A n \in Nat : n \in N => n + 1 \in N
    BY <1>6, <1>7, AheadType DEF D
  <2>3. Nat \subseteq N
    <3> HIDE DEF N
    <3>1. QED
      BY <2>1, <2>2, AllNumbers
  <2>4. QED
    BY <2>3
<1>9. ASSUME NEW n \in Nat, NEW s \in State(sc)
      PROVE  /\ Canonical(sc)[0][s] = <<>>
             /\ Canonical(sc)[n+1][s] = Ahead(sc, Canonical(sc)[n], s)
  BY <1>6, <1>7 DEF zero
<1>10. QED
  BY <1>8, <1>9 DEF D

\* What comes first, case by case.
LEMMA CanonicalNext ==
    ASSUME NEW sc \in Scene, NEW s \in State(sc), NEW n \in Nat,
           NEW U, U = Promising(sc, Canonical(sc)[n], s)
    PROVE  /\ Bad(sc, s) # {} => Canonical(sc)[n+1][s] = <<Highest(Bad(sc, s))>>
           /\ Bad(sc, s) = {} /\ U = {} => Canonical(sc)[n+1][s] = <<>>
           /\ Bad(sc, s) = {} /\ U # {} =>
                 Canonical(sc)[n+1][s] =
                    <<Lowest(U)>> \o Canonical(sc)[n][Apply(sc, s, Lowest(U))]
BY CanonicalDef DEF Ahead

\* A schedule that goes on from a transition is not empty.
LEMMA NotEmpty ==
    ASSUME NEW t \in Transition, NEW a \in Schedule
    PROVE  /\ <<t>> \o a # <<>> /\ <<t>> # <<>> /\ <<t>> \o a \in Schedule
           /\ Len(<<t>> \o a) = Len(a) + 1
<1>1. <<t>> \o a \in Seq(Transition) /\ Len(<<t>> \o a) = 1 + Len(a) /\ Len(a) \in Nat
  BY DEF Schedule
<1>2. Len(<<>>) = 0 /\ Len(<<t>>) = 1
  OBVIOUS
<1>3. QED
  BY <1>1, <1>2 DEF Schedule

\* It leads somewhere exactly if a successor violates or leads somewhere.
LEMMA CanonicalEmpty ==
    ASSUME NEW sc \in Scene, NEW s \in State(sc), NEW n \in Nat
    PROVE  Canonical(sc)[n+1][s] = <<>> <=>
              Bad(sc, s) = {} /\ Promising(sc, Canonical(sc)[n], s) = {}
<1> PICK bad, U : bad = Bad(sc, s) /\ U = Promising(sc, Canonical(sc)[n], s)
  OBVIOUS
<1>1. bad \in SUBSET Enabled(sc, s) /\ U \in SUBSET Enabled(sc, s)
  BY DEF Bad, Promising
<1>2. Enabled(sc, s) \subseteq Transition
      /\ \A t \in Enabled(sc, s) : Apply(sc, s, t) \in State(sc)
  BY SceneAssumption
<1>3. CASE bad # {}
  <2>1. Highest(bad) \in Transition
    BY <1>1, <1>2, <1>3, HighestOf
  <2>2. <<Highest(bad)>> # <<>>
    OBVIOUS
  <2>3. QED
    BY <1>3, <2>2, CanonicalNext
<1>4. CASE bad = {} /\ U = {}
  BY <1>4, CanonicalNext
<1>5. CASE bad = {} /\ U # {}
  <2>1. Lowest(U) \in Enabled(sc, s)
    BY <1>1, <1>5, LowestIn
  <2>2. PICK t, a : t = Lowest(U) /\ a = Canonical(sc)[n][Apply(sc, s, t)]
    OBVIOUS
  <2>3. t \in Transition /\ a \in Schedule
    BY <1>2, <2>1, <2>2, CanonicalDef
  <2>4. <<t>> \o a # <<>>
    BY <2>3, NotEmpty
  <2>5. QED
    BY <1>5, <2>2, <2>4, CanonicalNext
<1>6. QED
  BY <1>3, <1>4, <1>5

\* A horizon further than any execution goes makes no difference.
LEMMA CanonicalStable ==
    ASSUME NEW sc \in Scene, NEW k \in Nat, Layer(sc)[k] = {},
           NEW d \in Nat, NEW s \in Layer(sc)[d],
           NEW n \in Nat, NEW m \in Nat, d + n >= k, n <= m
    PROVE  Canonical(sc)[n][s] = Canonical(sc)[m][s]
<1> DEFINE Still(i) == \A e \in Nat : \A r \in Layer(sc)[e] :
                          e + i >= k => Canonical(sc)[i+1][r] = Canonical(sc)[i][r]
           N == {i \in Nat : Still(i)}
<1>1. 0 \in N
  <2>1. SUFFICES ASSUME NEW e \in Nat, e + 0 >= k PROVE Layer(sc)[e] = {}
    OBVIOUS
  <2>2. k <= e
    BY <2>1
  <2>3. QED
    BY <2>2, LayersEnd
<1>2. ASSUME NEW i \in Nat, i \in N PROVE i + 1 \in N
  <2>1. SUFFICES ASSUME NEW e \in Nat, NEW r \in Layer(sc)[e], e + (i + 1) >= k
                 PROVE  Canonical(sc)[(i+1)+1][r] = Canonical(sc)[i+1][r]
    OBVIOUS
  <2>2. r \in State(sc)
    BY LayerDef
  <2>3. \A t \in Enabled(sc, r) :
           Canonical(sc)[i+1][Apply(sc, r, t)] = Canonical(sc)[i][Apply(sc, r, t)]
    <3>1. SUFFICES ASSUME NEW t \in Enabled(sc, r)
                   PROVE  Apply(sc, r, t) \in Layer(sc)[e+1]
      <4>1. e + 1 \in Nat /\ (e + 1) + i >= k
        BY <2>1
      <4>2. QED
        BY <1>2, <3>1, <4>1
    <3>2. QED
      BY <2>1, LayerDef DEF Successors
  <2>4. PICK A, B : A = Canonical(sc)[i+1] /\ B = Canonical(sc)[i]
    OBVIOUS
  <2>5. \A t \in Enabled(sc, r) : A[Apply(sc, r, t)] = B[Apply(sc, r, t)]
    BY <2>3, <2>4
  <2>6. PICK U : U = Promising(sc, A, r)
    OBVIOUS
  <2>7. U = Promising(sc, B, r) /\ U \in SUBSET Enabled(sc, r)
    BY <2>5, <2>6 DEF Promising
  <2>8. Ahead(sc, A, r) = Ahead(sc, B, r)
    <3>1. CASE U = {}
      BY <2>6, <2>7, <3>1 DEF Ahead
    <3>2. CASE U # {}
      <4>1. Lowest(U) \in Enabled(sc, r)
        BY <2>2, <2>7, <3>2, LowestIn
      <4>2. A[Apply(sc, r, Lowest(U))] = B[Apply(sc, r, Lowest(U))]
        BY <2>5, <4>1
      <4>3. QED
        BY <2>6, <2>7, <4>2 DEF Ahead
    <3>3. QED
      BY <3>1, <3>2
  <2>9. i + 1 \in Nat
    OBVIOUS
  <2>10. QED
    BY <2>2, <2>4, <2>8, <2>9, CanonicalDef
<1>3. Nat \subseteq N
  <2> HIDE DEF N
  <2>1. QED
    BY <1>1, <1>2, AllNumbers
<1> DEFINE M == {i \in Nat : Canonical(sc)[n+i][s] = Canonical(sc)[n][s]}
<1>4. 0 \in M
  OBVIOUS
<1>5. ASSUME NEW i \in Nat, i \in M PROVE i + 1 \in M
  <2>1. n + i \in N /\ d + (n + i) >= k /\ n + (i + 1) = (n + i) + 1
    <3>1. n + i \in Nat /\ d + (n + i) >= k /\ n + (i + 1) = (n + i) + 1
      OBVIOUS
    <3>2. QED
      BY <1>3, <3>1
  <2>2. Canonical(sc)[(n + i) + 1][s] = Canonical(sc)[n + i][s]
    BY <2>1
  <2>3. QED
    BY <1>5, <2>1, <2>2
<1>6. Nat \subseteq M
  <2> HIDE DEF M
  <2>1. QED
    BY <1>4, <1>5, AllNumbers
<1>7. m - n \in Nat /\ n + (m - n) = m
  OBVIOUS
<1>8. QED
  BY <1>6, <1>7

\* An execution that comes back to a state can do so again and again.
LEMMA NoWayBack ==
    ASSUME NEW sc \in Scene, NEW k \in Nat, Layer(sc)[k] = {},
           NEW schedule \in Schedule, NEW path \in Seq(State(sc)),
           IsRun(sc, path, schedule),
           NEW i \in 1..Len(path), NEW j \in 1..Len(path), i < j
    PROVE  path[i] # path[j]
<1> SUFFICES ASSUME path[i] = path[j] PROVE FALSE
  OBVIOUS
<1>1. /\ Len(schedule) \in Nat /\ Len(path) = Len(schedule) + 1
      /\ path[1] = Initial(sc)
      /\ \A n \in 1..Len(schedule) : /\ schedule[n] \in Enabled(sc, path[n])
                                     /\ path[n+1] = Apply(sc, path[n], schedule[n])
  BY DEF IsRun, Schedule
<1>2. ASSUME NEW d \in Nat, path[i] \in Layer(sc)[d]
      PROVE  \A n \in Nat : i + n <= Len(path) => path[i+n] \in Layer(sc)[d+n]
  <2> DEFINE N == {n \in Nat : i + n <= Len(path) => path[i+n] \in Layer(sc)[d+n]}
  <2>1. 0 \in N
    BY <1>2
  <2>2. ASSUME NEW n \in Nat, n \in N PROVE n + 1 \in N
    <3>1. SUFFICES ASSUME i + (n + 1) <= Len(path)
                   PROVE  path[i + (n + 1)] \in Layer(sc)[d + (n + 1)]
      OBVIOUS
    <3>2. PICK m, e : m = i + n /\ e = d + n
      OBVIOUS
    <3>3. /\ m \in 1..Len(schedule) /\ e \in Nat
          /\ i + (n + 1) = m + 1 /\ d + (n + 1) = e + 1
      BY <1>1, <3>1, <3>2
    <3>4. path[m] \in Layer(sc)[e]
      BY <1>1, <2>2, <3>2, <3>3
    <3>5. path[m+1] \in Successors(sc, Layer(sc)[e])
      BY <1>1, <3>3, <3>4 DEF Successors
    <3>6. QED
      BY <3>3, <3>5, LayerDef
  <2>3. Nat \subseteq N
    <3> HIDE DEF N
    <3>1. QED
      BY <2>1, <2>2, AllNumbers
  <2>4. QED
    BY <2>3
<1> DEFINE M == {m \in Nat : \E d \in Nat : d >= m /\ path[i] \in Layer(sc)[d]}
<1>3. 0 \in M
  <2> DEFINE P == {n \in Nat : n < Len(path) => path[n+1] \in Layer(sc)[n]}
  <2>1. 0 \in P
    <3>1. path[0+1] = Initial(sc)
      BY <1>1
    <3>2. Layer(sc)[0] = {Initial(sc)}
      BY LayerDef
    <3>3. QED
      BY <3>1, <3>2
  <2>2. ASSUME NEW n \in Nat, n \in P PROVE n + 1 \in P
    <3>1. SUFFICES ASSUME n + 1 < Len(path)
                   PROVE  path[(n + 1) + 1] \in Layer(sc)[n + 1]
      OBVIOUS
    <3>2. PICK m : m = n + 1
      OBVIOUS
    <3>3. m \in 1..Len(schedule) /\ path[m] \in Layer(sc)[n]
      BY <1>1, <2>2, <3>1, <3>2
    <3>4. path[m+1] \in Successors(sc, Layer(sc)[n])
      BY <1>1, <3>3 DEF Successors
    <3>5. QED
      BY <3>2, <3>4, LayerDef
  <2>3. Nat \subseteq P
    <3> HIDE DEF P
    <3>1. QED
      BY <2>1, <2>2, AllNumbers
  <2>4. i - 1 \in Nat /\ i - 1 < Len(path) /\ (i - 1) + 1 = i
    BY <1>1
  <2>5. path[i] \in Layer(sc)[i-1]
    BY <2>3, <2>4
  <2>6. QED
    BY <2>4, <2>5
<1>4. ASSUME NEW m \in Nat, m \in M PROVE m + 1 \in M
  <2>1. PICK d \in Nat : d >= m /\ path[i] \in Layer(sc)[d]
    BY <1>4
  <2>2. PICK n : n = j - i
    OBVIOUS
  <2>3. n \in Nat /\ n >= 1 /\ i + n = j /\ i + n <= Len(path)
    BY <1>1, <2>2
  <2>4. path[i] \in Layer(sc)[d+n]
    BY <1>2, <2>1, <2>3
  <2>5. d + n \in Nat /\ d + n >= m + 1
    BY <2>1, <2>3
  <2>6. QED
    BY <2>4, <2>5
<1>5. Nat \subseteq M
  <2> HIDE DEF M
  <2>1. QED
    BY <1>3, <1>4, AllNumbers
<1>6. PICK d \in Nat : d >= k /\ path[i] \in Layer(sc)[d]
  BY <1>5
<1>7. Layer(sc)[d] = {}
  BY <1>6, LayersEnd
<1>8. QED
  BY <1>6, <1>7

-----------------------------------------------------------------------------
(* What is left to do, and what it leads to. *)

FramesOf(sc) == [state : State(sc), schedule : Schedule, path : Seq(State(sc))]

\* The frame after t.
After(sc, f, t) ==
    LET s == Apply(sc, f.state, t)
    IN  Frame(s, Append(f.schedule, t), Append(f.path, s))

\* What is found from a state d transitions away, within h of them in all.
Left(sc, h, s, d) == IF d <= h THEN Canonical(sc)[h - d][s] ELSE <<>>

Answer(sc, h, f) == Left(sc, h, f.state, Len(f.schedule))

\* w is found below f.
Leads(sc, h, f, w) == Answer(sc, h, f) # <<>> /\ w = f.schedule \o Answer(sc, h, f)

\* w is what the frames of st lead to: the first that leads anywhere decides.
StackGives(sc, h, st, w) ==
    \/ \E i \in 1..Len(st) :
          /\ Leads(sc, h, st[i], w)
          /\ \A j \in 1..i-1 : Answer(sc, h, st[j]) = <<>>
    \/ /\ w = <<>>
       /\ \A i \in 1..Len(st) : Answer(sc, h, st[i]) = <<>>

\* Of the transitions T of f, those that violate and those that lead somewhere.
Guilty(sc, f, T) == {t \in T : Violates(sc, Apply(sc, f.state, t))}

Fertile(sc, h, f, T) == {t \in T : Answer(sc, h, After(sc, f, t)) # <<>>}

\* w is what the transitions T of f, then the stack, lead to: a violation among
\* the successors of f is found first; then the lowest that leads anywhere
\* decides, and the stack if none does.
Gives(sc, h, f, T, st, w) ==
    /\ Guilty(sc, f, T) # {} =>
          (Len(f.schedule) < h => w = Append(f.schedule, Highest(Guilty(sc, f, T))))
    /\ Guilty(sc, f, T) = {} /\ Fertile(sc, h, f, T) # {} =>
          Leads(sc, h, After(sc, f, Lowest(Fertile(sc, h, f, T))), w)
    /\ Guilty(sc, f, T) = {} /\ Fertile(sc, h, f, T) = {} =>
          StackGives(sc, h, st, w)

LEMMA AfterType ==
    ASSUME NEW sc \in Scene, NEW f \in FramesOf(sc), NEW t \in Enabled(sc, f.state)
    PROVE  /\ After(sc, f, t) \in FramesOf(sc)
           /\ After(sc, f, t).state = Apply(sc, f.state, t)
           /\ After(sc, f, t).schedule = Append(f.schedule, t)
           /\ After(sc, f, t).path = Append(f.path, Apply(sc, f.state, t))
           /\ Len(f.schedule) \in Nat
           /\ Len(After(sc, f, t).schedule) = Len(f.schedule) + 1
           /\ t \in Transition
<1>1. /\ f.state \in State(sc)
      /\ f.schedule \in Seq(Transition)
      /\ f.path \in Seq(State(sc))
  BY DEF FramesOf, Schedule
<1>2. t \in Transition /\ Apply(sc, f.state, t) \in State(sc)
  BY <1>1, SceneAssumption
<1>3. QED
  BY <1>1, <1>2 DEF After, Frame, FramesOf, Schedule

LEMMA AnswerType ==
    ASSUME NEW sc \in Scene, NEW h \in Nat, NEW f \in FramesOf(sc)
    PROVE  Answer(sc, h, f) \in Schedule
<1>1. f.state \in State(sc) /\ Len(f.schedule) \in Nat
  BY DEF FramesOf, Schedule
<1>2. <<>> \in Schedule
  BY DEF Schedule
<1>3. \A d \in Nat : d <= h => h - d \in Nat
  OBVIOUS
<1>4. QED
  BY <1>1, <1>2, <1>3, CanonicalDef DEF Answer, Left

\* A frame leads where its successors do.
LEMMA AnswerNext ==
    ASSUME NEW sc \in Scene, NEW h \in Nat, NEW f \in FramesOf(sc),
           NEW G, G = Guilty(sc, f, Enabled(sc, f.state)),
           NEW F, F = Fertile(sc, h, f, Enabled(sc, f.state))
    PROVE  /\ Len(f.schedule) >= h => Answer(sc, h, f) = <<>> /\ F = {}
           /\ Len(f.schedule) < h =>
                 /\ G # {} => Answer(sc, h, f) = <<Highest(G)>>
                 /\ G = {} /\ F # {} =>
                       Answer(sc, h, f) =
                          <<Lowest(F)>> \o Answer(sc, h, After(sc, f, Lowest(F)))
                 /\ Answer(sc, h, f) = <<>> <=> G = {} /\ F = {}
<1>1. /\ f.state \in State(sc) /\ Len(f.schedule) \in Nat
      /\ \A t \in Enabled(sc, f.state) : Apply(sc, f.state, t) \in State(sc)
  BY SceneAssumption DEF FramesOf, Schedule
<1> PICK d, s : d = Len(f.schedule) /\ s = f.state
  OBVIOUS
<1>2. ASSUME NEW t \in Enabled(sc, s)
      PROVE  Answer(sc, h, After(sc, f, t)) = Left(sc, h, Apply(sc, s, t), d + 1)
  BY AfterType DEF Answer
<1>3. CASE d >= h
  <2>1. ~(d + 1 <= h)
    BY <1>1, <1>3
  <2>2. F = {}
    <3>1. \A t \in Enabled(sc, s) : Answer(sc, h, After(sc, f, t)) = <<>>
      BY <1>2, <2>1 DEF Left
    <3>2. QED
      BY <3>1 DEF Fertile
  <2>3. Answer(sc, h, f) = <<>>
    <3>1. CASE d = h
      <4>1. h - d = 0 /\ d <= h
        BY <3>1
      <4>2. QED
        BY <1>1, <4>1, CanonicalDef DEF Answer, Left
    <3>2. CASE d > h
      <4>1. ~(d <= h)
        BY <1>1, <3>2
      <4>2. QED
        BY <4>1 DEF Answer, Left
    <3>3. QED
      BY <1>1, <1>3, <3>1, <3>2
  <2>4. QED
    BY <1>1, <1>3, <2>2, <2>3
<1>4. CASE d < h
  <2>1. PICK n : n = h - (d + 1)
    OBVIOUS
  <2>2. n \in Nat /\ d <= h /\ h - d = n + 1 /\ d + 1 <= h
    BY <1>1, <1>4, <2>1
  <2>3. Answer(sc, h, f) = Canonical(sc)[n+1][s]
    BY <2>2 DEF Answer, Left
  <2>4. \A t \in Enabled(sc, s) :
           Answer(sc, h, After(sc, f, t)) = Canonical(sc)[n][Apply(sc, s, t)]
    BY <1>2, <2>1, <2>2 DEF Left
  <2>5. G = Bad(sc, s) /\ F = Promising(sc, Canonical(sc)[n], s)
    <3>1. G = Bad(sc, s)
      BY DEF Guilty, Bad
    <3>2. F = {t \in Enabled(sc, s) : Answer(sc, h, After(sc, f, t)) # <<>>}
      BY DEF Fertile
    <3>3. F = {t \in Enabled(sc, s) : Canonical(sc)[n][Apply(sc, s, t)] # <<>>}
      BY <2>4, <3>2
    <3>4. QED
      BY <3>1, <3>3 DEF Promising
  <2>6. /\ G # {} => Answer(sc, h, f) = <<Highest(G)>>
        /\ Answer(sc, h, f) = <<>> <=> G = {} /\ F = {}
    <3>1. s \in State(sc) /\ n \in Nat
      BY <1>1, <2>2
    <3>2. Bad(sc, s) # {} => Canonical(sc)[n+1][s] = <<Highest(Bad(sc, s))>>
      BY <3>1, CanonicalNext
    <3>3. Canonical(sc)[n+1][s] = <<>> <=>
             Bad(sc, s) = {} /\ Promising(sc, Canonical(sc)[n], s) = {}
      BY <3>1, CanonicalEmpty
    <3>4. QED
      BY <2>3, <2>5, <3>2, <3>3
  <2>7. ASSUME G = {}, F # {}
        PROVE  Answer(sc, h, f) =
                  <<Lowest(F)>> \o Answer(sc, h, After(sc, f, Lowest(F)))
    <3>1. F \in SUBSET Enabled(sc, s)
      BY DEF Fertile
    <3>2. Lowest(F) \in Enabled(sc, s)
      BY <1>1, <2>7, <3>1, LowestIn
    <3>3. Canonical(sc)[n+1][s] =
             <<Lowest(F)>> \o Canonical(sc)[n][Apply(sc, s, Lowest(F))]
      BY <1>1, <2>2, <2>5, <2>7, CanonicalNext
    <3>4. QED
      BY <2>3, <2>4, <3>2, <3>3
  <2>8. QED
    BY <1>4, <1>1, <2>6, <2>7
<1>5. QED
  BY <1>1, <1>3, <1>4

LEMMA Regroup ==
    ASSUME NEW a \in Schedule, NEW t \in Transition, NEW b \in Schedule
    PROVE  a \o (<<t>> \o b) = Append(a, t) \o b
<1> PICK l, r : l = a \o (<<t>> \o b) /\ r = Append(a, t) \o b
  OBVIOUS
<1>1. /\ l \in Seq(Transition) /\ Len(l) = Len(a) + 1 + Len(b)
      /\ r \in Seq(Transition) /\ Len(r) = Len(a) + 1 + Len(b)
  BY DEF Schedule
<1>2. \A i \in 1..Len(l) : l[i] = r[i]
  BY DEF Schedule
<1>3. QED
  BY <1>1, <1>2, SeqEqual

\* A frame that leads nowhere can be dropped.
LEMMA GivesDrop ==
    ASSUME NEW sc \in Scene, NEW h \in Nat,
           NEW st \in Seq(FramesOf(sc)), st # <<>>, NEW w,
           StackGives(sc, h, st, w), Answer(sc, h, Head(st)) = <<>>
    PROVE  StackGives(sc, h, Tail(st), w)
<1> PICK rest : rest = Tail(st)
  OBVIOUS
<1>1. /\ Head(st) = st[1]
      /\ Len(st) \in Nat \ {0}
      /\ Len(rest) = Len(st) - 1
      /\ \A i \in 1..Len(rest) : rest[i] = st[i+1]
  BY HeadTailProperties, EmptySeq
<1>2. CASE \A i \in 1..Len(st) : Answer(sc, h, st[i]) = <<>>
  <2>1. w = <<>>
    BY <1>2 DEF StackGives, Leads
  <2>2. \A i \in 1..Len(rest) : Answer(sc, h, rest[i]) = <<>>
    <3>1. \A i \in 1..Len(rest) : i + 1 \in 1..Len(st)
      BY <1>1
    <3>2. QED
      BY <1>1, <1>2, <3>1
  <2>3. QED
    BY <2>1, <2>2 DEF StackGives
<1>3. CASE ~ \A i \in 1..Len(st) : Answer(sc, h, st[i]) = <<>>
  <2>1. PICK i \in 1..Len(st) : /\ Leads(sc, h, st[i], w)
                                /\ \A j \in 1..i-1 : Answer(sc, h, st[j]) = <<>>
    BY <1>3 DEF StackGives
  <2>2. i # 1
    BY <1>1, <2>1 DEF Leads
  <2>3. PICK k : k = i - 1
    OBVIOUS
  <2>4. k \in 1..Len(rest) /\ k + 1 = i /\ rest[k] = st[i]
    BY <1>1, <2>2, <2>3
  <2>5. ASSUME NEW j \in 1..k-1 PROVE Answer(sc, h, rest[j]) = <<>>
    <3>1. j \in 1..Len(rest) /\ j + 1 \in 1..i-1
      BY <1>1, <2>4
    <3>2. QED
      BY <1>1, <2>1, <3>1
  <2>6. QED
    BY <2>1, <2>4, <2>5 DEF StackGives
<1>4. QED
  BY <1>2, <1>3

\* A frame is expanded: its successors are what it led to.
LEMMA GivesExpand ==
    ASSUME NEW sc \in Scene, NEW h \in Nat,
           NEW st \in Seq(FramesOf(sc)), st # <<>>, NEW w,
           StackGives(sc, h, st, w),
           NEW f \in FramesOf(sc), f = Head(st)
    PROVE  Gives(sc, h, f, Enabled(sc, f.state), Tail(st), w)
<1> PICK G, F : /\ G = Guilty(sc, f, Enabled(sc, f.state))
                /\ F = Fertile(sc, h, f, Enabled(sc, f.state))
  OBVIOUS
<1>1. f = st[1] /\ Len(st) \in Nat \ {0} /\ Len(f.schedule) \in Nat
      /\ f.schedule \in Schedule /\ f.state \in State(sc)
  BY EmptySeq DEF FramesOf, Schedule
<1>2. G \in SUBSET Enabled(sc, f.state) /\ F \in SUBSET Enabled(sc, f.state)
  BY DEF Guilty, Fertile
<1>2a. /\ Len(f.schedule) >= h => Answer(sc, h, f) = <<>> /\ F = {}
       /\ Len(f.schedule) < h =>
             /\ G # {} => Answer(sc, h, f) = <<Highest(G)>>
             /\ G = {} /\ F # {} =>
                   Answer(sc, h, f) =
                      <<Lowest(F)>> \o Answer(sc, h, After(sc, f, Lowest(F)))
             /\ Answer(sc, h, f) = <<>> <=> G = {} /\ F = {}
  BY AnswerNext
<1>3. Answer(sc, h, f) # <<>> => w = f.schedule \o Answer(sc, h, f)
  <2>1. SUFFICES ASSUME Answer(sc, h, f) # <<>>
                 PROVE  w = f.schedule \o Answer(sc, h, f)
    OBVIOUS
  <2>2. 1 \in 1..Len(st) /\ Answer(sc, h, st[1]) # <<>>
    BY <1>1, <2>1
  <2>3. PICK i \in 1..Len(st) : /\ Leads(sc, h, st[i], w)
                                /\ \A j \in 1..i-1 : Answer(sc, h, st[j]) = <<>>
    BY <2>2 DEF StackGives
  <2>4. i = 1
    <3>1. SUFFICES ASSUME i # 1 PROVE FALSE
      OBVIOUS
    <3>2. 1 \in 1..i-1
      BY <3>1, <1>1
    <3>3. QED
      BY <2>2, <2>3, <3>2
  <2>5. QED
    BY <1>1, <2>3, <2>4 DEF Leads
<1>4. CASE Answer(sc, h, f) = <<>>
  <2>1. StackGives(sc, h, Tail(st), w)
    BY <1>4, GivesDrop
  <2>2. F = {} /\ (Len(f.schedule) < h => G = {})
    BY <1>1, <1>2a, <1>4
  <2>3. QED
    BY <2>1, <2>2 DEF Gives
<1>5. CASE Answer(sc, h, f) # <<>>
  <2>1. Len(f.schedule) < h
    BY <1>1, <1>2a, <1>5
  <2>2. /\ G # {} => Answer(sc, h, f) = <<Highest(G)>>
        /\ G = {} /\ F # {} =>
              Answer(sc, h, f) =
                 <<Lowest(F)>> \o Answer(sc, h, After(sc, f, Lowest(F)))
        /\ ~(G = {} /\ F = {})
    BY <1>2a, <1>5, <2>1
  <2>3. ASSUME G # {} PROVE w = Append(f.schedule, Highest(G))
    <3>1. Highest(G) \in Transition
      BY <1>1, <1>2, <2>3, HighestOf, SceneAssumption
    <3>2. PICK t, a : t = Highest(G) /\ a = f.schedule
      OBVIOUS
    <3>3. t \in Transition /\ a \in Seq(Transition)
      BY <1>1, <3>1, <3>2 DEF Schedule
    <3>4. a \o <<t>> = Append(a, t)
      BY <3>3
    <3>5. QED
      BY <1>3, <1>5, <2>2, <2>3, <3>2, <3>4
  <2>4. ASSUME G = {}, F # {} PROVE Leads(sc, h, After(sc, f, Lowest(F)), w)
    <3>1. PICK t, b : t = Lowest(F) /\ b = Answer(sc, h, After(sc, f, t))
      OBVIOUS
    <3>2. t \in F /\ t \in Enabled(sc, f.state)
      BY <1>1, <1>2, <2>4, <3>1, LowestIn
    <3>3. b # <<>>
      BY <3>1, <3>2 DEF Fertile
    <3>4. /\ t \in Transition /\ b \in Schedule
          /\ After(sc, f, t).schedule = Append(f.schedule, t)
      BY <3>1, <3>2, AfterType, AnswerType
    <3>5. f.schedule \o (<<t>> \o b) = Append(f.schedule, t) \o b
      <4>1. f.schedule \in Schedule
        BY <1>1
      <4>2. QED
        BY <3>4, <4>1, Regroup
    <3>6. w = f.schedule \o (<<t>> \o b)
      BY <1>3, <1>5, <2>2, <2>4, <3>1
    <3>7. QED
      BY <3>1, <3>3, <3>4, <3>5, <3>6 DEF Leads
  <2>5. QED
    BY <2>2, <2>3, <2>4 DEF Gives
<1>6. QED
  BY <1>4, <1>5

\* A successor that violates nothing is pushed.
LEMMA GivesPush ==
    ASSUME NEW sc \in Scene, NEW h \in Nat, NEW f \in FramesOf(sc),
           NEW T \in SUBSET Enabled(sc, f.state), NEW t \in T, t = Highest(T),
           ~Violates(sc, Apply(sc, f.state, t)),
           NEW st \in Seq(FramesOf(sc)), NEW w, Gives(sc, h, f, T, st, w)
    PROVE  Gives(sc, h, f, T \ {t}, <<After(sc, f, t)>> \o st, w)
<1> PICK G, F, more : /\ G = Guilty(sc, f, T) /\ F = Fertile(sc, h, f, T)
                      /\ more = <<After(sc, f, t)>> \o st
  OBVIOUS
<1>1. Guilty(sc, f, T \ {t}) = G /\ Fertile(sc, h, f, T \ {t}) = F \ {t}
  BY DEF Guilty, Fertile
<1>2. F \in SUBSET Enabled(sc, f.state) /\ F \subseteq T /\ f.state \in State(sc)
  BY DEF Fertile, FramesOf
<1>3. \A u \in T \ {t} : Precedes(u, t)
  BY <1>2, HighestOf
<1>4. /\ Len(more) = Len(st) + 1 /\ Len(st) \in Nat
      /\ more[1] = After(sc, f, t)
      /\ \A i \in 1..Len(st) : more[i+1] = st[i]
  <2>1. After(sc, f, t) \in FramesOf(sc)
    BY AfterType
  <2>2. QED
    BY <2>1
<1>5. ASSUME G = {}, F \ {t} # {}
      PROVE  Leads(sc, h, After(sc, f, Lowest(F \ {t})), w)
  <2>1. Leads(sc, h, After(sc, f, Lowest(F)), w)
    BY <1>5 DEF Gives
  <2>2. Lowest(F) = Lowest(F \ {t})
    <3>1. Lowest(F) \in F /\ \A u \in F \ {Lowest(F)} : Precedes(Lowest(F), u)
      BY <1>2, <1>5, LowestIn
    <3>2. Lowest(F) # t
      <4>1. SUFFICES ASSUME Lowest(F) = t PROVE FALSE
        OBVIOUS
      <4>2. PICK u : u \in F \ {t}
        BY <1>5
      <4>3. Precedes(t, u) /\ Precedes(u, t)
        BY <1>2, <1>3, <3>1, <4>1, <4>2
      <4>4. QED
        BY <1>2, <4>2, <4>3, SortedAssumption
    <3>3. PICK u : u = Lowest(F)
      OBVIOUS
    <3>4. u \in F \ {t} /\ \A v \in (F \ {t}) \ {u} : Precedes(u, v)
      BY <3>1, <3>2, <3>3
    <3>5. F \ {t} \in SUBSET Enabled(sc, f.state)
      BY <1>2
    <3>6. u = Lowest(F \ {t})
      BY <1>2, <3>4, <3>5, OneLowest
    <3>7. QED
      BY <3>3, <3>6
  <2>3. QED
    BY <2>1, <2>2
<1>6. ASSUME G = {}, F \ {t} = {}
      PROVE  StackGives(sc, h, more, w)
  <2>1. CASE t \in F
    <3>1. F = {t} /\ Lowest(F) = t
      <4>1. F = {t}
        BY <1>6, <2>1
      <4>2. Lowest(F) \in F
        BY <1>2, <2>1, LowestIn
      <4>3. QED
        BY <4>1, <4>2
    <3>2. Leads(sc, h, more[1], w)
      BY <1>4, <1>6, <2>1, <3>1 DEF Gives
    <3>3. 1 \in 1..Len(more) /\ \A j \in 1..1-1 : Answer(sc, h, more[j]) = <<>>
      BY <1>4
    <3>4. QED
      BY <3>2, <3>3 DEF StackGives
  <2>2. CASE t \notin F
    <3>1. Answer(sc, h, more[1]) = <<>>
      BY <1>4, <2>2 DEF Fertile
    <3>2. StackGives(sc, h, st, w)
      BY <1>6, <2>2 DEF Gives
    <3>3. \A i \in 1..Len(more) : i # 1 => i - 1 \in 1..Len(st) /\ more[i] = st[i-1]
      <4>1. \A i \in 1..Len(more) : i # 1 => i - 1 \in 1..Len(st) /\ (i - 1) + 1 = i
        BY <1>4
      <4>2. QED
        BY <1>4, <4>1
    <3>4. CASE \A i \in 1..Len(st) : Answer(sc, h, st[i]) = <<>>
      <4>1. w = <<>>
        BY <3>2, <3>4 DEF StackGives, Leads
      <4>2. \A i \in 1..Len(more) : Answer(sc, h, more[i]) = <<>>
        BY <3>1, <3>3, <3>4
      <4>3. QED
        BY <4>1, <4>2 DEF StackGives
    <3>5. CASE ~ \A i \in 1..Len(st) : Answer(sc, h, st[i]) = <<>>
      <4>1. PICK i \in 1..Len(st) : /\ Leads(sc, h, st[i], w)
                                    /\ \A j \in 1..i-1 : Answer(sc, h, st[j]) = <<>>
        BY <3>2, <3>5 DEF StackGives
      <4>2. PICK k : k = i + 1
        OBVIOUS
      <4>3. k \in 1..Len(more) /\ more[k] = st[i]
        BY <1>4, <4>2
      <4>4. ASSUME NEW j \in 1..k-1 PROVE Answer(sc, h, more[j]) = <<>>
        <5>1. CASE j = 1
          BY <3>1, <5>1
        <5>2. CASE j # 1
          <6>1. j \in 1..Len(more) /\ j - 1 \in 1..i-1
            BY <1>4, <4>2, <5>2
          <6>2. QED
            BY <3>3, <4>1, <5>2, <6>1
        <5>3. QED
          BY <5>1, <5>2
      <4>5. QED
        BY <4>1, <4>3, <4>4 DEF StackGives
    <3>6. QED
      BY <3>4, <3>5
  <2>3. QED
    BY <2>1, <2>2
<1>7. G # {} => (Len(f.schedule) < h => w = Append(f.schedule, Highest(G)))
  BY DEF Gives
<1>8. QED
  BY <1>1, <1>5, <1>6, <1>7 DEF Gives

\* A successor that violates is the one foretold.
LEMMA GivesGuilty ==
    ASSUME NEW sc \in Scene, NEW h \in Nat, NEW f \in FramesOf(sc),
           NEW T \in SUBSET Enabled(sc, f.state), NEW t \in T, t = Highest(T),
           Violates(sc, Apply(sc, f.state, t)), Len(f.schedule) < h,
           NEW st, NEW w, Gives(sc, h, f, T, st, w)
    PROVE  w = Append(f.schedule, t)
<1> PICK G : G = Guilty(sc, f, T)
  OBVIOUS
<1>1. t \in G /\ G \subseteq T /\ f.state \in State(sc)
  BY DEF Guilty, FramesOf
<1>2. \A u \in G \ {t} : Precedes(u, t)
  BY <1>1, HighestOf
<1>3. G \in SUBSET Enabled(sc, f.state)
  BY <1>1
<1>4. t = Highest(G)
  BY <1>1, <1>2, <1>3, OneHighest
<1>5. QED
  BY <1>1, <1>4 DEF Gives

\* An empty stack leads nowhere.
LEMMA GivesNothing ==
    ASSUME NEW sc, NEW h, NEW w, StackGives(sc, h, <<>>, w)
    PROVE  w = <<>>
<1>1. 1..Len(<<>>) = {}
  OBVIOUS
<1>2. QED
  BY <1>1 DEF StackGives

-----------------------------------------------------------------------------
(* The shape of a depth-first search. *)

\* f branches off from path, or goes on from its end.
Branches(f, path) ==
    /\ Len(f.path) - 1 <= Len(path)
    /\ \A k \in 1..Len(f.path)-1 : f.path[k] = path[k]

Hang(st, path) == \A i \in 1..Len(st) : Branches(st[i], path)

\* Each frame of st branches off from the paths of those above.
Nested(st) ==
    \A i \in 1..Len(st) : \A j \in i+1..Len(st) :
        /\ Branches(st[j], st[i].path)
        /\ Len(st[j].path) <= Len(st[i].path)

\* f is in the middle of something that began in s.
Under(f, s) == \E i \in 1..Len(f.path)-1 : f.path[i] = s

LEMMA NestedPop ==
    ASSUME NEW sc \in Scene, NEW st \in Seq(FramesOf(sc)), st # <<>>, Nested(st)
    PROVE  Nested(Tail(st)) /\ Hang(Tail(st), Head(st).path)
<1> PICK rest : rest = Tail(st)
  OBVIOUS
<1>1. /\ Head(st) = st[1]
      /\ Len(st) \in Nat \ {0}
      /\ Len(rest) = Len(st) - 1
      /\ \A i \in 1..Len(rest) : rest[i] = st[i+1]
  BY HeadTailProperties, EmptySeq
<1>2. ASSUME NEW i \in 1..Len(rest), NEW j \in i+1..Len(rest)
      PROVE  /\ Branches(rest[j], rest[i].path)
             /\ Len(rest[j].path) <= Len(rest[i].path)
  <2>1. PICK k, l : k = i + 1 /\ l = j + 1
    OBVIOUS
  <2>2. k \in 1..Len(st) /\ l \in k+1..Len(st) /\ j \in 1..Len(rest)
    BY <1>1, <2>1
  <2>3. rest[i] = st[k] /\ rest[j] = st[l]
    BY <1>1, <2>1, <2>2
  <2>4. QED
    BY <2>2, <2>3 DEF Nested
<1>3. ASSUME NEW i \in 1..Len(rest) PROVE Branches(rest[i], st[1].path)
  <2>1. PICK k : k = i + 1
    OBVIOUS
  <2>2. 1 \in 1..Len(st) /\ k \in 1+1..Len(st)
    BY <1>1, <2>1
  <2>3. Branches(st[k], st[1].path)
    BY <2>2 DEF Nested
  <2>4. QED
    BY <1>1, <2>1, <2>3
<1>4. QED
  BY <1>1, <1>2, <1>3 DEF Nested, Hang

LEMMA NestedPush ==
    ASSUME NEW sc \in Scene, NEW st \in Seq(FramesOf(sc)), Nested(st),
           NEW f \in FramesOf(sc), Hang(st, f.path),
           NEW t \in Enabled(sc, f.state)
    PROVE  /\ Nested(<<After(sc, f, t)>> \o st)
           /\ Hang(<<After(sc, f, t)>> \o st, f.path)
<1> PICK c, more, s : /\ c = After(sc, f, t) /\ more = <<c>> \o st
                      /\ s = Apply(sc, f.state, t)
  OBVIOUS
<1>1. c \in FramesOf(sc) /\ c.path = Append(f.path, s)
  BY AfterType
<1>2. /\ f.path \in Seq(State(sc)) /\ s \in State(sc)
  BY SceneAssumption DEF FramesOf
<1>3. /\ Len(c.path) = Len(f.path) + 1 /\ Len(f.path) \in Nat
      /\ \A k \in 1..Len(f.path) : c.path[k] = f.path[k]
  BY <1>1, <1>2
<1>4. /\ Len(more) = Len(st) + 1 /\ Len(st) \in Nat
      /\ more[1] = c
      /\ \A i \in 1..Len(st) : more[i+1] = st[i]
  BY <1>1
<1>5. \A i \in 1..Len(more) : i # 1 => i - 1 \in 1..Len(st) /\ more[i] = st[i-1]
  <2>1. \A i \in 1..Len(more) : i # 1 => i - 1 \in 1..Len(st) /\ (i - 1) + 1 = i
    BY <1>4
  <2>2. QED
    BY <1>4, <2>1
<1>6. Branches(c, f.path)
  <2>1. Len(c.path) - 1 = Len(f.path)
    BY <1>3
  <2>2. QED
    BY <1>3, <2>1 DEF Branches
<1>7. \A i \in 1..Len(st) : Len(st[i].path) \in Nat
  BY DEF FramesOf
<1>8. Hang(more, f.path)
  <2>1. \A i \in 1..Len(more) : Branches(more[i], f.path)
    BY <1>4, <1>5, <1>6 DEF Hang
  <2>2. QED
    BY <2>1 DEF Hang
<1>9. ASSUME NEW i \in 1..Len(st)
      PROVE  Branches(st[i], c.path) /\ Len(st[i].path) <= Len(c.path)
  <2>1. PICK g : g = st[i]
    OBVIOUS
  <2>2. Len(g.path) \in Nat /\ Branches(g, f.path)
    BY <1>7, <2>1 DEF Hang
  <2>3. Len(g.path) - 1 <= Len(f.path)
    BY <2>2 DEF Branches
  <2>4. ASSUME NEW k \in 1..Len(g.path)-1 PROVE g.path[k] = c.path[k]
    <3>1. k \in 1..Len(f.path)
      BY <1>3, <2>2, <2>3
    <3>2. QED
      BY <1>3, <2>2, <3>1 DEF Branches
  <2>5. Len(g.path) <= Len(c.path) /\ Len(g.path) - 1 <= Len(c.path)
    BY <1>3, <2>2, <2>3
  <2>6. QED
    BY <2>1, <2>4, <2>5 DEF Branches
<1>10. ASSUME NEW i \in 1..Len(more), NEW j \in i+1..Len(more)
       PROVE  /\ Branches(more[j], more[i].path)
              /\ Len(more[j].path) <= Len(more[i].path)
  <2>1. j - 1 \in 1..Len(st) /\ more[j] = st[j-1]
    <3>1. j \in 1..Len(more) /\ j # 1
      BY <1>4
    <3>2. QED
      BY <1>5, <3>1
  <2>2. CASE i = 1
    BY <1>4, <1>9, <2>1, <2>2
  <2>3. CASE i # 1
    <3>1. PICK k, l : k = i - 1 /\ l = j - 1
      OBVIOUS
    <3>2. k \in 1..Len(st) /\ more[i] = st[k] /\ more[j] = st[l]
      BY <1>5, <2>1, <2>3, <3>1
    <3>3. l \in k+1..Len(st)
      BY <1>4, <2>1, <3>1, <3>2
    <3>4. QED
      BY <3>2, <3>3 DEF Nested
  <2>4. QED
    BY <2>2, <2>3
<1>11. QED
  BY <1>8, <1>10 DEF Nested

\* On the top of the stack is a state that nothing else on it goes through, if
\* no execution comes back to a state.
LEMMA TopIsNew ==
    ASSUME NEW sc \in Scene, NEW st \in Seq(FramesOf(sc)), st # <<>>, Nested(st),
           NEW f \in FramesOf(sc), f = Head(st),
           f.path # <<>>, f.path[Len(f.path)] = f.state,
           \A i \in 1..Len(f.path), j \in 1..Len(f.path) :
              i < j => f.path[i] # f.path[j],
           NEW n \in 1..Len(st)
    PROVE  ~Under(st[n], f.state)
<1>1. f = st[1] /\ Len(st) \in Nat /\ f.path \in Seq(State(sc))
  BY EmptySeq DEF FramesOf
<1> PICK g, l : g = st[n] /\ l = Len(f.path)
  OBVIOUS
<1>2. l \in Nat \ {0} /\ Len(g.path) \in Nat
  <2>1. g \in FramesOf(sc)
    OBVIOUS
  <2>2. QED
    BY <1>1, <2>1, EmptySeq DEF FramesOf
<1>3. Len(g.path) <= l /\ \A k \in 1..Len(g.path)-1 : g.path[k] = f.path[k]
  <2>1. CASE n = 1
    BY <1>1, <1>2, <2>1
  <2>2. CASE n # 1
    <3>1. 1 \in 1..Len(st) /\ n \in 1+1..Len(st)
      BY <1>1, <2>2
    <3>2. Branches(st[n], st[1].path) /\ Len(st[n].path) <= Len(st[1].path)
      BY <3>1 DEF Nested
    <3>3. QED
      BY <1>1, <3>2 DEF Branches
  <2>3. QED
    BY <2>1, <2>2
<1>4. SUFFICES ASSUME NEW k \in 1..Len(g.path)-1, g.path[k] = f.state
               PROVE  FALSE
  BY DEF Under
<1>5. k \in 1..l /\ l \in 1..l /\ k < l
  BY <1>2, <1>3
<1>6. f.path[k] # f.path[l]
  BY <1>5
<1>7. QED
  BY <1>3, <1>4, <1>6

-----------------------------------------------------------------------------
(* Horizons. *)

\* What the prune contract asks of the scene.
Tame == cfg.prune => EmbedsProgress \/ (cfg.maxDepth = 0 /\ Acyclic)

\* A finite scene whose first witness is foretold.
Foreseen == IsFiniteSet(State(scene)) /\ Tame

\* How far ahead it is: a search without a bound that does not prune may go
\* beyond any horizon.
Horizons == IF cfg.maxDepth > 0 THEN {cfg.maxDepth}
            ELSE IF cfg.prune THEN {Cardinality(State(scene))} ELSE Nat

LEMMA HorizonType ==
    ASSUME TypeOK, Foreseen
    PROVE  /\ scene \in Scene /\ cfg \in Config /\ Horizons \subseteq Nat
           /\ Cardinality(State(scene)) \in Nat
<1>1. Cardinality(State(scene)) \in Nat
  BY FS_CardinalityType DEF Foreseen
<1>2. QED
  BY <1>1 DEF TypeOK, ControlOK, Config, Horizons

\* A scene fit for pruning has no endless execution.
LEMMA TameEnds ==
    ASSUME TypeOK, Foreseen, cfg.prune
    PROVE  Layer(scene)[Cardinality(State(scene))] = {}
<1>1. scene \in Scene
  BY DEF TypeOK, ControlOK
<1>2. CASE EmbedsProgress
  <2>1. Apart(scene, Cardinality(State(scene)))
    BY <1>2 DEF EmbedsProgress, Apart
  <2>2. QED
    BY <1>1, <2>1, LastLayer DEF Foreseen
<1>3. CASE Acyclic
  BY <1>3 DEF Acyclic
<1>4. QED
  BY <1>2, <1>3 DEF Foreseen, Tame

\* What is left from a state does not depend on the way to it.
LEMMA SameLeft ==
    ASSUME TypeOK, Foreseen, cfg.prune, NEW h \in Horizons,
           NEW d \in Nat, NEW e \in Nat,
           NEW s \in Layer(scene)[d], s \in Layer(scene)[e]
    PROVE  Left(scene, h, s, d) = Left(scene, h, s, e)
<1>1. /\ scene \in Scene /\ cfg \in Config /\ h \in Nat
      /\ Cardinality(State(scene)) \in Nat
  BY HorizonType
<1>2. CASE EmbedsProgress
  <2>1. Apart(scene, Cardinality(State(scene)))
    BY <1>2 DEF EmbedsProgress, Apart
  <2>2. d = e
    BY <1>1, <2>1, LayersApart DEF Foreseen
  <2>3. QED
    BY <2>2
<1>3. CASE cfg.maxDepth = 0 /\ Acyclic
  <2> PICK k : k = Cardinality(State(scene))
    OBVIOUS
  <2>1. h = k /\ k \in Nat /\ Layer(scene)[k] = {}
    BY <1>1, <1>3 DEF Horizons, Acyclic
  <2>2. ASSUME NEW c \in Nat, s \in Layer(scene)[c] PROVE c < k
    BY <1>1, <2>1, <2>2, LayersEnd
  <2>3. ASSUME NEW b \in Nat, NEW c \in Nat, b <= c,
               s \in Layer(scene)[b], s \in Layer(scene)[c]
        PROVE  Left(scene, h, s, b) = Left(scene, h, s, c)
    <3>1. b < k /\ c < k
      BY <2>2, <2>3
    <3>2. PICK n, m : n = k - c /\ m = k - b
      OBVIOUS
    <3>3. n \in Nat /\ m \in Nat /\ c + n >= k /\ n <= m
      BY <2>1, <2>3, <3>1, <3>2
    <3>4. Canonical(scene)[n][s] = Canonical(scene)[m][s]
      BY <1>1, <2>1, <2>3, <3>3, CanonicalStable
    <3>5. QED
      BY <2>1, <3>1, <3>2, <3>4 DEF Left
  <2>4. d <= e \/ e <= d
    OBVIOUS
  <2>5. QED
    BY <2>3, <2>4
<1>4. QED
  BY <1>2, <1>3 DEF Foreseen, Tame

\* Frames are executions: they end in the layer of their length, and do not
\* come back to a state.
LEMMA FrameEnds ==
    ASSUME Grounded, NEW f \in FrameSet, IsCleanRun(f)
    PROVE  /\ f.state \in Layer(scene)[Len(f.schedule)]
           /\ f.path # <<>> /\ f.path[Len(f.path)] = f.state
           /\ Foreseen /\ cfg.prune =>
                 \A i \in 1..Len(f.path), j \in 1..Len(f.path) :
                    i < j => f.path[i] # f.path[j]
<1>1. TypeOK /\ scene \in Scene
  BY DEF Grounded, TypeOK, ControlOK
<1>2. PICK path, schedule : path = f.path /\ schedule = f.schedule
  OBVIOUS
<1>3. /\ schedule \in Schedule /\ path \in Seq(State(scene))
      /\ IsRun(scene, path, schedule) /\ path[Len(path)] = f.state
  BY <1>2 DEF IsCleanRun, FrameSet
<1>4. f.state \in Layer(scene)[Len(schedule)]
  BY <1>1, <1>3, RunInLayers
<1>5. path # <<>>
  <2>1. Len(path) = Len(schedule) + 1 /\ Len(schedule) \in Nat
    BY <1>3 DEF IsRun, Schedule
  <2>2. Len(path) # 0
    BY <2>1
  <2>3. QED
    BY <2>2
<1>6. ASSUME Foreseen, cfg.prune, NEW i \in 1..Len(path), NEW j \in 1..Len(path),
             i < j
      PROVE  path[i] # path[j]
  <2>1. PICK k : k = Cardinality(State(scene))
    OBVIOUS
  <2>2. k \in Nat /\ Layer(scene)[k] = {}
    BY <1>1, <1>6, <2>1, HorizonType, TameEnds
  <2>3. QED
    BY <1>1, <1>3, <1>6, <2>2, NoWayBack
<1>7. QED
  BY <1>2, <1>3, <1>4, <1>5, <1>6

-----------------------------------------------------------------------------
(* The shape of the search. *)

\* The frames on the stack branch off from each other and from the one whose
\* successors are checked; none is beyond the bound; what is returned is what
\* was found first, or all there was to search.
Shape ==
    /\ Nested(stack)
    /\ pc = "children" => Hang(stack, frame.path)
    /\ cfg.maxDepth > 0 =>
          /\ \A f \in Waiting : Depth(f) <= cfg.maxDepth
          /\ pc = "children" => Depth(frame) < cfg.maxDepth
          /\ Len(first.schedule) <= cfg.maxDepth
    /\ pc = "done" =>
          /\ result.schedule = first.schedule
          /\ first = NoWitness => stack = <<>> /\ todo = {}

LEMMA InitShape == Init => Shape
<1> SUFFICES ASSUME Init PROVE Shape
  OBVIOUS
<1>1. scene \in Scene /\ cfg \in Config
  BY InitTypeOK DEF TypeOK, ControlOK
<1>2. stack = <<Root(scene)>> /\ Len(stack) = 1 /\ stack[1] = Root(scene)
  BY DEF Init
<1>3. Nested(stack)
  <2>1. \A i \in 1..Len(stack) : i+1..Len(stack) = {}
    BY <1>2
  <2>2. QED
    BY <2>1 DEF Nested
<1>4. Waiting = {Root(scene)} /\ Depth(Root(scene)) = 0
  BY <1>2 DEF Waiting, Root, Frame, Depth
<1>5. first.schedule = <<>> /\ Len(<<>>) = 0 /\ pc = "pop"
  BY DEF Init, NoWitness
<1>6. cfg.maxDepth \in Nat
  BY <1>1 DEF Config
<1>7. QED
  BY <1>3, <1>4, <1>5, <1>6 DEF Shape

\* The frame of the successor tried next.
LEMMA NextChildAfter ==
    ASSUME TypeOK, pc = "children"
    PROVE  /\ Highest(todo) \in todo /\ Highest(todo) \in Enabled(scene, frame.state)
           /\ frame \in FramesOf(scene) /\ frame.state \in State(scene)
           /\ NextChild = After(scene, frame, Highest(todo))
           /\ NextChild.state = Apply(scene, frame.state, Highest(todo))
           /\ NextChild.schedule = Append(frame.schedule, Highest(todo))
           /\ Depth(frame) \in Nat /\ Depth(NextChild) = Depth(frame) + 1
<1>1. /\ frame \in FramesOf(scene) /\ scene \in Scene
      /\ Highest(todo) \in todo /\ Highest(todo) \in Enabled(scene, frame.state)
  BY NextChildType DEF TypeOK, ControlOK, FrameSet, FramesOf
<1>2. NextChild = After(scene, frame, Highest(todo))
  BY DEF NextChild, Child, After
<1>3. QED
  BY <1>1, <1>2, AfterType DEF Depth, FramesOf

LEMMA StepShape ==
    ASSUME Grounded, Shape, Next
    PROVE  Shape'
<1>1. /\ TypeOK /\ TypeOK' /\ scene' = scene /\ cfg' = cfg /\ scene \in Scene
      /\ cfg.maxDepth \in Nat
  BY StepTypeOK, SameScene DEF Grounded, TypeOK, ControlOK, Config
<1>2. stack \in Seq(FramesOf(scene)) /\ frame \in FramesOf(scene)
  BY <1>1 DEF TypeOK, ControlOK, FrameSet, FramesOf
<1>3. ASSUME stack # <<>>, stack' = Tail(stack)
      PROVE  /\ Nested(stack') /\ Hang(stack', Head(stack).path)
             /\ Waiting' \subseteq Waiting /\ Head(stack) \in Waiting
  <2>1. PICK st : st = stack
    OBVIOUS
  <2>2. st \in Seq(FramesOf(scene)) /\ st # <<>> /\ Nested(st)
    BY <1>2, <1>3, <2>1 DEF Shape
  <2>3. Nested(Tail(st)) /\ Hang(Tail(st), Head(st).path)
    BY <1>1, <2>2, NestedPop
  <2>4. PICK f : f = Head(stack)
    OBVIOUS
  <2>5. Waiting = Waiting' \cup {f}
    BY <1>1, <1>3, <2>4, WaitingPopped
  <2>6. Nested(stack') /\ Hang(stack', Head(stack).path)
    BY <1>3, <2>1, <2>3
  <2>7. QED
    BY <2>4, <2>5, <2>6
<1>4. CASE PopLeaf \/ PopPruned
  <2>1. /\ stack # <<>> /\ stack' = Tail(stack) /\ pc = "pop" /\ pc' = pc
        /\ first' = first /\ frame' = frame
    BY <1>4 DEF PopLeaf, PopPruned, Pop
  <2>2. QED
    BY <1>1, <1>3, <2>1 DEF Shape, Depth
<1>5. CASE PopExpand
  <2>1. /\ stack # <<>> /\ stack' = Tail(stack) /\ pc' = "children"
        /\ first' = first /\ frame' = Head(stack) /\ ~AtBound(Head(stack))
    BY <1>5 DEF PopExpand, Pop
  <2>2. Depth(Head(stack)) \in Nat
    BY <1>1, <2>1, PopType
  <2>3. cfg.maxDepth > 0 => Depth(frame') < cfg.maxDepth
    BY <1>1, <2>1, <2>2 DEF AtBound
  <2>4. QED
    <3>1. \A f \in Waiting' : f \in Waiting
      BY <1>3, <2>1
    <3>2. cfg.maxDepth > 0 => \A f \in Waiting' : Depth(f) <= cfg.maxDepth
      BY <3>1 DEF Shape
    <3>3. Nested(stack') /\ Hang(stack', frame'.path)
      BY <1>3, <2>1
    <3>4. QED
      BY <1>1, <2>1, <2>3, <3>2, <3>3 DEF Shape, Depth
<1>6. CASE Finish
  <2>1. /\ stack = <<>> /\ stack' = stack /\ pc' = "done" /\ first' = first
        /\ result' = Result(first = NoWitness, first, explored) /\ pc = "pop"
        /\ todo' = todo
    BY <1>6 DEF Finish
  <2>2. todo = {} /\ Waiting' = Waiting
    BY <1>1, <2>1 DEF TypeOK, ControlOK, Waiting
  <2>3. result'.schedule = first'.schedule
    BY <2>1 DEF Result
  <2>4. QED
    BY <1>1, <2>1, <2>2, <2>3 DEF Shape, Depth
<1>7. ASSUME pc = "children"
      PROVE  cfg.maxDepth > 0 => Depth(NextChild) <= cfg.maxDepth
  BY <1>1, <1>7, NextChildAfter DEF Shape
<1>8. CASE ChildPushed
  <2>1. /\ pc = "children" /\ stack' = <<NextChild>> \o stack
        /\ first' = first /\ frame' = frame /\ pc' # "done"
    BY <1>8 DEF ChildPushed, Try, Proceed
  <2>2. Nested(stack') /\ Hang(stack', frame.path)
    BY <1>1, <1>2, <2>1, NextChildAfter, NestedPush DEF Shape
  <2>3. Waiting' = Waiting \cup {NextChild}
    <3>1. NextChild \in FrameSet
      BY <1>1, <2>1, NextChildType
    <3>2. PICK c : c = NextChild
      OBVIOUS
    <3>3. Waiting' = Waiting \cup {c}
      BY <1>1, <2>1, <3>1, <3>2, WaitingPushed
    <3>4. QED
      BY <3>2, <3>3
  <2>4. PICK c : c = NextChild
    OBVIOUS
  <2>5. Waiting' = Waiting \cup {c} /\ (cfg.maxDepth > 0 => Depth(c) <= cfg.maxDepth)
    BY <1>7, <2>1, <2>3, <2>4
  <2>6. QED
    BY <1>1, <2>1, <2>2, <2>5 DEF Shape, Depth
<1>9. CASE ChildViolates
  <2>1. /\ pc = "children" /\ stack' = stack /\ frame' = frame
    BY <1>9 DEF ChildViolates, Try
  <2>2. PICK w : w = Check(scene, NextChild.state, NextChild.schedule)
    OBVIOUS
  <2>3. w.schedule = NextChild.schedule /\ w # NoWitness
    BY <1>1, <1>9, <2>1, <2>2, NextChildType, CheckFails DEF ChildViolates
  <2>4. first' = IF first = NoWitness THEN w ELSE first
    BY <1>9, <2>2 DEF ChildViolates
  <2>5. pc' = "done" => result'.schedule = first'.schedule /\ first' # NoWitness
    <3>1. SUFFICES ASSUME pc' = "done"
                   PROVE  result'.schedule = first'.schedule /\ first' # NoWitness
      OBVIOUS
    <3>2. ~cfg.continueAfterViolation /\ result' = Result(FALSE, w, explored)
      BY <1>9, <2>2, <3>1 DEF ChildViolates, Proceed
    <3>3. first = NoWitness
      BY <2>1, <3>2 DEF Grounded, StopsAtFirst
    <3>4. QED
      BY <2>3, <2>4, <3>2, <3>3 DEF Result
  <2>6. cfg.maxDepth > 0 => Len(first'.schedule) <= cfg.maxDepth
    BY <1>1, <1>7, <2>1, <2>3, <2>4 DEF Shape, Depth
  <2>7. Waiting' = Waiting
    BY <2>1 DEF Waiting
  <2>8. QED
    BY <1>1, <2>1, <2>5, <2>6, <2>7 DEF Shape, Depth
<1>10. QED
  BY <1>4, <1>5, <1>6, <1>8, <1>9 DEF Next

LEMMA ShapeHolds == Spec => []Shape
<1>1. Shape /\ UNCHANGED vars => Shape'
  BY DEF Shape, vars, input, Waiting, Depth
<1>2. Grounded /\ Shape /\ [Next]_vars => Shape'
  BY <1>1, StepShape
<1>3. QED
  BY <1>2, InitShape, GroundedHolds, PTL DEF Spec

-----------------------------------------------------------------------------
(* The first witness is the canonical one. *)

\* Until there is a witness, what is left to do leads to the canonical one.
Foretold(h) ==
    first = NoWitness =>
        Gives(scene, h, frame, todo, stack, Canonical(scene)[h][Initial(scene)])

\* A state that was reached leads nowhere, or what it leads to is still waiting
\* below it: that is why it can be pruned.
Sought(h) ==
    cfg.prune /\ first = NoWitness =>
        \A p \in reached :
            \/ Left(scene, h, p[1], p[2]) = <<>>
            \/ \E f \in Waiting : Under(f, p[1]) /\ Answer(scene, h, f) # <<>>
            \/ /\ Guilty(scene, frame, todo) \cup Fertile(scene, h, frame, todo) # {}
               /\ \E i \in 1..Len(frame.path) : frame.path[i] = p[1]

\* The witness is the one foretold.
Kept(h) ==
    first # NoWitness /\ Len(first.schedule) <= h =>
        first.schedule = Canonical(scene)[h][Initial(scene)]

Promise == Foreseen => \A h \in Horizons : Foretold(h) /\ Sought(h) /\ Kept(h)

\* Without transitions to try, the stack decides.
LEMMA GivesStack ==
    ASSUME NEW sc, NEW h, NEW f, NEW st, NEW w
    PROVE  Gives(sc, h, f, {}, st, w) <=> StackGives(sc, h, st, w)
BY DEF Gives, Guilty, Fertile

LEMMA InitPromise == Init => Promise
<1> SUFFICES ASSUME Init, Foreseen, NEW h \in Horizons
             PROVE  Foretold(h) /\ Sought(h) /\ Kept(h)
  BY DEF Promise
<1>1. TypeOK /\ scene \in Scene /\ h \in Nat
  BY InitTypeOK, HorizonType
<1>2. /\ Len(stack) = 1 /\ stack[1] = Root(scene) /\ todo = {} /\ reached = {}
      /\ first = NoWitness
  BY DEF Init
<1>3. /\ Root(scene).state = Initial(scene) /\ Root(scene).schedule = <<>>
      /\ Len(<<>>) = 0
  BY DEF Root, Frame
<1> PICK a : a = Canonical(scene)[h][Initial(scene)]
  OBVIOUS
<1>4. a \in Schedule
  BY <1>1, CanonicalDef, SceneAssumption
<1>5. Answer(scene, h, Root(scene)) = a
  <2>1. 0 <= h /\ h - 0 = h
    BY <1>1
  <2>2. QED
    BY <1>3, <2>1 DEF Answer, Left
<1>6. <<>> \o a = a
  BY <1>4 DEF Schedule
<1>7. StackGives(scene, h, stack, a)
  <2>1. CASE a = <<>>
    BY <1>2, <1>5, <2>1 DEF StackGives
  <2>2. CASE a # <<>>
    <3>1. Leads(scene, h, stack[1], a)
      BY <1>2, <1>3, <1>5, <1>6, <2>2 DEF Leads
    <3>2. 1 \in 1..Len(stack) /\ 1..1-1 = {}
      BY <1>2
    <3>3. QED
      BY <3>1, <3>2 DEF StackGives
  <2>3. QED
    BY <2>1, <2>2
<1>8. Gives(scene, h, frame, todo, stack, a)
  BY <1>2, <1>7, GivesStack
<1>9. QED
  BY <1>2, <1>8 DEF Foretold, Sought, Kept

\* What is known at each step.
Underway(h) ==
    /\ Grounded /\ Coverage /\ InLayers /\ Shape /\ Foreseen /\ h \in Horizons
    /\ Foretold(h) /\ Sought(h) /\ Kept(h)

LEMMA UnderwayFacts ==
    ASSUME NEW h, Underway(h)
    PROVE  /\ TypeOK /\ scene \in Scene /\ h \in Nat
           /\ stack \in Seq(FramesOf(scene)) /\ frame \in FramesOf(scene)
           /\ frame.state \in State(scene)
           /\ todo \in SUBSET Enabled(scene, frame.state)
           /\ pc = "pop" => todo = {}
           /\ \A f \in Waiting : f \in FramesOf(scene) /\ IsCleanRun(f)
<1>1. TypeOK /\ h \in Nat /\ scene \in Scene
  BY HorizonType DEF Underway, Grounded
<1>2. FrameSet = FramesOf(scene)
  BY DEF FrameSet, FramesOf
<1>3. /\ stack \in Seq(FramesOf(scene)) /\ frame \in FramesOf(scene)
      /\ todo \subseteq Enabled(scene, frame.state) /\ (pc = "pop" => todo = {})
  BY <1>1, <1>2 DEF TypeOK, ControlOK
<1>4. \A f \in Waiting : f \in FramesOf(scene) /\ IsCleanRun(f)
  BY <1>3 DEF Waiting, Underway, Grounded, FramesAreCleanRuns
<1>5. frame.state \in State(scene)
  BY <1>3 DEF FramesOf
<1>6. QED
  BY <1>1, <1>3, <1>4, <1>5

\* The frame that is popped.
LEMMA TopFacts ==
    ASSUME NEW h, Underway(h), stack # <<>>
    PROVE  /\ Head(stack) \in FramesOf(scene) /\ Head(stack) \in Waiting
           /\ Head(stack).state \in State(scene)
           /\ Len(Head(stack).schedule) \in Nat
           /\ IsCleanRun(Head(stack))
<1>1. stack \in Seq(FramesOf(scene))
  BY UnderwayFacts
<1>2. Len(stack) \in Nat \ {0} /\ Head(stack) = stack[1]
  BY <1>1, EmptySeq
<1>3. Head(stack) \in FramesOf(scene) /\ Head(stack) \in Waiting
  BY <1>1, <1>2 DEF Waiting
<1>4. QED
  BY <1>3, UnderwayFacts DEF FramesOf, Schedule

\* A frame is popped that leads nowhere.
LEMMA PopNothing ==
    ASSUME NEW h, Underway(h), pc = "pop", stack # <<>>, stack' = Tail(stack),
           UNCHANGED <<scene, cfg, frame, todo, first>>,
           Answer(scene, h, Head(stack)) = <<>>,
           reached' \subseteq reached \cup {<<Head(stack).state, Depth(Head(stack))>>}
    PROVE  Foretold(h)' /\ Sought(h)' /\ Kept(h)'
<1>1. /\ TypeOK /\ scene \in Scene /\ h \in Nat
      /\ stack \in Seq(FramesOf(scene)) /\ todo = {}
  BY UnderwayFacts
<1> PICK f, a, st : /\ f = Head(stack) /\ a = Canonical(scene)[h][Initial(scene)]
                    /\ st = stack
  OBVIOUS
<1>2. Kept(h)'
  BY DEF Underway, Kept
<1>3. Foretold(h)'
  <2>1. SUFFICES ASSUME first = NoWitness
                 PROVE  Gives(scene, h, frame, todo, stack', a)
    BY DEF Foretold
  <2>2. StackGives(scene, h, st, a)
    BY <1>1, <2>1, GivesStack DEF Underway, Foretold
  <2>3. StackGives(scene, h, Tail(st), a)
    BY <1>1, <2>2, GivesDrop
  <2>4. QED
    BY <1>1, <2>3, GivesStack
<1>4. Sought(h)'
  <2>1. SUFFICES ASSUME cfg.prune, first = NoWitness, NEW p \in reached'
                 PROVE  \/ Left(scene, h, p[1], p[2]) = <<>>
                        \/ \E g \in Waiting' : /\ Under(g, p[1])
                                               /\ Answer(scene, h, g) # <<>>
    BY DEF Sought
  <2>2. CASE p \in reached
    <3>1. Guilty(scene, frame, todo) \cup Fertile(scene, h, frame, todo) = {}
      BY <1>1 DEF Guilty, Fertile
    <3>2. \/ Left(scene, h, p[1], p[2]) = <<>>
          \/ \E g \in Waiting : Under(g, p[1]) /\ Answer(scene, h, g) # <<>>
      BY <2>1, <2>2, <3>1 DEF Underway, Sought
    <3>3. Waiting = Waiting' \cup {f}
      BY <1>1, WaitingPopped
    <3>4. QED
      BY <3>2, <3>3
  <2>3. CASE p = <<f.state, Depth(f)>>
    <3>1. Left(scene, h, p[1], p[2]) = Answer(scene, h, f)
      BY <2>3 DEF Answer, Depth
    <3>2. QED
      BY <3>1
  <2>4. QED
    BY <2>2, <2>3
<1>5. QED
  BY <1>2, <1>3, <1>4

LEMMA PromiseLeaf ==
    ASSUME NEW h, Underway(h), PopLeaf
    PROVE  Foretold(h)' /\ Sought(h)' /\ Kept(h)'
<1>1. /\ scene \in Scene /\ h \in Nat /\ h \in Horizons /\ cfg \in Config
  BY UnderwayFacts, HorizonType DEF Underway, Grounded
<1> PICK f : f = Head(stack)
  OBVIOUS
<1>2. /\ pc = "pop" /\ stack # <<>> /\ stack' = Tail(stack)
      /\ UNCHANGED <<scene, cfg, frame, todo, first>>
      /\ reached' = reached \cup {<<f.state, Depth(f)>>}
      /\ AtBound(f) \/ Enabled(scene, f.state) = {}
  BY DEF PopLeaf, Pop, input
<1>3. f \in FramesOf(scene) /\ Len(f.schedule) \in Nat
  BY <1>2, TopFacts
<1>4. Answer(scene, h, f) = <<>>
  <2>1. CASE AtBound(f)
    <3>1. cfg.maxDepth > 0 /\ Len(f.schedule) >= cfg.maxDepth
      BY <2>1 DEF AtBound, Depth
    <3>2. Len(f.schedule) >= h
      BY <1>1, <3>1 DEF Horizons
    <3>3. QED
      BY <1>1, <1>3, <3>2, AnswerNext
  <2>2. CASE Enabled(scene, f.state) = {}
    <3>1. /\ Guilty(scene, f, Enabled(scene, f.state)) = {}
          /\ Fertile(scene, h, f, Enabled(scene, f.state)) = {}
      BY <2>2 DEF Guilty, Fertile
    <3>2. Len(f.schedule) >= h \/ Len(f.schedule) < h
      BY <1>1, <1>3
    <3>3. QED
      BY <1>1, <1>3, <3>1, <3>2, AnswerNext
  <2>3. QED
    BY <1>2, <2>1, <2>2
<1>5. QED
  BY <1>2, <1>4, PopNothing

\* Nothing is lost by pruning: the state on the top was expanded before, and
\* nothing is sought below it any more.
LEMMA PromisePruned ==
    ASSUME NEW h, Underway(h), PopPruned
    PROVE  Foretold(h)' /\ Sought(h)' /\ Kept(h)'
<1>1. /\ TypeOK /\ scene \in Scene /\ h \in Nat /\ h \in Horizons /\ Foreseen
      /\ stack \in Seq(FramesOf(scene))
  BY UnderwayFacts DEF Underway
<1> PICK f, st : f = Head(stack) /\ st = stack
  OBVIOUS
<1>2. /\ pc = "pop" /\ stack # <<>> /\ stack' = Tail(stack) /\ reached' = reached
      /\ UNCHANGED <<scene, cfg, frame, todo, first>>
      /\ cfg.prune /\ NodeKey(scene, f.state) \in expanded
  BY DEF PopPruned, Known, input
<1>3. /\ f \in FramesOf(scene) /\ f.state \in State(scene) /\ IsCleanRun(f)
      /\ Len(f.schedule) \in Nat /\ f \in FrameSet
  BY <1>2, TopFacts DEF FrameSet, FramesOf
<1>4. PICK p \in reached : p[1] = f.state
  <2>1. PICK p \in reached : NodeKey(scene, f.state) = NodeKey(scene, p[1])
    BY <1>2 DEF Underway, Coverage, ExpandedWereReached
  <2>2. p[1] \in State(scene)
    BY <1>1 DEF TypeOK, FoundOK
  <2>3. f.state = p[1]
    BY <1>1, <1>3, <2>1, <2>2, FingerprintAssumption
  <2>4. QED
    BY <2>1, <2>3
<1>5. p[2] \in Nat /\ p[1] \in Layer(scene)[p[2]]
  BY <1>1 DEF TypeOK, FoundOK, Underway, InLayers
<1>6. /\ f.state \in Layer(scene)[Len(f.schedule)]
      /\ f.path # <<>> /\ f.path[Len(f.path)] = f.state
      /\ \A i \in 1..Len(f.path), j \in 1..Len(f.path) :
            i < j => f.path[i] # f.path[j]
  BY <1>1, <1>2, <1>3, FrameEnds DEF Underway
<1>7. \A g \in Waiting : ~Under(g, f.state)
  <2>1. SUFFICES ASSUME NEW n \in 1..Len(st) PROVE ~Under(st[n], f.state)
    BY DEF Waiting
  <2>2. st \in Seq(FramesOf(scene)) /\ st # <<>> /\ Nested(st) /\ f = Head(st)
    BY <1>1, <1>2 DEF Underway, Shape
  <2>3. QED
    BY <1>1, <1>3, <1>6, <2>2, TopIsNew
<1>8. first = NoWitness => Answer(scene, h, f) = <<>>
  <2>1. SUFFICES ASSUME first = NoWitness PROVE Answer(scene, h, f) = <<>>
    OBVIOUS
  <2>2. todo = {}
    BY <1>2, UnderwayFacts
  <2>3. Guilty(scene, frame, todo) \cup Fertile(scene, h, frame, todo) = {}
    BY <2>2 DEF Guilty, Fertile
  <2>4. Left(scene, h, p[1], p[2]) = <<>>
    BY <1>2, <1>4, <1>7, <2>1, <2>3 DEF Underway, Sought
  <2>5. Left(scene, h, f.state, Len(f.schedule)) = Left(scene, h, f.state, p[2])
    BY <1>1, <1>2, <1>3, <1>4, <1>5, <1>6, SameLeft
  <2>6. QED
    BY <1>4, <2>4, <2>5 DEF Answer
<1>9. CASE first = NoWitness
  BY <1>2, <1>8, <1>9, PopNothing
<1>10. CASE first # NoWitness
  BY <1>2, <1>10 DEF Underway, Foretold, Sought, Kept
<1>11. QED
  BY <1>9, <1>10

LEMMA PromiseExpand ==
    ASSUME NEW h, Underway(h), PopExpand
    PROVE  Foretold(h)' /\ Sought(h)' /\ Kept(h)'
<1>1. /\ TypeOK /\ scene \in Scene /\ h \in Nat
      /\ stack \in Seq(FramesOf(scene))
  BY UnderwayFacts
<1> PICK f, st, a, T : /\ f = Head(stack) /\ st = stack
                       /\ a = Canonical(scene)[h][Initial(scene)]
                       /\ T = Enabled(scene, f.state)
  OBVIOUS
<1>2. /\ pc = "pop" /\ stack # <<>> /\ stack' = Tail(stack) /\ todo = {}
      /\ UNCHANGED <<scene, cfg, first>>
      /\ reached' = reached \cup {<<f.state, Depth(f)>>}
      /\ frame' = f /\ todo' = T
  BY UnderwayFacts DEF PopExpand, Pop, input
<1>3. /\ f \in FramesOf(scene) /\ f.state \in State(scene) /\ IsCleanRun(f)
      /\ Len(f.schedule) \in Nat /\ f \in FrameSet
  BY <1>2, TopFacts DEF FrameSet, FramesOf
<1>4. Kept(h)'
  BY <1>2 DEF Underway, Kept
<1>5. Foretold(h)'
  <2>1. SUFFICES ASSUME first = NoWitness
                 PROVE  Gives(scene, h, f, T, Tail(st), a)
    BY <1>2 DEF Foretold
  <2>2. StackGives(scene, h, st, a)
    BY <1>2, <2>1, GivesStack DEF Underway, Foretold
  <2>3. QED
    BY <1>1, <1>2, <1>3, <2>2, GivesExpand
<1>6. Sought(h)'
  <2> PICK more : more = Guilty(scene, f, T) \cup Fertile(scene, h, f, T)
    OBVIOUS
  <2>1. SUFFICES ASSUME cfg.prune, first = NoWitness, NEW p \in reached'
                 PROVE  \/ Left(scene, h, p[1], p[2]) = <<>>
                        \/ \E g \in Waiting' : /\ Under(g, p[1])
                                               /\ Answer(scene, h, g) # <<>>
                        \/ /\ more # {}
                           /\ \E i \in 1..Len(f.path) : f.path[i] = p[1]
    BY <1>2 DEF Sought
  <2>2. Answer(scene, h, f) # <<>> => more # {}
    <3>1. Len(f.schedule) >= h \/ Len(f.schedule) < h
      BY <1>1, <1>3
    <3>2. QED
      BY <1>1, <1>3, <3>1, AnswerNext
  <2>3. /\ f.path \in Seq(State(scene)) /\ f.path # <<>>
        /\ f.path[Len(f.path)] = f.state
    BY <1>3, FrameEnds DEF Underway, FramesOf
  <2>4. CASE p \in reached
    <3>1. Guilty(scene, frame, todo) \cup Fertile(scene, h, frame, todo) = {}
      BY <1>2 DEF Guilty, Fertile
    <3>2. \/ Left(scene, h, p[1], p[2]) = <<>>
          \/ \E g \in Waiting : Under(g, p[1]) /\ Answer(scene, h, g) # <<>>
      BY <2>1, <2>4, <3>1 DEF Underway, Sought
    <3>3. Waiting = Waiting' \cup {f}
      BY <1>1, <1>2, WaitingPopped
    <3>4. ASSUME Under(f, p[1]), Answer(scene, h, f) # <<>>
          PROVE  more # {} /\ \E i \in 1..Len(f.path) : f.path[i] = p[1]
      <4>1. PICK i \in 1..Len(f.path)-1 : f.path[i] = p[1]
        BY <3>4 DEF Under
      <4>2. i \in 1..Len(f.path)
        BY <2>3
      <4>3. QED
        BY <2>2, <3>4, <4>1, <4>2
    <3>5. QED
      BY <3>2, <3>3, <3>4
  <2>5. CASE p = <<f.state, Depth(f)>>
    <3>1. Left(scene, h, p[1], p[2]) = Answer(scene, h, f)
      BY <2>5 DEF Answer, Depth
    <3>2. Len(f.path) \in 1..Len(f.path)
      BY <2>3, EmptySeq
    <3>3. QED
      BY <2>2, <2>3, <2>5, <3>1, <3>2
  <2>6. QED
    BY <1>2, <2>4, <2>5
<1>7. QED
  BY <1>4, <1>5, <1>6

LEMMA PromisePushed ==
    ASSUME NEW h, Underway(h), ChildPushed
    PROVE  Foretold(h)' /\ Sought(h)' /\ Kept(h)'
<1>1. /\ TypeOK /\ scene \in Scene /\ h \in Nat
      /\ stack \in Seq(FramesOf(scene)) /\ frame \in FramesOf(scene)
      /\ todo \in SUBSET Enabled(scene, frame.state)
  BY UnderwayFacts
<1> PICK f, st, a, T, t, c :
       /\ f = frame /\ st = stack /\ a = Canonical(scene)[h][Initial(scene)]
       /\ T = todo /\ t = Highest(T) /\ c = After(scene, f, t)
  OBVIOUS
<1>2. /\ pc = "children" /\ UNCHANGED <<scene, cfg, first, frame, reached>>
      /\ todo' = T \ {t} /\ stack' = <<NextChild>> \o st
      /\ ~Violates(scene, NextChild.state)
  BY DEF ChildPushed, Try, input
<1>3. /\ t \in T /\ NextChild = c /\ c.state = Apply(scene, f.state, t)
      /\ T \in SUBSET Enabled(scene, f.state) /\ c \in FrameSet
  BY <1>1, <1>2, NextChildAfter, NextChildType
<1>4. Kept(h)'
  BY <1>2 DEF Underway, Kept
<1>5. Foretold(h)'
  <2>1. SUFFICES ASSUME first = NoWitness
                 PROVE  Gives(scene, h, f, T \ {t}, <<c>> \o st, a)
    BY <1>2, <1>3 DEF Foretold
  <2>2. Gives(scene, h, f, T, st, a)
    BY <2>1 DEF Underway, Foretold
  <2>3. ~Violates(scene, Apply(scene, f.state, t))
    BY <1>2, <1>3
  <2>4. QED
    BY <1>1, <1>3, <2>2, <2>3, GivesPush
<1>6. Sought(h)'
  <2> PICK G, F : G = Guilty(scene, f, T) /\ F = Fertile(scene, h, f, T)
    OBVIOUS
  <2>1. /\ Guilty(scene, f, T \ {t}) = G
        /\ Fertile(scene, h, f, T \ {t}) = F \ {t}
        /\ t \notin G
    BY <1>2, <1>3 DEF Guilty, Fertile
  <2>2. SUFFICES ASSUME cfg.prune, first = NoWitness, NEW p \in reached
                 PROVE  \/ Left(scene, h, p[1], p[2]) = <<>>
                        \/ \E g \in Waiting' : /\ Under(g, p[1])
                                               /\ Answer(scene, h, g) # <<>>
                        \/ /\ G \cup (F \ {t}) # {}
                           /\ \E i \in 1..Len(f.path) : f.path[i] = p[1]
    BY <1>2, <2>1 DEF Sought
  <2>3. \/ Left(scene, h, p[1], p[2]) = <<>>
        \/ \E g \in Waiting : Under(g, p[1]) /\ Answer(scene, h, g) # <<>>
        \/ /\ G \cup F # {}
           /\ \E i \in 1..Len(f.path) : f.path[i] = p[1]
    BY <2>2 DEF Underway, Sought
  <2>4. Waiting' = Waiting \cup {c}
    BY <1>1, <1>2, <1>3, WaitingPushed
  <2>5. ASSUME t \in F, \E i \in 1..Len(f.path) : f.path[i] = p[1]
        PROVE  Under(c, p[1]) /\ Answer(scene, h, c) # <<>>
    <3>1. Answer(scene, h, c) # <<>>
      BY <2>5 DEF Fertile
    <3>2. /\ c.path = Append(f.path, Apply(scene, f.state, t))
          /\ f.path \in Seq(State(scene)) /\ Apply(scene, f.state, t) \in State(scene)
      BY <1>1, <1>3, AfterType, SceneAssumption DEF FramesOf
    <3>3. PICK i \in 1..Len(f.path) : f.path[i] = p[1]
      BY <2>5
    <3>4. i \in 1..Len(c.path)-1 /\ c.path[i] = f.path[i]
      BY <3>2
    <3>5. QED
      BY <3>1, <3>3, <3>4 DEF Under
  <2>6. QED
    BY <2>3, <2>4, <2>5
<1>7. QED
  BY <1>4, <1>5, <1>6

LEMMA PromiseViolates ==
    ASSUME NEW h, Underway(h), ChildViolates
    PROVE  Foretold(h)' /\ Sought(h)' /\ Kept(h)'
<1>1. /\ TypeOK /\ scene \in Scene /\ h \in Nat
      /\ frame \in FramesOf(scene)
      /\ todo \in SUBSET Enabled(scene, frame.state)
  BY UnderwayFacts
<1> PICK f, a, T, t : /\ f = frame /\ a = Canonical(scene)[h][Initial(scene)]
                      /\ T = todo /\ t = Highest(T)
  OBVIOUS
<1>2. /\ pc = "children" /\ UNCHANGED <<scene, cfg>>
      /\ Violates(scene, NextChild.state)
  BY DEF ChildViolates, Try, input
<1>3. /\ t \in T /\ T \in SUBSET Enabled(scene, f.state)
      /\ NextChild.state = Apply(scene, f.state, t)
      /\ NextChild.schedule = Append(f.schedule, t)
      /\ Depth(f) \in Nat /\ Depth(NextChild) = Depth(f) + 1
  BY <1>1, <1>2, NextChildAfter
<1> PICK w : w = Check(scene, NextChild.state, NextChild.schedule)
  OBVIOUS
<1>4. w.schedule = NextChild.schedule /\ w # NoWitness
  BY <1>1, <1>2, NextChildType, CheckFails
<1>5. first' = IF first = NoWitness THEN w ELSE first
  BY DEF ChildViolates
<1>6. first' # NoWitness
  BY <1>4, <1>5
<1>7. Kept(h)'
  <2>1. CASE first # NoWitness
    BY <1>2, <1>5, <2>1 DEF Underway, Kept
  <2>2. CASE first = NoWitness
    <3>1. SUFFICES ASSUME Len(NextChild.schedule) <= h
                   PROVE  NextChild.schedule = a
      BY <1>2, <1>4, <1>5, <2>2 DEF Kept
    <3>2. Len(f.schedule) < h
      BY <1>1, <1>3, <3>1 DEF Depth
    <3>3. Gives(scene, h, f, T, stack, a)
      BY <2>2 DEF Underway, Foretold
    <3>4. Violates(scene, Apply(scene, f.state, t))
      BY <1>2, <1>3
    <3>5. a = Append(f.schedule, t)
      BY <1>1, <1>3, <3>2, <3>3, <3>4, GivesGuilty
    <3>6. QED
      BY <1>3, <3>5
  <2>3. QED
    BY <2>1, <2>2
<1>8. QED
  BY <1>6, <1>7 DEF Foretold, Sought

LEMMA StepPromise ==
    ASSUME Grounded, Coverage, InLayers, Shape, Promise, [Next]_vars
    PROVE  Promise'
<1>1. UNCHANGED <<scene, cfg>> /\ Foreseen' = Foreseen /\ Horizons' = Horizons
  <2>1. scene' = scene /\ cfg' = cfg
    BY SameScene DEF vars, input
  <2>2. QED
    BY <2>1 DEF Foreseen, Tame, EmbedsProgress, Acyclic, Horizons
<1>2. SUFFICES ASSUME Foreseen, NEW h \in Horizons
               PROVE  Foretold(h)' /\ Sought(h)' /\ Kept(h)'
  BY <1>1 DEF Promise
<1>3. Underway(h)
  BY <1>2 DEF Underway, Promise
<1>4. ASSUME UNCHANGED <<scene, cfg, stack, frame, todo, first, reached>>
      PROVE  Foretold(h)' /\ Sought(h)' /\ Kept(h)'
  BY <1>3, <1>4 DEF Underway, Foretold, Sought, Kept, Waiting
<1>5. CASE UNCHANGED vars
  BY <1>4, <1>5 DEF vars, input
<1>6. CASE Finish
  BY <1>4, <1>6 DEF Finish, input
<1>7. QED
  BY <1>3, <1>5, <1>6, PromiseLeaf, PromisePruned, PromiseExpand,
     PromisePushed, PromiseViolates DEF Next

LEMMA PromiseHolds == Spec => []Promise
<1>1. Grounded /\ Coverage /\ InLayers /\ Shape /\ Promise /\ [Next]_vars => Promise'
  BY StepPromise
<1>2. QED
  BY <1>1, InitPromise, GroundedHolds, CoverageHolds, InLayersHolds, ShapeHolds,
     PTL DEF Spec

-----------------------------------------------------------------------------
(* The first witness is within the horizon. *)

\* c is the canonical schedule from s, within n transitions.
Comes(sc, n, s, c) == c \in Seq(Transition) /\ c = Canonical(sc)[n][s]

LEMMA OneComes ==
    ASSUME NEW sc, NEW n, NEW s, NEW b, NEW c, Comes(sc, n, s, b), Comes(sc, n, s, c)
    PROVE  b = c
BY DEF Comes

\* A canonical schedule goes on canonically after its first transition.
LEMMA CanonicalTail ==
    ASSUME NEW sc \in Scene, NEW s \in State(sc), NEW k \in Nat,
           NEW c \in Seq(Transition), Comes(sc, k + 1, s, c), Len(c) >= 2
    PROVE  \E t \in Enabled(sc, s), a \in Seq(Transition) :
              /\ Comes(sc, k, Apply(sc, s, t), a)
              /\ c[1] = t /\ Len(c) = Len(a) + 1
              /\ \A x \in 1..Len(a) : a[x] = c[x+1]
<1>0. Len(c) # 0 /\ Len(c) # 1
  <2>1. \A x \in Nat : x >= 2 => x # 0 /\ x # 1
    OBVIOUS
  <2>2. Len(c) \in Nat
    OBVIOUS
  <2>3. QED
    BY <2>1, <2>2, Zenon
<1> PICK bad, U : bad = Bad(sc, s) /\ U = Promising(sc, Canonical(sc)[k], s)
  OBVIOUS
<1>1. /\ bad # {} => c = <<Highest(bad)>>
      /\ bad = {} /\ U = {} => c = <<>>
      /\ bad = {} /\ U # {} =>
            c = <<Lowest(U)>> \o Canonical(sc)[k][Apply(sc, s, Lowest(U))]
  BY CanonicalNext DEF Comes
<1>2. bad = {} /\ U # {}
  <2>1. Len(<<>>) = 0 /\ Len(<<Highest(bad)>>) = 1
    OBVIOUS
  <2>2. c # <<>> /\ c # <<Highest(bad)>>
    BY <1>0, <2>1, Zenon
  <2>3. QED
    BY <1>1, <2>2
<1> PICK t, a : t = Lowest(U) /\ a = Canonical(sc)[k][Apply(sc, s, t)]
  OBVIOUS
<1>3. t \in Enabled(sc, s)
  <2>1. U \in SUBSET Enabled(sc, s)
    BY DEF Promising
  <2>2. QED
    BY <1>2, <2>1, LowestIn
<1>4. t \in Transition /\ Apply(sc, s, t) \in State(sc)
  BY <1>3, SceneAssumption
<1>5. a \in Seq(Transition)
  BY <1>4, CanonicalDef DEF Schedule
<1>6. c = <<t>> \o a
  BY <1>1, <1>2
<1>7. c[1] = t /\ Len(c) = Len(a) + 1 /\ \A x \in 1..Len(a) : a[x] = c[x+1]
  <2>1. ASSUME NEW u \in Transition, NEW b \in Seq(Transition)
        PROVE  /\ (<<u>> \o b)[1] = u /\ Len(<<u>> \o b) = Len(b) + 1
               /\ \A x \in 1..Len(b) : b[x] = (<<u>> \o b)[x+1]
    OBVIOUS
  <2>2. QED
    BY <1>4, <1>5, <1>6, <2>1
<1>8. Comes(sc, k, Apply(sc, s, t), a)
  BY <1>5 DEF Comes
<1>9. QED
  BY <1>3, <1>5, <1>7, <1>8

\* The canonical schedule goes on canonically after each of its transitions.
LEMMA CanonicalAlong ==
    ASSUME NEW sc \in Scene, NEW schedule \in Seq(Transition),
           NEW path \in Seq(State(sc)), IsRun(sc, path, schedule),
           NEW m \in Nat, Comes(sc, m, Initial(sc), schedule)
    PROVE  \A n \in Nat : n < Len(schedule) =>
              \E e \in Nat, c \in Seq(Transition) :
                 /\ n + e = m
                 /\ Comes(sc, e, path[n+1], c)
                 /\ n + Len(c) = Len(schedule)
<1>1. /\ Len(schedule) \in Nat /\ Len(path) = Len(schedule) + 1
      /\ path[1] = Initial(sc)
      /\ \A i \in 1..Len(schedule) : /\ schedule[i] \in Enabled(sc, path[i])
                                     /\ path[i+1] = Apply(sc, path[i], schedule[i])
  BY DEF IsRun
<1> DEFINE At(n) == \E e \in Nat, c \in Seq(Transition) :
                       /\ n + e = m
                       /\ Comes(sc, e, path[n+1], c)
                       /\ n + Len(c) = Len(schedule)
                       /\ \A x \in 1..Len(c) : c[x] = schedule[n+x]
           N == {n \in Nat : n < Len(schedule) => At(n)}
<1>2. 0 \in N
  <2>1. 0 + m = m /\ path[0+1] = Initial(sc) /\ 0 + Len(schedule) = Len(schedule)
    BY <1>1
  <2>2. \A x \in 1..Len(schedule) : schedule[x] = schedule[0+x]
    BY <1>1
  <2>3. At(0)
    BY <2>1, <2>2
  <2>4. QED
    BY <2>3
<1>3. ASSUME NEW n \in Nat, n \in N PROVE n + 1 \in N
  <2>1. SUFFICES ASSUME n + 1 < Len(schedule) PROVE At(n+1)
    OBVIOUS
  <2>2. n < Len(schedule) /\ n + 1 \in 1..Len(schedule) /\ n + 1 \in 1..Len(path)
    BY <1>1, <2>1
  <2>3. PICK e \in Nat, c \in Seq(Transition) :
           /\ n + e = m
           /\ Comes(sc, e, path[n+1], c)
           /\ n + Len(c) = Len(schedule)
           /\ \A x \in 1..Len(c) : c[x] = schedule[n+x]
    BY <1>3, <2>2
  <2>4. path[n+1] \in State(sc) /\ Len(c) \in Nat /\ Len(c) >= 2
    BY <1>1, <2>1, <2>2, <2>3
  <2>5. e # 0
    <3>1. SUFFICES ASSUME e = 0 PROVE FALSE
      OBVIOUS
    <3>2. c = <<>>
      BY <2>3, <2>4, <3>1, CanonicalDef DEF Comes
    <3>3. QED
      BY <2>4, <3>2
  <2>6. PICK k \in Nat : e = k + 1
    <3>1. e - 1 \in Nat /\ e = (e - 1) + 1
      BY <2>5
    <3>2. QED
      BY <3>1
  <2>7. PICK t \in Enabled(sc, path[n+1]), a \in Seq(Transition) :
           /\ Comes(sc, k, Apply(sc, path[n+1], t), a)
           /\ c[1] = t /\ Len(c) = Len(a) + 1
           /\ \A x \in 1..Len(a) : a[x] = c[x+1]
    <3>1. Comes(sc, k + 1, path[n+1], c)
      BY <2>3, <2>6
    <3>2. QED
      BY <2>4, <3>1, CanonicalTail
  <2>8. t = schedule[n+1]
    BY <2>3, <2>4, <2>7
  <2>9. path[(n+1)+1] = Apply(sc, path[n+1], t)
    BY <1>1, <2>2, <2>8
  <2>10. (n + 1) + k = m /\ (n + 1) + Len(a) = Len(schedule)
    BY <1>1, <2>3, <2>6, <2>7
  <2>11. ASSUME NEW x \in 1..Len(a) PROVE a[x] = schedule[(n+1)+x]
    <3>1. x + 1 \in 1..Len(c) /\ n + (x + 1) = (n + 1) + x
      BY <2>7
    <3>2. QED
      BY <2>3, <2>7, <3>1
  <2>12. Comes(sc, k, path[(n+1)+1], a)
    BY <2>7, <2>9
  <2>13. QED
    BY <2>10, <2>11, <2>12
<1>4. Nat \subseteq N
  <2> HIDE DEF N
  <2>1. QED
    BY <1>2, <1>3, AllNumbers
<1>5. QED
  BY <1>4

\* A schedule that is canonical from every horizon on does not come back to a
\* state: what is left from there would be of two lengths.
LEMMA CanonicalIsShort ==
    ASSUME NEW sc \in Scene, IsFiniteSet(State(sc)),
           NEW schedule \in Seq(Transition), NEW path \in Seq(State(sc)),
           IsRun(sc, path, schedule),
           \A m \in Nat : m >= Len(schedule) => Comes(sc, m, Initial(sc), schedule)
    PROVE  Len(schedule) <= Cardinality(State(sc))
<1>1. /\ Len(schedule) \in Nat /\ Cardinality(State(sc)) \in Nat
      /\ Len(path) = Len(schedule) + 1
  BY FS_CardinalityType DEF IsRun
<1> DEFINE Along(m, n) == \E e \in Nat, c \in Seq(Transition) :
                             /\ n + e = m
                             /\ Comes(sc, e, path[n+1], c)
                             /\ n + Len(c) = Len(schedule)
<1>1a. ASSUME NEW m \in Nat, m >= Len(schedule), NEW n \in Nat, n < Len(schedule)
       PROVE  Along(m, n)
  BY <1>1a, CanonicalAlong
<1>2. ASSUME NEW n \in Nat, NEW r \in Nat, n < r, r < Len(schedule),
             path[n+1] = path[r+1]
      PROVE  FALSE
  <2>1. n < Len(schedule)
    BY <1>1, <1>2
  <2>2. Along(Len(schedule), n)
    <3> HIDE DEF Along
    <3>1. Len(schedule) >= Len(schedule)
      BY <1>1
    <3>2. QED
      BY <1>1, <1>1a, <2>1, <3>1
  <2>3. PICK e \in Nat, b \in Seq(Transition) :
           /\ n + e = Len(schedule)
           /\ Comes(sc, e, path[n+1], b)
           /\ n + Len(b) = Len(schedule)
    BY <2>2
  <2>4. r + e \in Nat /\ r + e >= Len(schedule)
    BY <1>1, <1>2, <2>3
  <2>5. Along(r + e, r)
    <3> HIDE DEF Along
    <3>1. QED
      BY <1>1a, <1>2, <2>4
  <2>6. PICK d \in Nat, c \in Seq(Transition) :
           /\ r + d = r + e
           /\ Comes(sc, d, path[r+1], c)
           /\ r + Len(c) = Len(schedule)
    BY <2>5
  <2>7. d = e
    BY <2>6
  <2>8. b = c
    BY <1>2, <2>3, <2>6, <2>7, OneComes
  <2>9. Len(b) \in Nat
    OBVIOUS
  <2>10. QED
    BY <1>1, <1>2, <2>3, <2>6, <2>8, <2>9
<1>3. ASSUME Len(schedule) > Cardinality(State(sc)) PROVE FALSE
  <2> DEFINE S == 1..Len(schedule)
             f == [i \in S |-> path[i]]
  <2>1. IsFiniteSet(S) /\ Cardinality(S) = Len(schedule)
    <3>1. /\ 1 \in Int /\ Len(schedule) \in Int /\ ~(1 > Len(schedule))
          /\ Len(schedule) - 1 + 1 = Len(schedule)
      BY <1>1, <1>3
    <3>2. IsFiniteSet(S) /\ Cardinality(S) = Len(schedule) - 1 + 1
      BY <3>1, FS_Interval
    <3>3. QED
      BY <3>1, <3>2
  <2>2. f \in [S -> State(sc)]
    BY <1>1
  <2>3. PICK i, j \in S : i # j /\ f[i] = f[j]
    <3>1. Cardinality(State(sc)) < Cardinality(S)
      BY <1>1, <1>3, <2>1
    <3> HIDE DEF S, f
    <3>2. QED
      BY <2>1, <2>2, <3>1, FS_PigeonHole
  <2>4. path[i] = path[j] /\ i \in 1..Len(schedule) /\ j \in 1..Len(schedule)
    BY <2>3
  <2>5. \A x, y \in 1..Len(schedule) : x < y => path[x] # path[y]
    <3>1. SUFFICES ASSUME NEW x \in 1..Len(schedule), NEW y \in 1..Len(schedule),
                          x < y, path[x] = path[y]
                   PROVE  FALSE
      OBVIOUS
    <3>2. /\ x - 1 \in Nat /\ y - 1 \in Nat /\ x - 1 < y - 1
          /\ y - 1 < Len(schedule) /\ (x - 1) + 1 = x /\ (y - 1) + 1 = y
      BY <1>1, <3>1
    <3>3. QED
      BY <1>2, <3>1, <3>2
  <2>6. i < j \/ j < i
    BY <1>1, <2>3, <2>4
  <2>7. QED
    BY <2>4, <2>5, <2>6
<1>4. QED
  BY <1>1, <1>3

\* The schedule of the first witness is an execution of the scene.
LEMMA FirstIsRun ==
    ASSUME Grounded, first # NoWitness
    PROVE  /\ first.schedule \in Schedule /\ trace \in Seq(State(scene))
           /\ IsRun(scene, trace, first.schedule)
BY DEF Grounded, TypeOK, FoundOK, WitnessReproduces, Witness

\* What is returned when the search is over.
LEMMA FirstAtDone ==
    ASSUME Grounded, Shape, Promise, IsFiniteSet(State(scene)),
           pc = "done", Tame,
           NEW horizon, horizon = IF cfg.maxDepth = 0
                                  THEN Cardinality(State(scene)) ELSE cfg.maxDepth
    PROVE  result.schedule = Canonical(scene)[horizon][Initial(scene)]
<1> PICK a : a = Canonical(scene)[horizon][Initial(scene)]
  OBVIOUS
<1>1. /\ TypeOK /\ Foreseen /\ scene \in Scene /\ cfg.maxDepth \in Nat
      /\ cfg.prune \in BOOLEAN /\ Cardinality(State(scene)) \in Nat
  BY HorizonType DEF Grounded, Foreseen, Config
<1>2. horizon \in Horizons /\ horizon \in Nat
  BY <1>1 DEF Horizons
<1>3. /\ result.schedule = first.schedule
      /\ first = NoWitness => stack = <<>> /\ todo = {}
  BY DEF Shape
<1>4. \A h \in Horizons : Foretold(h) /\ Kept(h)
  BY <1>1 DEF Promise
<1>5. CASE first = NoWitness
  <2>1. Gives(scene, horizon, frame, {}, <<>>, a)
    BY <1>2, <1>3, <1>4, <1>5 DEF Foretold
  <2>2. StackGives(scene, horizon, <<>>, a)
    BY <2>1, GivesStack
  <2>3. a = <<>>
    BY <2>2, GivesNothing
  <2>4. first.schedule = <<>>
    BY <1>5 DEF NoWitness
  <2>5. QED
    BY <1>3, <2>3, <2>4
<1>6. CASE first # NoWitness
  <2> PICK schedule, path : schedule = first.schedule /\ path = trace
    OBVIOUS
  <2>1. /\ schedule \in Schedule /\ path \in Seq(State(scene))
        /\ IsRun(scene, path, schedule) /\ Len(schedule) \in Nat
    BY <1>6, FirstIsRun DEF Schedule
  <2>2. Len(schedule) <= horizon
    <3>1. CASE cfg.maxDepth > 0
      BY <3>1 DEF Shape
    <3>2. CASE cfg.maxDepth = 0 /\ cfg.prune
      <4>1. Layer(scene)[horizon] = {}
        BY <1>1, <3>2, TameEnds
      <4>2. path[Len(path)] \in Layer(scene)[Len(schedule)]
        BY <1>1, <2>1, RunInLayers
      <4>3. ~(horizon <= Len(schedule))
        BY <1>1, <1>2, <2>1, <4>1, <4>2, LayersEnd
      <4>4. QED
        BY <1>2, <2>1, <4>3
    <3>3. CASE cfg.maxDepth = 0 /\ ~cfg.prune
      <4>1. Horizons = Nat
        BY <3>3 DEF Horizons
      <4>2. \A m \in Nat : m >= Len(schedule) =>
               Comes(scene, m, Initial(scene), schedule)
        BY <1>4, <1>6, <2>1, <4>1 DEF Kept, Comes, Schedule
      <4>3. Len(schedule) <= Cardinality(State(scene))
        BY <1>1, <2>1, <4>2, CanonicalIsShort DEF Schedule, Foreseen
      <4>4. QED
        BY <3>3, <4>3
    <3>4. QED
      BY <1>1, <3>1, <3>2, <3>3
  <2>3. QED
    BY <1>2, <1>3, <1>4, <1>6, <2>2 DEF Kept
<1>7. QED
  BY <1>5, <1>6

\* The prune contract: the first witness is the canonical one, whether or not
\* the search prunes, measures or continues, for every scene with finitely many
\* states that is fit for the options (prune_test.go:63-66, scheduler.go:36-38,
\* 111-149).
THEOREM TheFirstIsCanonical ==
    Spec => [](IsFiniteSet(State(scene)) => FirstIsCanonical)
<1>1. Grounded /\ Shape /\ Promise
      => (IsFiniteSet(State(scene)) => FirstIsCanonical)
  BY FirstAtDone DEF FirstIsCanonical, Tame
<1>2. QED
  BY <1>1, GroundedHolds, ShapeHolds, PromiseHolds, PTL

-----------------------------------------------------------------------------
(* Every schedule once. *)

\* b begins with a.
Begins(a, b) == Len(a) <= Len(b) /\ \A i \in 1..Len(a) : a[i] = b[i]

\* No schedule begins with both.
Diverge(a, b) == \A c \in Schedule : ~(Begins(a, c) /\ Begins(b, c))

\* A search under the bound, 0 if there is none, ends schedule in s.
Over(sc, bound, schedule, s) ==
    \/ ~GoesOn(sc, schedule, s)
    \/ bound > 0 /\ Len(schedule) >= bound
    \/ Enabled(sc, s) = {}

\* The schedules to explore: the executions that violate nothing before their
\* end and end in a violation, at the bound or where nothing is enabled.
Finished(sc, bound) ==
    {b \in Schedule : /\ bound > 0 => Len(b) <= bound
                      /\ \E s \in State(sc) : WalksTo(sc, b, s) /\ Over(sc, bound, b, s)}

\* Those that begin with a.
Onward(sc, bound, a) == {b \in Finished(sc, bound) : Begins(a, b)}

LEMMA BeginsLonger ==
    ASSUME NEW a \in Schedule, NEW t \in Transition
    PROVE  /\ Append(a, t) \in Schedule /\ Len(Append(a, t)) = Len(a) + 1
           /\ Len(a) \in Nat
           /\ \A b \in Schedule : Begins(Append(a, t), b) <=>
                 Begins(a, b) /\ Len(a) < Len(b) /\ b[Len(a) + 1] = t
<1> PICK c, n : c = Append(a, t) /\ n = Len(a)
  OBVIOUS
<1>1. /\ c \in Schedule /\ n \in Nat /\ Len(c) = n + 1 /\ c[n+1] = t
      /\ \A i \in 1..n : c[i] = a[i]
  BY DEF Schedule
<1>2. ASSUME NEW b \in Schedule
      PROVE  Begins(c, b) <=> Begins(a, b) /\ n < Len(b) /\ b[n+1] = t
  <2>1. Len(b) \in Nat /\ 1..n+1 = 1..n \cup {n+1}
    BY <1>1 DEF Schedule
  <2>2. QED
    BY <1>1, <2>1 DEF Begins
<1>3. QED
  BY <1>1, <1>2

LEMMA BeginsItself ==
    ASSUME NEW a \in Schedule, NEW b \in Schedule, Begins(a, b)
    PROVE  (Begins(a, a) /\ Begins(b, b)) /\ (Len(b) <= Len(a) => b = a)
BY DEF Begins, Schedule

\* What differs in the next transition, or diverged before, diverges.
LEMMA LongerDiverge ==
    ASSUME NEW a \in Schedule, NEW t \in Transition
    PROVE  /\ \A u \in Transition : t # u => Diverge(Append(a, t), Append(a, u))
           /\ \A b : Diverge(b, a) => Diverge(b, Append(a, t))
<1>1. ASSUME NEW u \in Transition, t # u PROVE Diverge(Append(a, t), Append(a, u))
  <2>1. \A b \in Schedule : Begins(Append(a, t), b) => b[Len(a) + 1] = t
    BY BeginsLonger
  <2>2. \A b \in Schedule : Begins(Append(a, u), b) => b[Len(a) + 1] = u
    BY BeginsLonger
  <2>3. QED
    BY <1>1, <2>1, <2>2, Zenon DEF Diverge
<1>2. \A b \in Schedule : Begins(Append(a, t), b) => Begins(a, b)
  BY BeginsLonger
<1>3. QED
  BY <1>1, <1>2, Zenon DEF Diverge

\* A longer walk goes through the end of a shorter one it begins with.
LEMMA WalkThrough ==
    ASSUME NEW sc \in Scene, NEW a \in Schedule, NEW s, WalksTo(sc, a, s),
           NEW b \in Schedule, NEW r, WalksTo(sc, b, r),
           Begins(a, b), Len(a) < Len(b)
    PROVE  /\ b[Len(a) + 1] \in Enabled(sc, s) /\ GoesOn(sc, a, s)
           /\ b[Len(a) + 1] \in Transition
<1>1. PICK p \in Seq(State(sc)) : IsRun(sc, p, a) /\ p[Len(p)] = s
  BY DEF WalksTo
<1>2. PICK q \in Seq(State(sc)) : IsRun(sc, q, b) /\ CleanUpTo(sc, q, Len(q) - 1)
  BY DEF WalksTo
<1> PICK n : n = Len(a)
  OBVIOUS
<1>3. /\ n \in Nat /\ Len(p) = n + 1 /\ Len(b) \in Nat /\ Len(q) = Len(b) + 1
      /\ n + 1 \in 1..Len(b) /\ n <= Len(b) /\ n <= Len(a) /\ n + 1 \in 1..n+1
  BY <1>1, <1>2 DEF IsRun, Schedule
<1>4. \A i \in 1..n : a[i] = b[i]
  BY DEF Begins
<1>4a. \A i \in 1..n+1 : p[i] = q[i]
  BY <1>1, <1>2, <1>3, <1>4, RunsAgree
<1>5. q[n+1] = s
  BY <1>1, <1>3, <1>4a
<1>6. b[n+1] \in Enabled(sc, s) /\ b[n+1] \in Transition
  BY <1>2, <1>3, <1>5 DEF IsRun, Schedule
<1>7. GoesOn(sc, a, s)
  <2>1. CASE n = 0
    BY <2>1, EmptySeq DEF GoesOn, Schedule
  <2>2. CASE n # 0
    <3>1. n + 1 \in 2..Len(q)-1
      BY <1>3, <2>2
    <3>2. QED
      BY <1>2, <1>5, <3>1 DEF CleanUpTo, GoesOn
  <2>3. QED
    BY <2>1, <2>2
<1>8. QED
  BY <1>6, <1>7

\* Where the search ends a schedule, nothing longer is left to explore.
LEMMA OnwardEnds ==
    ASSUME NEW sc \in Scene, NEW bound \in Nat, NEW a \in Schedule, NEW s,
           WalksTo(sc, a, s), bound > 0 => Len(a) <= bound,
           Over(sc, bound, a, s)
    PROVE  Onward(sc, bound, a) = {a}
<1>1. a \in Onward(sc, bound, a)
  BY WalkInState DEF Onward, Finished, Begins, Schedule
<1>2. ASSUME NEW b \in Onward(sc, bound, a) PROVE b = a
  <2>1. PICK r \in State(sc) : WalksTo(sc, b, r)
    BY DEF Onward, Finished
  <2>2. b \in Schedule /\ Begins(a, b) /\ (bound > 0 => Len(b) <= bound)
    BY DEF Onward, Finished
  <2>3. Len(a) \in Nat /\ Len(b) \in Nat
    BY <2>2 DEF Schedule
  <2>4. ASSUME Len(a) < Len(b) PROVE FALSE
    <3>1. b[Len(a) + 1] \in Enabled(sc, s) /\ GoesOn(sc, a, s)
      BY <2>1, <2>2, <2>4, WalkThrough
    <3>2. ~(bound > 0 /\ Len(a) >= bound)
      BY <2>2, <2>3, <2>4
    <3>3. QED
      BY <3>1, <3>2 DEF Over
  <2>5. QED
    BY <2>2, <2>3, <2>4, BeginsItself
<1>3. QED
  BY <1>1, <1>2

\* Where it goes on, what is left to explore goes through one of the
\* transitions.
LEMMA OnwardSplits ==
    ASSUME NEW sc \in Scene, NEW bound \in Nat, NEW a \in Schedule, NEW s,
           WalksTo(sc, a, s), ~Over(sc, bound, a, s)
    PROVE  Onward(sc, bound, a) =
              UNION {Onward(sc, bound, Append(a, t)) : t \in Enabled(sc, s)}
<1>0. s \in State(sc) /\ Enabled(sc, s) \subseteq Transition
  BY WalkInState, SceneAssumption
<1>1. ASSUME NEW b \in Onward(sc, bound, a)
      PROVE  \E t \in Enabled(sc, s) : b \in Onward(sc, bound, Append(a, t))
  <2>1. PICK r \in State(sc) : WalksTo(sc, b, r) /\ Over(sc, bound, b, r)
    BY DEF Onward, Finished
  <2>2. b \in Schedule /\ Begins(a, b) /\ b \in Finished(sc, bound)
    BY DEF Onward, Finished
  <2>3. Len(a) \in Nat /\ Len(b) \in Nat
    BY <2>2 DEF Schedule
  <2>4. ASSUME ~(Len(a) < Len(b)) PROVE FALSE
    <3>1. b = a
      BY <2>2, <2>3, <2>4, BeginsItself
    <3>2. r = s
      BY <2>1, <3>1, WalkOne
    <3>3. QED
      BY <2>1, <3>1, <3>2
  <2>5. b[Len(a) + 1] \in Enabled(sc, s)
    BY <2>1, <2>2, <2>4, WalkThrough
  <2>6. Begins(Append(a, b[Len(a) + 1]), b)
    BY <1>0, <2>2, <2>4, <2>5, BeginsLonger
  <2>7. QED
    BY <2>2, <2>5, <2>6 DEF Onward
<1>2. ASSUME NEW t \in Enabled(sc, s), NEW b \in Onward(sc, bound, Append(a, t))
      PROVE  b \in Onward(sc, bound, a)
  BY <1>0, BeginsLonger DEF Onward, Finished
<1>3. QED
  BY <1>1, <1>2

\* No schedule is explored from two places of the stack.
Scattered(st) ==
    \A i, j \in 1..Len(st) : i # j => Diverge(st[i].schedule, st[j].schedule)

\* None that begins with a is explored from the stack.
Aside(st, a) == \A i \in 1..Len(st) : Diverge(st[i].schedule, a)

LEMMA ScatteredPop ==
    ASSUME NEW S, NEW st \in Seq(S), st # <<>>, Scattered(st)
    PROVE  Scattered(Tail(st)) /\ Aside(Tail(st), Head(st).schedule)
<1> PICK rest : rest = Tail(st)
  OBVIOUS
<1>1. /\ Head(st) = st[1]
      /\ Len(st) \in Nat \ {0}
      /\ Len(rest) = Len(st) - 1
      /\ \A i \in 1..Len(rest) : rest[i] = st[i+1]
  BY HeadTailProperties, EmptySeq
<1>2. ASSUME NEW i \in 1..Len(rest)
      PROVE  i + 1 \in 1..Len(st) /\ i + 1 # 1 /\ 1 \in 1..Len(st)
  BY <1>1
<1>3. ASSUME NEW i \in 1..Len(rest), NEW j \in 1..Len(rest), i # j
      PROVE  Diverge(rest[i].schedule, rest[j].schedule)
  <2>1. i + 1 # j + 1
    BY <1>3
  <2>2. QED
    BY <1>1, <1>2, <2>1 DEF Scattered
<1>4. ASSUME NEW i \in 1..Len(rest) PROVE Diverge(rest[i].schedule, st[1].schedule)
  BY <1>1, <1>2 DEF Scattered
<1>5. QED
  BY <1>1, <1>3, <1>4 DEF Scattered, Aside

LEMMA ScatteredPush ==
    ASSUME NEW S, NEW st \in Seq(S), NEW f \in S, Scattered(st), Aside(st, f.schedule)
    PROVE  Scattered(<<f>> \o st)
<1> PICK more : more = <<f>> \o st
  OBVIOUS
<1>1. /\ Len(more) = Len(st) + 1 /\ Len(st) \in Nat /\ more[1] = f
      /\ \A i \in 1..Len(st) : more[i+1] = st[i]
  BY DEF Seq
<1>2. ASSUME NEW i \in 1..Len(more), i # 1
      PROVE  i - 1 \in 1..Len(st) /\ more[i] = st[i-1]
  BY <1>1, <1>2
<1>3. ASSUME NEW i \in 1..Len(more), NEW j \in 1..Len(more), i # j
      PROVE  Diverge(more[i].schedule, more[j].schedule)
  <2>1. CASE i # 1 /\ j # 1
    <3>1. i - 1 # j - 1
      BY <1>1, <1>3, <2>1
    <3>2. QED
      BY <1>2, <2>1, <3>1 DEF Scattered
  <2>2. CASE i # 1 /\ j = 1
    BY <1>1, <1>2, <2>2 DEF Aside
  <2>3. CASE i = 1 /\ j # 1
    <3>1. Diverge(st[j-1].schedule, f.schedule)
      BY <1>2, <2>3 DEF Aside
    <3>2. QED
      BY <1>1, <1>2, <2>3, <3>1 DEF Diverge
  <2>4. QED
    BY <1>3, <2>1, <2>2, <2>3
<1>4. QED
  BY <1>3 DEF Scattered

\* The schedules that go on from the frames of W, or from a by one of T.
FromFrames(sc, bound, W) == UNION {Onward(sc, bound, f.schedule) : f \in W}

FromChildren(sc, bound, a, T) == UNION {Onward(sc, bound, Append(a, t)) : t \in T}

LEMMA OneFrameMore ==
    ASSUME NEW sc, NEW bound, NEW W, NEW f
    PROVE  FromFrames(sc, bound, W \cup {f}) =
              FromFrames(sc, bound, W) \cup Onward(sc, bound, f.schedule)
BY DEF FromFrames

LEMMA OneChildMore ==
    ASSUME NEW sc, NEW bound, NEW a, NEW T, NEW t
    PROVE  FromChildren(sc, bound, a, T \cup {t}) =
              FromChildren(sc, bound, a, T) \cup Onward(sc, bound, Append(a, t))
BY DEF FromChildren

\* What is left to explore, and what is not.
Remaining ==
    FromFrames(scene, cfg.maxDepth, Waiting)
    \cup FromChildren(scene, cfg.maxDepth, frame.schedule, todo)

Behind == Finished(scene, cfg.maxDepth) \ Remaining

\* The search neither prunes nor stops at a violation.
Thorough == ~cfg.prune /\ (first = NoWitness \/ cfg.continueAfterViolation)

\* Schedules are explored from one place each, and counted once.
Places ==
    /\ Scattered(stack)
    /\ \A t \in todo : Aside(stack, Append(frame.schedule, t))

Counted ==
    Thorough =>
        /\ IsFiniteSet(Behind) /\ explored = Cardinality(Behind)
        /\ pc = "done" => stack = <<>> /\ todo = {} /\ result.explored = explored

LEMMA InitCounted == Init => Places /\ Counted
<1> SUFFICES ASSUME Init PROVE Places /\ Counted
  OBVIOUS
<1>1. TypeOK /\ scene \in Scene
  BY InitTypeOK DEF TypeOK, ControlOK
<1>2. stack = <<Root(scene)>> /\ Len(stack) = 1 /\ stack[1] = Root(scene) /\ todo = {}
  BY DEF Init
<1>3. Places
  <2>1. \A i, j \in 1..Len(stack) : i = j
    BY <1>2
  <2>2. QED
    BY <1>2, <2>1 DEF Places, Scattered
<1>4. Behind = {}
  <2>1. Root(scene) \in Waiting /\ Root(scene).schedule = <<>>
    BY <1>2 DEF Waiting, Root, Frame
  <2>2. \A b \in Finished(scene, cfg.maxDepth) : Begins(<<>>, b)
    BY DEF Finished, Begins, Schedule
  <2>3. Finished(scene, cfg.maxDepth) = Onward(scene, cfg.maxDepth, <<>>)
    BY <2>2 DEF Onward
  <2>4. QED
    BY <2>1, <2>3 DEF Behind, Remaining, FromFrames
<1>5. QED
  BY <1>3, <1>4, FS_EmptySet DEF Init, Counted

\* What a frame is, as a walk.
LEMMA FrameWalks ==
    ASSUME Grounded, NEW f \in Waiting \cup {frame}
    PROVE  /\ f.schedule \in Schedule /\ f.state \in State(scene)
           /\ WalksTo(scene, f.schedule, f.state) /\ GoesOn(scene, f.schedule, f.state)
<1>1. f \in FrameSet /\ IsCleanRun(f)
  BY DEF Grounded, TypeOK, ControlOK, FramesAreCleanRuns, Waiting
<1> PICK p, s, b : p = f.path /\ s = f.state /\ b = f.schedule
  OBVIOUS
<1>2. /\ p \in Seq(State(scene)) /\ s \in State(scene) /\ b \in Schedule
      /\ IsRun(scene, p, b) /\ p[Len(p)] = s /\ CleanUpTo(scene, p, Len(p))
  BY <1>1 DEF FrameSet, IsCleanRun
<1>3. Len(p) = Len(b) + 1 /\ Len(b) \in Nat
  BY <1>2 DEF IsRun, Schedule
<1>4. WalksTo(scene, b, s)
  BY <1>2, <1>3 DEF WalksTo, CleanUpTo
<1>5. GoesOn(scene, b, s)
  <2>1. CASE Len(b) = 0
    BY <1>2, <2>1, EmptySeq DEF GoesOn, Schedule
  <2>2. CASE Len(b) # 0
    <3>1. Len(p) \in 2..Len(p)
      BY <1>3, <2>2
    <3>2. QED
      BY <1>2, <3>1 DEF CleanUpTo, GoesOn
  <2>3. QED
    BY <2>1, <2>2
<1>6. QED
  BY <1>2, <1>4, <1>5

\* One more is explored.
LEMMA OneMoreBehind ==
    ASSUME Counted, Thorough, NEW b, b \in Finished(scene, cfg.maxDepth),
           scene' = scene, cfg' = cfg, pc' # "done",
           b \in Remaining, Remaining' = Remaining \ {b}, explored' = explored + 1
    PROVE  Counted'
<1>1. Behind' = Behind \cup {b} /\ b \notin Behind
  BY DEF Behind
<1>2. IsFiniteSet(Behind') /\ Cardinality(Behind') = Cardinality(Behind) + 1
  BY <1>1, FS_AddElement DEF Counted
<1>3. QED
  BY <1>2 DEF Counted

LEMMA NoneBehind ==
    ASSUME Counted, Thorough, scene' = scene, cfg' = cfg, pc' # "done",
           Remaining' = Remaining, explored' = explored
    PROVE  Counted'
BY DEF Counted, Behind

\* The top of the stack.
LEMMA TopOfStack ==
    ASSUME Grounded, Shape, Places, stack # <<>>, pc = "pop", stack' = Tail(stack),
           scene' = scene
    PROVE  /\ Scattered(stack') /\ Aside(stack', Head(stack).schedule)
           /\ Waiting = Waiting' \cup {Head(stack)}
           /\ \A f \in Waiting' : Diverge(f.schedule, Head(stack).schedule)
           /\ Head(stack).schedule \in Schedule
           /\ Head(stack).state \in State(scene)
           /\ WalksTo(scene, Head(stack).schedule, Head(stack).state)
           /\ GoesOn(scene, Head(stack).schedule, Head(stack).state)
           /\ cfg.maxDepth > 0 => Len(Head(stack).schedule) <= cfg.maxDepth
           /\ todo = {}
<1> PICK st, f : st = stack /\ f = Head(stack)
  OBVIOUS
<1>1. /\ TypeOK /\ st \in Seq(FrameSet) /\ st # <<>> /\ Scattered(st) /\ todo = {}
  BY DEF Grounded, TypeOK, ControlOK, Places
<1>2. Scattered(Tail(st)) /\ Aside(Tail(st), f.schedule)
  BY <1>1, ScatteredPop
<1>3. Waiting = Waiting' \cup {f}
  BY <1>1, WaitingPopped
<1>4. \A g \in Waiting' : Diverge(g.schedule, f.schedule)
  BY <1>2 DEF Aside, Waiting
<1>5. f \in Waiting
  BY <1>3
<1>6. /\ f.schedule \in Schedule /\ f.state \in State(scene)
      /\ WalksTo(scene, f.schedule, f.state) /\ GoesOn(scene, f.schedule, f.state)
  BY <1>5, FrameWalks
<1>7. cfg.maxDepth > 0 => Len(f.schedule) <= cfg.maxDepth
  BY <1>5 DEF Shape, Depth
<1>8. QED
  BY <1>1, <1>2, <1>3, <1>4, <1>6, <1>7

LEMMA LeafCounted ==
    ASSUME Grounded, Shape, Places, Counted, PopLeaf
    PROVE  Places' /\ Counted'
<1>1. /\ stack # <<>> /\ pc = "pop" /\ pc' = pc /\ stack' = Tail(stack)
      /\ scene' = scene /\ cfg' = cfg /\ todo' = todo /\ frame' = frame
      /\ first' = first /\ explored' = explored + 1
      /\ AtBound(Head(stack)) \/ Enabled(scene, Head(stack).state) = {}
  BY DEF PopLeaf, Pop, input
<1> PICK f : f = Head(stack)
  OBVIOUS
<1>2. scene \in Scene /\ cfg.maxDepth \in Nat
  BY DEF Grounded, TypeOK, ControlOK, Config
<1>3. /\ Scattered(stack') /\ Waiting = Waiting' \cup {f} /\ todo = {}
      /\ \A g \in Waiting' : Diverge(g.schedule, f.schedule)
      /\ f.schedule \in Schedule /\ WalksTo(scene, f.schedule, f.state)
      /\ cfg.maxDepth > 0 => Len(f.schedule) <= cfg.maxDepth
  BY <1>1, TopOfStack
<1>4. Places'
  BY <1>1, <1>3 DEF Places
<1>5. ASSUME Thorough PROVE Counted'
  <2> PICK b : b = f.schedule
    OBVIOUS
  <2>1. Over(scene, cfg.maxDepth, b, f.state)
    BY <1>1 DEF Over, AtBound, Depth
  <2>2. Onward(scene, cfg.maxDepth, b) = {b}
    BY <1>2, <1>3, <2>1, OnwardEnds
  <2>3. ASSUME NEW g \in Waiting' PROVE b \notin Onward(scene, cfg.maxDepth, g.schedule)
    BY <1>3, BeginsItself, <2>2 DEF Diverge, Onward
  <2>4. b \in Finished(scene, cfg.maxDepth)
    BY <2>2 DEF Onward
  <2>5. b \in Remaining /\ Remaining' = Remaining \ {b}
    <3>1. b \notin FromFrames(scene, cfg.maxDepth, Waiting')
      BY <2>3 DEF FromFrames
    <3> PICK W, X, Y : /\ W = Waiting' /\ X = FromFrames(scene, cfg.maxDepth, Waiting')
                      /\ Y = FromFrames(scene, cfg.maxDepth, Waiting)
      OBVIOUS
    <3>2. Y = X \cup {b} /\ b \notin X
      BY <1>3, <2>2, <3>1, OneFrameMore
    <3>3. Remaining = Y /\ Remaining' = X
      BY <1>1, <1>3 DEF Remaining, FromChildren
    <3>4. QED
      BY <3>2, <3>3
  <2>6. QED
    BY <1>1, <1>5, <2>4, <2>5, OneMoreBehind
<1>6. QED
  BY <1>1, <1>4, <1>5 DEF Counted, Thorough

LEMMA ExpandCounted ==
    ASSUME Grounded, Shape, Places, Counted, PopExpand
    PROVE  Places' /\ Counted'
<1>1. /\ stack # <<>> /\ pc = "pop" /\ pc' = "children" /\ stack' = Tail(stack)
      /\ scene' = scene /\ cfg' = cfg /\ frame' = Head(stack)
      /\ todo' = Enabled(scene, Head(stack).state)
      /\ first' = first /\ explored' = explored
      /\ ~AtBound(Head(stack)) /\ Enabled(scene, Head(stack).state) # {}
  BY DEF PopExpand, Pop, input
<1> PICK f : f = Head(stack)
  OBVIOUS
<1>2. scene \in Scene /\ cfg.maxDepth \in Nat
  BY DEF Grounded, TypeOK, ControlOK, Config
<1>3. /\ Scattered(stack') /\ Aside(stack', f.schedule)
      /\ Waiting = Waiting' \cup {f} /\ todo = {}
      /\ f.schedule \in Schedule /\ f.state \in State(scene)
      /\ WalksTo(scene, f.schedule, f.state) /\ GoesOn(scene, f.schedule, f.state)
  BY <1>1, TopOfStack
<1>4. Enabled(scene, f.state) \subseteq Transition
  BY <1>2, <1>3, SceneAssumption
<1>5. Places'
  <2>1. ASSUME NEW t \in Enabled(scene, f.state) PROVE Aside(stack', Append(f.schedule, t))
    BY <1>3, <1>4, <2>1, LongerDiverge DEF Aside
  <2>2. QED
    BY <1>1, <1>3, <2>1 DEF Places
<1>6. ~Over(scene, cfg.maxDepth, f.schedule, f.state)
  BY <1>1, <1>3 DEF Over, AtBound, Depth
<1>7. Remaining' = Remaining
  <2> PICK b, E : b = f.schedule /\ E = Enabled(scene, f.state)
    OBVIOUS
  <2>1. Onward(scene, cfg.maxDepth, b) = FromChildren(scene, cfg.maxDepth, b, E)
    BY <1>2, <1>3, <1>6, OnwardSplits DEF FromChildren
  <2> PICK W, X : W = Waiting' /\ X = FromFrames(scene, cfg.maxDepth, Waiting')
    OBVIOUS
  <2>2. FromFrames(scene, cfg.maxDepth, Waiting) = X \cup Onward(scene, cfg.maxDepth, b)
    BY <1>3, OneFrameMore
  <2>3. Remaining = X \cup Onward(scene, cfg.maxDepth, b)
    BY <1>3, <2>2 DEF Remaining, FromChildren
  <2>4. Remaining' = X \cup FromChildren(scene, cfg.maxDepth, b, E)
    BY <1>1 DEF Remaining
  <2>5. QED
    BY <2>1, <2>3, <2>4
<1>8. QED
  BY <1>1, <1>5, <1>7, NoneBehind DEF Counted, Thorough

\* The transition tried next, and what is left to explore after it.
LEMMA NextCounted ==
    ASSUME Grounded, Places, pc = "children",
           NEW b, b = Append(frame.schedule, Highest(todo))
    PROVE  /\ NextChild.schedule = b /\ b \in Schedule /\ b # <<>>
           /\ WalksTo(scene, b, NextChild.state)
           /\ NextChild.state \in State(scene)
           /\ Aside(stack, b)
           /\ \A t \in todo \ {Highest(todo)} : Diverge(b, Append(frame.schedule, t))
           /\ NextChild \in FrameSet
<1> PICK u : u = Highest(todo)
  OBVIOUS
<1>1. /\ scene \in Scene /\ TypeOK /\ u \in todo /\ u \in Enabled(scene, frame.state)
      /\ NextChild.state = Apply(scene, frame.state, u)
      /\ NextChild.schedule = Append(frame.schedule, u)
      /\ todo \subseteq Enabled(scene, frame.state)
  BY NextChildAfter DEF Grounded, TypeOK, ControlOK
<1>2. /\ frame.schedule \in Schedule /\ frame.state \in State(scene)
      /\ WalksTo(scene, frame.schedule, frame.state)
      /\ GoesOn(scene, frame.schedule, frame.state)
  BY FrameWalks
<1>3. todo \subseteq Transition
  BY <1>1, <1>2, SceneAssumption
<1>4. /\ WalksTo(scene, b, NextChild.state) /\ b \in Schedule /\ b # <<>>
      /\ NextChild.state \in State(scene)
  BY <1>1, <1>2, WalkGrows
<1>5. \A t \in todo \ {u} : Diverge(b, Append(frame.schedule, t))
  BY <1>1, <1>2, <1>3, LongerDiverge
<1>6. NextChild \in FrameSet
  BY <1>1, NextChildType
<1>7. QED
  BY <1>1, <1>4, <1>5, <1>6 DEF Places

LEMMA PushedCounted ==
    ASSUME Grounded, Shape, Places, Counted, ChildPushed
    PROVE  Places' /\ Counted'
<1>1. /\ pc = "children" /\ pc' # "done" /\ stack' = <<NextChild>> \o stack
      /\ scene' = scene /\ cfg' = cfg /\ frame' = frame
      /\ todo' = todo \ {Highest(todo)}
      /\ first' = first /\ explored' = explored
  BY DEF ChildPushed, Try, Proceed, input
<1> PICK b, c, st : b = Append(frame.schedule, Highest(todo)) /\ c = NextChild /\ st = stack
  OBVIOUS
<1>2. /\ c.schedule = b /\ Aside(st, b) /\ c \in FrameSet
      /\ \A t \in todo' : Diverge(b, Append(frame.schedule, t))
  BY <1>1, NextCounted
<1>3. TypeOK /\ st \in Seq(FrameSet) /\ Scattered(st) /\ Highest(todo) \in todo
  BY <1>1, NextChildAfter DEF Grounded, TypeOK, ControlOK, Places
<1>4. Waiting' = Waiting \cup {c}
  BY <1>1, <1>2, <1>3, WaitingPushed
<1>5. Scattered(<<c>> \o st)
  BY <1>2, <1>3, ScatteredPush
<1>6. ASSUME NEW t \in todo'
      PROVE  Aside(<<c>> \o st, Append(frame.schedule, t))
  <2>1. Diverge(c.schedule, Append(frame.schedule, t)) /\ Aside(st, Append(frame.schedule, t))
    BY <1>1, <1>2 DEF Places
  <2> PICK more : more = <<c>> \o st
    OBVIOUS
  <2>2. /\ Len(more) = Len(st) + 1 /\ Len(st) \in Nat /\ more[1] = c
        /\ \A i \in 1..Len(st) : more[i+1] = st[i]
    BY <1>2, <1>3
  <2>3. ASSUME NEW i \in 1..Len(more), i # 1
        PROVE  i - 1 \in 1..Len(st) /\ more[i] = st[i-1]
    BY <2>2, <2>3
  <2>4. QED
    BY <2>1, <2>2, <2>3 DEF Aside
<1>7. Places'
  BY <1>1, <1>5, <1>6 DEF Places
<1>8. Remaining' = Remaining
  <2>1. todo = todo' \cup {Highest(todo)}
    BY <1>1, <1>3
  <2> PICK W, T, a, u : /\ W = Waiting /\ T = todo' /\ a = frame.schedule
                        /\ u = Highest(todo)
    OBVIOUS
  <2>1a. todo = T \cup {u} /\ b = Append(a, u) /\ Waiting' = W \cup {c} /\ c.schedule = b
    BY <1>2, <1>4, <2>1
  <2>2. FromChildren(scene, cfg.maxDepth, a, todo) =
           FromChildren(scene, cfg.maxDepth, a, T) \cup Onward(scene, cfg.maxDepth, b)
    <3>1. FromChildren(scene, cfg.maxDepth, a, T \cup {u}) =
             FromChildren(scene, cfg.maxDepth, a, T)
             \cup Onward(scene, cfg.maxDepth, Append(a, u))
      BY OneChildMore
    <3>2. QED
      BY <2>1a, <3>1
  <2>3. FromFrames(scene, cfg.maxDepth, Waiting') =
           FromFrames(scene, cfg.maxDepth, W) \cup Onward(scene, cfg.maxDepth, b)
    <3>1. FromFrames(scene, cfg.maxDepth, W \cup {c}) =
             FromFrames(scene, cfg.maxDepth, W)
             \cup Onward(scene, cfg.maxDepth, c.schedule)
      BY OneFrameMore
    <3>2. QED
      BY <2>1a, <3>1
  <2>4. Remaining = FromFrames(scene, cfg.maxDepth, W)
                    \cup FromChildren(scene, cfg.maxDepth, a, todo)
    BY DEF Remaining
  <2>5. Remaining' = FromFrames(scene, cfg.maxDepth, Waiting')
                     \cup FromChildren(scene, cfg.maxDepth, a, T)
    BY <1>1 DEF Remaining
  <2>6. QED
    BY <2>2, <2>3, <2>4, <2>5
<1>9. QED
  BY <1>1, <1>7, <1>8, NoneBehind DEF Counted, Thorough

LEMMA ViolationCounted ==
    ASSUME Grounded, Shape, Places, Counted, ChildViolates
    PROVE  Places' /\ Counted'
<1>1. /\ pc = "children" /\ stack' = stack
      /\ scene' = scene /\ cfg' = cfg /\ frame' = frame
      /\ todo' = todo \ {Highest(todo)}
      /\ Violates(scene, NextChild.state)
      /\ first' = IF first = NoWitness
                  THEN Check(scene, NextChild.state, NextChild.schedule) ELSE first
      /\ cfg.continueAfterViolation => explored' = explored + 1 /\ pc' # "done"
  BY DEF ChildViolates, Try, Proceed, input
<1> PICK b : b = Append(frame.schedule, Highest(todo))
  OBVIOUS
<1>2. /\ NextChild.schedule = b /\ b \in Schedule /\ b # <<>>
      /\ WalksTo(scene, b, NextChild.state) /\ NextChild.state \in State(scene)
      /\ Aside(stack, b)
      /\ \A t \in todo' : Diverge(b, Append(frame.schedule, t))
  BY <1>1, NextCounted
<1>3. /\ scene \in Scene /\ cfg.maxDepth \in Nat /\ Highest(todo) \in todo
      /\ cfg.maxDepth > 0 => Len(b) <= cfg.maxDepth
  <2>1. TypeOK /\ scene \in Scene /\ cfg.maxDepth \in Nat
    BY DEF Grounded, TypeOK, ControlOK, Config
  <2>2. Highest(todo) \in todo /\ Depth(NextChild) = Depth(frame) + 1 /\ Depth(frame) \in Nat
    BY <1>1, <2>1, NextChildAfter
  <2>3. QED
    BY <1>1, <1>2, <2>1, <2>2 DEF Shape, Depth
<1>4. Places'
  BY <1>1 DEF Places
<1>5. first' # NoWitness
  <2>1. Check(scene, NextChild.state, b) # NoWitness
    BY <1>1, <1>2, <1>3, CheckFails
  <2>2. QED
    BY <1>1, <1>2, <2>1
<1>6. ASSUME Thorough' PROVE Counted'
  <2>1. cfg.continueAfterViolation /\ Thorough
    BY <1>1, <1>5, <1>6 DEF Thorough
  <2>2. Over(scene, cfg.maxDepth, b, NextChild.state)
    BY <1>1, <1>2 DEF Over, GoesOn
  <2>3. Onward(scene, cfg.maxDepth, b) = {b}
    BY <1>2, <1>3, <2>2, OnwardEnds
  <2>4. ASSUME NEW g \in Waiting PROVE b \notin Onward(scene, cfg.maxDepth, g.schedule)
    BY <1>2, BeginsItself, <2>3 DEF Diverge, Onward, Aside, Waiting
  <2>5. ASSUME NEW t \in todo'
        PROVE  b \notin Onward(scene, cfg.maxDepth, Append(frame.schedule, t))
    BY <1>2, BeginsItself, <2>3 DEF Diverge, Onward
  <2>6. b \in Finished(scene, cfg.maxDepth)
    BY <2>3 DEF Onward
  <2>7. Waiting' = Waiting
    BY <1>1 DEF Waiting
  <2>8. todo = todo' \cup {Highest(todo)}
    BY <1>1, <1>3
  <2>9. b \in Remaining /\ Remaining' = Remaining \ {b}
    <3> PICK W, T, a : W = Waiting /\ T = todo' /\ a = frame.schedule
      OBVIOUS
    <3>1. FromChildren(scene, cfg.maxDepth, a, todo) =
             FromChildren(scene, cfg.maxDepth, a, T) \cup {b}
      BY <2>3, <2>8, OneChildMore
    <3>2. b \notin FromChildren(scene, cfg.maxDepth, a, T)
      BY <2>5 DEF FromChildren
    <3>3. b \notin FromFrames(scene, cfg.maxDepth, W)
      BY <2>4 DEF FromFrames
    <3>4. Remaining = FromFrames(scene, cfg.maxDepth, W)
                      \cup FromChildren(scene, cfg.maxDepth, a, todo)
      BY DEF Remaining
    <3>5. Remaining' = FromFrames(scene, cfg.maxDepth, W)
                       \cup FromChildren(scene, cfg.maxDepth, a, T)
      BY <1>1, <2>7 DEF Remaining
    <3>6. QED
      BY <3>1, <3>2, <3>3, <3>4, <3>5
  <2>10. QED
    BY <1>1, <2>1, <2>6, <2>9, OneMoreBehind
<1>7. QED
  BY <1>4, <1>6 DEF Counted

LEMMA StepCounted ==
    ASSUME Grounded, Shape, Places, Counted, Next
    PROVE  Places' /\ Counted'
<1>1. TypeOK /\ scene' = scene /\ cfg' = cfg
  BY SameScene DEF Grounded
<1>2. CASE PopPruned
  <2>1. /\ stack # <<>> /\ pc = "pop" /\ stack' = Tail(stack) /\ cfg.prune
        /\ todo' = todo
    BY <1>2 DEF PopPruned, Known
  <2>2. Scattered(stack') /\ todo = {}
    BY <1>1, <2>1, TopOfStack
  <2>3. QED
    BY <1>1, <2>1, <2>2 DEF Places, Counted, Thorough
<1>3. CASE Finish
  <2>1. /\ stack = <<>> /\ stack' = stack /\ pc = "pop" /\ first' = first
        /\ todo' = todo /\ frame' = frame /\ explored' = explored
        /\ result' = Result(first = NoWitness, first, explored)
    BY <1>3 DEF Finish
  <2>2. todo = {}
    BY <1>1, <2>1 DEF TypeOK, ControlOK
  <2>3. Remaining' = Remaining /\ Thorough' = Thorough
    BY <1>1, <2>1 DEF Remaining, Waiting, Thorough
  <2>4. QED
    BY <1>1, <2>1, <2>2, <2>3 DEF Places, Counted, Behind, Result
<1>4. QED
  BY <1>2, <1>3, LeafCounted, ExpandCounted, PushedCounted, ViolationCounted DEF Next

LEMMA CountedHolds == Spec => [](Places /\ Counted)
<1>1. Places /\ Counted /\ UNCHANGED vars => Places' /\ Counted'
  BY DEF vars, input, Places, Counted, Thorough, Behind, Remaining, Waiting
<1>2. Grounded /\ Shape /\ Places /\ Counted /\ [Next]_vars => Places' /\ Counted'
  BY <1>1, StepCounted
<1>3. QED
  BY <1>2, InitCounted, GroundedHolds, ShapeHolds, PTL DEF Spec

\* What Explored counts.
SchedulesCounted ==
    pc = "done" /\ ~cfg.prune /\ (result.passed \/ cfg.continueAfterViolation) =>
        /\ IsFiniteSet(Finished(scene, cfg.maxDepth))
        /\ result.explored = Cardinality(Finished(scene, cfg.maxDepth))

\* A search that does not prune, and does not stop at a violation, explores every
\* schedule, up to a violation, to the bound or to the end, and counts it once:
\* the baseline that pruning is measured against (scheduler.go:32-38, 111-174,
\* witness.go:39).
THEOREM EveryScheduleOnce == Spec => []SchedulesCounted
<1>1. Coverage /\ Places /\ Counted => SchedulesCounted
  <2> SUFFICES ASSUME Coverage, Places, Counted, pc = "done", ~cfg.prune,
                      result.passed \/ cfg.continueAfterViolation
               PROVE  /\ IsFiniteSet(Finished(scene, cfg.maxDepth))
                      /\ result.explored = Cardinality(Finished(scene, cfg.maxDepth))
    BY DEF SchedulesCounted
  <2>1. Thorough
    BY DEF Thorough, Coverage
  <2>2. stack = <<>> /\ todo = {} /\ result.explored = explored
    BY <2>1 DEF Counted
  <2>3. Remaining = {}
    BY <2>2 DEF Remaining, Waiting, FromFrames, FromChildren
  <2>4. Behind = Finished(scene, cfg.maxDepth)
    BY <2>3 DEF Behind
  <2>5. QED
    BY <2>1, <2>2, <2>4 DEF Counted
<1>2. QED
  BY <1>1, CoverageHolds, CountedHolds, PTL

-----------------------------------------------------------------------------
(* Factorials, sums and products. *)

LEMMA FactorialDef ==
    /\ Factorial \in [Nat -> Nat \ {0}]
    /\ Factorial[0] = 1
    /\ \A n \in Nat : Factorial[n+1] = (n + 1) * Factorial[n]
<1> DEFINE D == Nat \ {0}
           step == [n \in Nat |-> [x \in D |-> IF n = 0 THEN x ELSE n * x]]
           Equation(F) == F = [n \in Nat |-> IF n = 0 THEN 1 ELSE n * F[n-1]]
<1>1. step \in [Nat -> [D -> D]] /\ 1 \in D
  <2>1. ASSUME NEW n \in Nat \ {0}, NEW x \in D PROVE n * x \in D
    OBVIOUS
  <2>2. QED
    BY <2>1
<1> HIDE DEF D, step
<1>2. PICK f \in [Nat -> D] : Follows(f, 1, step)
  BY <1>1, Recursion
<1>3. \A n \in Nat : f[n+1] = (n + 1) * f[n]
  <2>1. ASSUME NEW n \in Nat PROVE f[n] \in D /\ n + 1 \in Nat /\ n + 1 # 0
    OBVIOUS
  <2>2. QED
    BY <1>2, <2>1 DEF step, Follows
<1>4. Equation(f)
  <2>1. \A n \in Nat : n # 0 => n - 1 \in Nat /\ f[n] = n * f[n-1]
    <3>1. ASSUME NEW n \in Nat, n # 0 PROVE n - 1 \in Nat /\ (n - 1) + 1 = n
      BY <3>1
    <3>2. QED
      BY <1>3, <3>1
  <2>2. QED
    BY <1>2, <2>1 DEF Follows
<1>5. Factorial = CHOOSE F : Equation(F)
  BY DEF Factorial
<1>6. Equation(Factorial)
  <2> HIDE DEF Equation
  <2>1. QED
    BY <1>4, <1>5
<1>7. ASSUME NEW n \in Nat PROVE Factorial[0] = 1 /\ Factorial[n+1] = (n + 1) * Factorial[n]
  <2>1. n + 1 \in Nat /\ n + 1 # 0 /\ (n + 1) - 1 = n
    OBVIOUS
  <2>2. QED
    BY <1>6, <2>1
<1>8. \A n \in Nat : Factorial[n] \in D
  <2> DEFINE N == {n \in Nat : Factorial[n] \in D}
  <2>1. 0 \in N
    BY <1>1, <1>7
  <2>2. ASSUME NEW n \in Nat, n \in N PROVE n + 1 \in N
    <3>1. Factorial[n] \in D /\ Factorial[n+1] = (n + 1) * Factorial[n]
      BY <1>7, <2>2
    <3>2. \A x \in D : (n + 1) * x \in D
      BY DEF D
    <3>3. QED
      BY <3>1, <3>2
  <2>3. Nat \subseteq N
    <3> HIDE DEF N
    <3>1. QED
      BY <2>1, <2>2, AllNumbers
  <2>4. QED
    BY <2>3
<1>9. QED
  BY <1>6, <1>7, <1>8 DEF D

LEMMA DenominatorDef ==
    ASSUME NEW steps \in Nat
    PROVE  /\ Denominator(steps)[0] = 1
           /\ \A n \in Nat :
                 /\ Denominator(steps)[n] \in Nat \ {0}
                 /\ Denominator(steps)[n+1] = Denominator(steps)[n] * Factorial[steps]
<1> DEFINE D == Nat \ {0}
           k == Factorial[steps]
           step == [n \in Nat |-> [x \in D |-> x * k]]
           Equation(F) == F = [n \in Nat |-> IF n = 0 THEN 1 ELSE F[n-1] * k]
<1>0. k \in D
  BY FactorialDef
<1> HIDE DEF k
<1>1. step \in [Nat -> [D -> D]] /\ 1 \in D
  <2>1. ASSUME NEW x \in D PROVE x * k \in D
    BY <1>0
  <2>2. QED
    BY <2>1
<1> HIDE DEF D, step
<1>2. PICK f \in [Nat -> D] : Follows(f, 1, step)
  BY <1>1, Recursion
<1>3. \A n \in Nat : f[n+1] = f[n] * k
  <2>1. ASSUME NEW n \in Nat PROVE f[n] \in D /\ n + 1 \in Nat
    OBVIOUS
  <2>2. QED
    BY <1>2, <2>1 DEF step, Follows
<1>4. Equation(f)
  <2>1. \A n \in Nat : n # 0 => n - 1 \in Nat /\ f[n] = f[n-1] * k
    <3>1. ASSUME NEW n \in Nat, n # 0 PROVE n - 1 \in Nat /\ (n - 1) + 1 = n
      BY <3>1
    <3>2. QED
      BY <1>3, <3>1
  <2>2. QED
    BY <1>2, <2>1 DEF Follows
<1> PICK G : G = Denominator(steps)
  OBVIOUS
<1>5. G = CHOOSE F : Equation(F)
  BY DEF Denominator, k
<1>6. Equation(G)
  <2> HIDE DEF Equation
  <2>1. QED
    BY <1>4, <1>5
<1>7. ASSUME NEW n \in Nat PROVE G[0] = 1 /\ G[n+1] = G[n] * k
  <2>1. n + 1 \in Nat /\ n + 1 # 0 /\ (n + 1) - 1 = n
    OBVIOUS
  <2>2. QED
    BY <1>6, <2>1
<1>8. \A n \in Nat : G[n] \in D
  <2> DEFINE N == {n \in Nat : G[n] \in D}
  <2>1. 0 \in N
    BY <1>1, <1>7
  <2>2. ASSUME NEW n \in Nat, n \in N PROVE n + 1 \in N
    BY <1>0, <1>7, <2>2 DEF D
  <2>3. Nat \subseteq N
    <3> HIDE DEF N
    <3>1. QED
      BY <2>1, <2>2, AllNumbers
  <2>4. QED
    BY <2>3
<1>9. QED
  BY <1>7, <1>8 DEF D, k

\* f[j] is the sum of the first j numbers of r, g[j] the product of their
\* factorials.
Sums(f, r) ==
    /\ f \in [Nat -> Nat]
    /\ f[0] = 0
    /\ \A j \in Nat : f[j+1] = f[j] + r[j+1]

Products(g, r) ==
    /\ g \in [Nat -> Nat \ {0}]
    /\ g[0] = 1
    /\ \A j \in Nat : g[j+1] = g[j] * Factorial[r[j+1]]

LEMMA SumsExist ==
    ASSUME NEW r \in [Nat -> Nat]
    PROVE  \E f : Sums(f, r)
<1> DEFINE step == [n \in Nat |-> [x \in Nat |-> x + r[n]]]
<1>1. step \in [Nat -> [Nat -> Nat]]
  OBVIOUS
<1> HIDE DEF step
<1>2. PICK f \in [Nat -> Nat] : Follows(f, 0, step)
  BY <1>1, Recursion
<1>3. ASSUME NEW j \in Nat PROVE f[j+1] = f[j] + r[j+1]
  <2>1. f[j] \in Nat /\ j + 1 \in Nat
    OBVIOUS
  <2>2. QED
    BY <1>2, <2>1 DEF step, Follows
<1>4. QED
  BY <1>2, <1>3 DEF Sums, Follows

LEMMA ProductsExist ==
    ASSUME NEW r \in [Nat -> Nat]
    PROVE  \E g : Products(g, r)
<1> DEFINE D == Nat \ {0}
           step == [n \in Nat |-> [x \in D |-> x * Factorial[r[n]]]]
<1>1. step \in [Nat -> [D -> D]] /\ 1 \in D
  <2>1. ASSUME NEW n \in Nat, NEW x \in D PROVE x * Factorial[r[n]] \in D
    <3>1. Factorial[r[n]] \in D
      BY FactorialDef
    <3>2. QED
      BY <3>1
  <2>2. QED
    BY <2>1
<1> HIDE DEF step, D
<1>2. PICK g \in [Nat -> D] : Follows(g, 1, step)
  BY <1>1, Recursion
<1>3. ASSUME NEW j \in Nat PROVE g[j+1] = g[j] * Factorial[r[j+1]]
  <2>1. g[j] \in D /\ j + 1 \in Nat
    OBVIOUS
  <2>2. QED
    BY <1>2, <2>1 DEF step, Follows
<1>4. QED
  BY <1>2, <1>3 DEF Products, Follows, D

\* One less in place k.
Fewer(r, k) == [r EXCEPT ![k] = @ - 1]

\* From k on, f is one more than h, or x times as much.
Raised(f, h, k) == \A j \in Nat : k <= j => f[j] = h[j] + 1

Scaled(f, h, k, x) == \A j \in Nat : k <= j => f[j] = h[j] * x

LEMMA SumDrops ==
    ASSUME NEW r \in [Nat -> Nat], NEW k \in Nat \ {0}, r[k] > 0,
           NEW f, Sums(f, r), NEW h, Sums(h, Fewer(r, k))
    PROVE  Raised(f, h, k)
<1> PICK q : q = Fewer(r, k) /\ q = [r EXCEPT ![k] = @ - 1]
  BY DEF Fewer
<1> DEFINE N == {j \in Nat : f[j] = IF k <= j THEN h[j] + 1 ELSE h[j]}
<1>1. 0 \in N
  BY DEF Sums
<1>2. ASSUME NEW j \in Nat, j \in N PROVE j + 1 \in N
  <2>0. j + 1 \in Nat /\ q[j+1] = IF j + 1 = k THEN r[j+1] - 1 ELSE r[j+1]
    OBVIOUS
  <2>1. /\ f[j] \in Nat /\ h[j] \in Nat /\ r[j+1] \in Nat
        /\ f[j+1] = f[j] + r[j+1] /\ h[j+1] = h[j] + q[j+1]
        /\ j + 1 = k => r[j+1] > 0
    BY <2>0 DEF Sums
  <2>2. f[j] = IF k <= j THEN h[j] + 1 ELSE h[j]
    BY <1>2
  <2>3. f[j+1] = IF k <= j + 1 THEN h[j+1] + 1 ELSE h[j+1]
    BY <2>0, <2>1, <2>2
  <2>4. QED
    BY <2>3
<1> HIDE DEF N
<1>3. Nat \subseteq N
  BY <1>1, <1>2, AllNumbers
<1>4. QED
  BY <1>3 DEF N, Raised

LEMMA ProductDrops ==
    ASSUME NEW r \in [Nat -> Nat], NEW k \in Nat \ {0}, r[k] > 0,
           NEW g, Products(g, r), NEW h, Products(h, Fewer(r, k))
    PROVE  Scaled(g, h, k, r[k])
<1> PICK q : q = Fewer(r, k) /\ q = [r EXCEPT ![k] = @ - 1]
  BY DEF Fewer
<1> DEFINE N == {j \in Nat : g[j] = IF k <= j THEN h[j] * r[k] ELSE h[j]}
<1>1. 0 \in N
  BY DEF Products
<1>2. ASSUME NEW j \in Nat, j \in N PROVE j + 1 \in N
  <2> PICK x, y, m : x = Factorial[r[j+1]] /\ y = Factorial[q[j+1]] /\ m = r[k]
    OBVIOUS
  <2>a. m \in Nat \ {0} /\ j + 1 \in Nat /\ r[j+1] \in Nat
    OBVIOUS
  <2>b. q[j+1] = IF j + 1 = k THEN r[j+1] - 1 ELSE r[j+1]
    BY <2>a
  <2>c. q[j+1] \in Nat
    BY <2>a, <2>b
  <2>d. /\ g[j] \in Nat /\ h[j] \in Nat
        /\ g[j+1] = g[j] * x /\ h[j+1] = h[j] * y
    BY DEF Products
  <2>1. /\ g[j] \in Nat /\ h[j] \in Nat /\ m \in Nat \ {0}
        /\ g[j+1] = g[j] * x /\ h[j+1] = h[j] * y
        /\ q[j+1] = IF j + 1 = k THEN r[j+1] - 1 ELSE r[j+1]
        /\ r[j+1] \in Nat /\ q[j+1] \in Nat
    BY <2>a, <2>b, <2>c, <2>d
  <2>2. x \in Nat /\ y \in Nat
    BY <2>1, FactorialDef
  <2>3. g[j] = IF k <= j THEN h[j] * m ELSE h[j]
    BY <1>2
  <2>4. CASE j + 1 = k
    <3>1. x = m * y
      <4>1. m - 1 \in Nat /\ (m - 1) + 1 = m /\ q[j+1] = m - 1 /\ r[j+1] = m
        BY <2>1, <2>4
      <4>2. Factorial[(m - 1) + 1] = ((m - 1) + 1) * Factorial[m - 1]
        BY <4>1, FactorialDef
      <4>3. QED
        BY <4>1, <4>2
    <3>2. g[j] = h[j] /\ k <= j + 1
      BY <2>3, <2>4
    <3>3. g[j+1] = h[j+1] * m
      <4>1. \A a, b, c \in Nat : a * (b * c) = (a * c) * b
        OBVIOUS
      <4>2. QED
        BY <2>1, <2>2, <3>1, <3>2, <4>1
    <3>4. QED
      BY <3>2, <3>3
  <2>5. CASE j + 1 # k
    <3>1. x = y /\ (k <= j + 1 <=> k <= j)
      BY <2>1, <2>5
    <3>2. CASE k <= j
      <4>1. \A a, b, c \in Nat : (a * b) * c = (a * c) * b
        OBVIOUS
      <4>2. g[j+1] = h[j+1] * m
        BY <2>1, <2>2, <2>3, <3>1, <3>2, <4>1
      <4>3. QED
        BY <3>1, <3>2, <4>2
    <3>3. CASE ~(k <= j)
      <4>1. g[j+1] = h[j+1]
        BY <2>1, <2>2, <2>3, <3>1, <3>3
      <4>2. QED
        BY <3>1, <3>3, <4>1
    <3>4. QED
      BY <3>2, <3>3
  <2>6. QED
    BY <2>4, <2>5
<1> HIDE DEF N
<1>3. Nat \subseteq N
  BY <1>1, <1>2, AllNumbers
<1>4. QED
  BY <1>3 DEF N, Scaled

\* Of zeros only.
LEMMA SumIsZero ==
    ASSUME NEW r \in [Nat -> Nat], NEW f, Sums(f, r)
    PROVE  \A j \in Nat : f[j] = 0 => \A i \in 1..j : r[i] = 0
<1> DEFINE N == {j \in Nat : f[j] = 0 => \A i \in 1..j : r[i] = 0}
<1>1. 0 \in N
  OBVIOUS
<1>2. ASSUME NEW j \in Nat, j \in N PROVE j + 1 \in N
  <2>1. f[j] \in Nat /\ r[j+1] \in Nat /\ f[j+1] = f[j] + r[j+1]
    BY DEF Sums
  <2>2. 1..j+1 = 1..j \cup {j+1}
    OBVIOUS
  <2>3. f[j+1] = 0 => f[j] = 0 /\ r[j+1] = 0
    BY <2>1
  <2>4. QED
    BY <1>2, <2>2, <2>3
<1> HIDE DEF N
<1>3. Nat \subseteq N
  BY <1>1, <1>2, AllNumbers
<1>4. QED
  BY <1>3 DEF N

LEMMA ProductOfZeros ==
    ASSUME NEW r \in [Nat -> Nat], NEW g, Products(g, r)
    PROVE  \A j \in Nat : (\A i \in 1..j : r[i] = 0) => g[j] = 1
<1> DEFINE N == {j \in Nat : (\A i \in 1..j : r[i] = 0) => g[j] = 1}
<1>1. 0 \in N
  BY DEF Products
<1>2. ASSUME NEW j \in Nat, j \in N PROVE j + 1 \in N
  <2>1. g[j] \in Nat /\ g[j+1] = g[j] * Factorial[r[j+1]] /\ Factorial[0] = 1
    BY FactorialDef DEF Products
  <2>2. 1..j \subseteq 1..j+1 /\ j + 1 \in 1..j+1
    OBVIOUS
  <2>3. (\A i \in 1..j+1 : r[i] = 0) => g[j] = 1 /\ r[j+1] = 0
    BY <1>2, <2>2
  <2>4. QED
    BY <2>1, <2>3
<1> HIDE DEF N
<1>3. Nat \subseteq N
  BY <1>1, <1>2, AllNumbers
<1>4. QED
  BY <1>3 DEF N

\* Of one number, m times.
Totals(f, g, m, n) == f[m] = m * n /\ g[m] = Denominator(n)[m]

LEMMA SameThroughout ==
    ASSUME NEW r \in [Nat -> Nat], NEW f, Sums(f, r), NEW g, Products(g, r),
           NEW m \in Nat, NEW n \in Nat, \A i \in 1..m : r[i] = n
    PROVE  Totals(f, g, m, n)
<1> PICK D : D = Denominator(n)
  OBVIOUS
<1> DEFINE N == {j \in Nat : j <= m => f[j] = j * n /\ g[j] = D[j]}
<1>1. 0 \in N
  <2>1. f[0] = 0 /\ g[0] = 1 /\ 0 * n = 0
    BY DEF Sums, Products
  <2>2. D[0] = 1
    BY DenominatorDef
  <2>3. QED
    BY <2>1, <2>2
<1>2. ASSUME NEW j \in Nat, j \in N PROVE j + 1 \in N
  <2> SUFFICES ASSUME j + 1 <= m PROVE f[j+1] = (j + 1) * n /\ g[j+1] = D[j+1]
    OBVIOUS
  <2>1. r[j+1] = n /\ f[j] = j * n /\ g[j] = D[j]
    BY <1>2
  <2>2. f[j+1] = j * n + n /\ g[j+1] = D[j] * Factorial[n]
    BY <2>1 DEF Sums, Products
  <2>3. D[j+1] = D[j] * Factorial[n]
    BY DenominatorDef
  <2>4. (j + 1) * n = j * n + n
    OBVIOUS
  <2>5. QED
    BY <2>2, <2>3, <2>4
<1> HIDE DEF N
<1>3. Nat \subseteq N
  BY <1>1, <1>2, AllNumbers
<1>4. m \in N /\ m <= m
  BY <1>3
<1>5. QED
  BY <1>4 DEF N, Totals

-----------------------------------------------------------------------------
(* Interleavings. *)

\* The next steps tell how many steps each worker has taken.
LEMMA NextOne ==
    ASSUME NEW W, NEW n \in Nat, NEW next \in [W -> 0..n], NEW other \in [W -> 0..n],
           NextOf(next, n) = NextOf(other, n)
    PROVE  next = other
<1>1. ASSUME NEW a \in [W -> 0..n], NEW b \in [W -> 0..n],
             NextOf(a, n) \subseteq NextOf(b, n), NEW w \in W, a[w] < n
      PROVE  b[w] = a[w]
  <2>1. [worker |-> w, step |-> a[w]] \in NextOf(a, n)
    BY <1>1 DEF NextOf
  <2>2. PICK v \in W : [worker |-> w, step |-> a[w]] = [worker |-> v, step |-> b[v]]
    BY <1>1, <2>1 DEF NextOf
  <2>3. QED
    BY <2>2
<1>2. ASSUME NEW w \in W PROVE next[w] = other[w]
  <2>1. next[w] \in 0..n /\ other[w] \in 0..n
    OBVIOUS
  <2>2. next[w] < n => other[w] = next[w]
    BY <1>1
  <2>3. other[w] < n => next[w] = other[w]
    BY <1>1
  <2>4. QED
    BY <2>1, <2>2, <2>3
<1>3. QED
  BY <1>2

\* The next step of the i-th of the workers e, which has r[i] of n left.
Turn(e, n, r, i) == [worker |-> e[i], step |-> n - r[i]]

Turns(e, n, m, r) == {Turn(e, n, r, i) : i \in {k \in 1..m : r[k] > 0}}

\* y being left of n after x, there is one less after x + 1.
OneLess(n, x, y) == y - 1 = n - (x + 1)

LEMMA StepsLeft ==
    \A n \in Nat : \A x \in 0..n : \A y :
        y = n - x => /\ n - y = x /\ (y > 0 <=> x < n)
                     /\ y > 0 => x + 1 \in 0..n /\ OneLess(n, x, y)
BY DEF OneLess

\* In s the i-th of m workers has r[i] steps left.
Stands(sc, W, n, m, e, r, s) ==
    /\ e \in Bijection(1..m, W)
    /\ r \in [Nat -> Nat]
    /\ \E next \in [W -> 0..n] :
          /\ Enabled(sc, s) = NextOf(next, n)
          /\ \A i \in 1..m : r[i] = n - next[e[i]]

LEMMA StandsEnabled ==
    ASSUME NEW sc, NEW W, NEW n \in Nat, NEW m \in Nat, NEW e, NEW r, NEW s,
           Stands(sc, W, n, m, e, r, s)
    PROVE  Enabled(sc, s) = Turns(e, n, m, r)
<1>0. e \in Bijection(1..m, W) /\ r \in [Nat -> Nat]
  BY DEF Stands
<1>1. PICK next \in [W -> 0..n] :
        Enabled(sc, s) = NextOf(next, n) /\ \A i \in 1..m : r[i] = n - next[e[i]]
  BY DEF Stands
<1>2. e \in [1..m -> W] /\ \A w \in W : \E i \in 1..m : e[i] = w
  BY <1>0 DEF Bijection, Surjection, Injection
<1>3. ASSUME NEW i \in 1..m
      PROVE  n - r[i] = next[e[i]] /\ (r[i] > 0 <=> next[e[i]] < n)
  <2>1. next[e[i]] \in 0..n /\ r[i] = n - next[e[i]]
    BY <1>1, <1>2
  <2>2. QED
    BY <2>1, StepsLeft, Zenon
<1>4. ASSUME NEW i \in 1..m, r[i] > 0 PROVE Turn(e, n, r, i) \in NextOf(next, n)
  <2>1. e[i] \in W /\ next[e[i]] < n /\ n - r[i] = next[e[i]]
    BY <1>2, <1>3, <1>4
  <2>2. QED
    BY <2>1 DEF Turn, NextOf
<1>5. ASSUME NEW t \in NextOf(next, n)
      PROVE  \E i \in {k \in 1..m : r[k] > 0} : t = Turn(e, n, r, i)
  <2>1. PICK w \in W : next[w] < n /\ t = [worker |-> w, step |-> next[w]]
    BY DEF NextOf
  <2>2. PICK i \in 1..m : e[i] = w
    BY <1>2
  <2>3. r[i] > 0 /\ n - r[i] = next[w]
    BY <1>3, <2>1, <2>2
  <2>4. QED
    BY <2>1, <2>2, <2>3 DEF Turn
<1>6. QED
  BY <1>1, <1>4, <1>5 DEF Turns

\* It takes one of them.
LEMMA StandsOn ==
    ASSUME NEW sc, NEW W, NEW n \in Nat, OneByOne(sc, W, n),
           NEW m \in Nat, NEW e, NEW r, NEW s \in State(sc),
           Stands(sc, W, n, m, e, r, s),
           NEW i \in 1..m, r[i] > 0
    PROVE  Stands(sc, W, n, m, e, Fewer(r, i), Apply(sc, s, Turn(e, n, r, i)))
<1>a. Enabled(sc, s) = Turns(e, n, m, r)
  BY StandsEnabled
<1>b. r \in [Nat -> Nat] /\ r[i] - 1 \in Nat
  <2>0. i \in Nat
    OBVIOUS
  <2>1. r \in [Nat -> Nat] /\ i \in Nat
    BY <2>0, Zenon DEF Stands
  <2>2. r[i] \in Nat
    BY <2>1
  <2>3. QED
    BY <2>1, <2>2
<1>c. Fewer(r, i) \in [Nat -> Nat]
  BY <1>b DEF Fewer
<1> PICK t, q : /\ t = Turn(e, n, r, i)
                /\ q = Fewer(r, i) /\ q = [r EXCEPT ![i] = @ - 1]
  BY DEF Fewer
<1>0. e \in Bijection(1..m, W) /\ r \in [Nat -> Nat]
  BY DEF Stands
<1>1. PICK next \in [W -> 0..n] :
        Enabled(sc, s) = NextOf(next, n) /\ \A j \in 1..m : r[j] = n - next[e[j]]
  BY DEF Stands
<1>2. PICK other \in [W -> 0..n] :
        /\ Enabled(sc, s) = NextOf(other, n)
        /\ \A u \in Enabled(sc, s) :
              Enabled(sc, Apply(sc, s, u)) = NextOf([other EXCEPT ![u.worker] = @ + 1], n)
  BY DEF OneByOne
<1>3. other = next
  BY <1>1, <1>2, NextOne
<1>4. t \in Enabled(sc, s) /\ t.worker = e[i]
  <2>2. t \in Enabled(sc, s)
    BY <1>a DEF Turns
  <2>3. t.worker = e[i]
    BY DEF Turn
  <2>4. QED
    BY <2>2, <2>3
<1> DEFINE more == [next EXCEPT ![e[i]] = @ + 1]
<1>5. Enabled(sc, Apply(sc, s, t)) = NextOf(more, n)
  BY <1>2, <1>3, <1>4
<1>6. e \in [1..m -> W] /\ \A j, k \in 1..m : e[j] = e[k] => j = k
  BY <1>0 DEF Bijection, Injection, IsInjective
<1>7. e[i] \in W /\ next[e[i]] \in 0..n /\ r[i] = n - next[e[i]] /\ r[i] > 0
  BY <1>1, <1>6
<1>8. next[e[i]] + 1 \in 0..n /\ r[i] - 1 = n - (next[e[i]] + 1)
  <2>1. next[e[i]] + 1 \in 0..n /\ OneLess(n, next[e[i]], r[i])
    BY <1>7, StepsLeft, Zenon
  <2>2. QED
    BY <2>1 DEF OneLess
<1>9. more \in [W -> 0..n]
  BY <1>8
<1>10. ASSUME NEW j \in 1..m PROVE q[j] = n - more[e[j]]
  <2>1. j \in Nat /\ e[j] \in W /\ (e[j] = e[i] => j = i)
    <3>1. j \in Nat
      OBVIOUS
    <3>2. e[j] \in W
      BY <1>6
    <3>3. e[j] = e[i] => j = i
      BY <1>6, Zenon
    <3>4. QED
      BY <3>1, <3>2, <3>3
  <2>2. r[j] = n - next[e[j]]
    BY <1>1
  <2>3. CASE j = i
    <3>1. more[e[j]] = next[e[i]] + 1 /\ q[j] = r[i] - 1
      BY <1>0, <1>7, <2>1, <2>3
    <3>2. QED
      BY <1>8, <3>1
  <2>4. CASE j # i
    <3>1. more[e[j]] = next[e[j]] /\ q[j] = r[j]
      BY <1>0, <2>1, <2>4
    <3>2. QED
      BY <2>2, <3>1
  <2>5. QED
    BY <2>3, <2>4
<1> HIDE DEF more
<1>11. q \in [Nat -> Nat]
  BY <1>c
<1>12. Stands(sc, W, n, m, e, q, Apply(sc, s, t))
  BY <1>0, <1>5, <1>9, <1>10, <1>11 DEF Stands
<1>13. QED
  BY <1>12

\* No execution of the scene violates an invariant.
Calm(sc) == \A a \in Schedule : \A s : WalksTo(sc, a, s) => GoesOn(sc, a, s)

LEMMA OverWhenDone ==
    ASSUME NEW sc, Calm(sc), NEW a \in Schedule, NEW s, WalksTo(sc, a, s)
    PROVE  Over(sc, 0, a, s) <=> Enabled(sc, s) = {}
<1>1. GoesOn(sc, a, s) /\ ~(0 > 0)
  BY DEF Calm
<1>2. QED
  BY <1>1 DEF Over

\* What is to explore after a, of the turns of the first j workers.
Turned(sc, a, e, n, r, j) ==
    UNION {Onward(sc, 0, Append(a, Turn(e, n, r, i))) : i \in {k \in 1..j : r[k] > 0}}

\* S has so many elements that p times their number is F.
Multiplies(S, p, F) == IsFiniteSet(S) /\ Cardinality(S) * p = F

LEMMA MultipliesMore ==
    ASSUME NEW S, NEW p \in Nat, NEW k \in Nat, NEW F, Multiplies(S, p, F)
    PROVE  Multiplies(S, p * k, F * k)
<1> PICK c : c = Cardinality(S)
  OBVIOUS
<1>1. IsFiniteSet(S) /\ c * p = F /\ c \in Nat
  BY FS_CardinalityType DEF Multiplies
<1>2. \A x, y, z \in Nat : x * (y * z) = (x * y) * z
  OBVIOUS
<1>3. c * (p * k) = F * k
  BY <1>1, <1>2
<1>4. QED
  BY <1>1, <1>3 DEF Multiplies

\* Where N steps are left, the interleavings of them are left to explore.
Interleaves(sc, W, n, m, e, N) ==
    \A a \in Schedule : \A r \in [Nat -> Nat] : \A s, f, g :
        /\ WalksTo(sc, a, s)
        /\ Stands(sc, W, n, m, e, r, s)
        /\ Sums(f, r)
        /\ Products(g, r)
        /\ f[m] = N
        => Multiplies(Onward(sc, 0, a), g[m], Factorial[N])

\* No step is left.
LEMMA InterleavesNone ==
    ASSUME NEW sc \in Scene, Calm(sc), NEW W, NEW n \in Nat, NEW m \in Nat, NEW e
    PROVE  Interleaves(sc, W, n, m, e, 0)
<1> SUFFICES ASSUME NEW a \in Schedule, NEW r \in [Nat -> Nat], NEW s, NEW f, NEW g,
                    WalksTo(sc, a, s), Stands(sc, W, n, m, e, r, s),
                    Sums(f, r), Products(g, r), f[m] = 0
             PROVE  Multiplies(Onward(sc, 0, a), g[m], Factorial[0])
  BY DEF Interleaves
<1>1. \A i \in 1..m : r[i] = 0
  BY SumIsZero
<1>2. g[m] = 1 /\ Factorial[0] = 1
  BY <1>1, ProductOfZeros, FactorialDef
<1>3. Enabled(sc, s) = Turns(e, n, m, r)
  BY StandsEnabled
<1>4. Enabled(sc, s) = {}
  BY <1>1, <1>3 DEF Turns
<1>5. Over(sc, 0, a, s)
  BY <1>4, OverWhenDone
<1>6. Onward(sc, 0, a) = {a}
  <2>1. 0 \in Nat /\ ~(0 > 0)
    OBVIOUS
  <2>2. QED
    BY <1>5, <2>1, OnwardEnds
<1>7. IsFiniteSet({a}) /\ Cardinality({a}) = 1
  BY FS_Singleton, Zenon
<1>8. 1 * 1 = 1
  OBVIOUS
<1>9. QED
  BY <1>2, <1>6, <1>7, <1>8, Zenon DEF Multiplies

\* One worker takes its turn.
LEMMA OneTurn ==
    ASSUME NEW sc \in Scene, Calm(sc), NEW W, NEW n \in Nat, OneByOne(sc, W, n),
           NEW m \in Nat, NEW e, NEW N \in Nat, Interleaves(sc, W, n, m, e, N),
           NEW a \in Schedule, NEW r \in [Nat -> Nat], NEW s, NEW f, NEW g,
           WalksTo(sc, a, s), Stands(sc, W, n, m, e, r, s),
           Sums(f, r), Products(g, r), f[m] = N + 1,
           NEW i \in 1..m, r[i] > 0
    PROVE  Multiplies(Onward(sc, 0, Append(a, Turn(e, n, r, i))), g[m],
                      Factorial[N] * r[i])
<1>1. i \in Nat \ {0} /\ i <= m /\ r[i] \in Nat
  <2>1. i \in Nat \ {0} /\ i <= m
    OBVIOUS
  <2>2. QED
    BY <2>1
<1>2. Fewer(r, i) \in [Nat -> Nat]
  <2>1. r[i] - 1 \in Nat
    BY <1>1
  <2>2. QED
    BY <2>1 DEF Fewer
<1>3. s \in State(sc)
  BY WalkInState
<1>4. Stands(sc, W, n, m, e, Fewer(r, i), Apply(sc, s, Turn(e, n, r, i)))
  BY <1>3, StandsOn
<1>5. Enabled(sc, s) = Turns(e, n, m, r)
  BY StandsEnabled
<1>6. Turn(e, n, r, i) \in Enabled(sc, s)
  BY <1>5 DEF Turns
<1>7. GoesOn(sc, a, s)
  BY DEF Calm
<1>8. /\ WalksTo(sc, Append(a, Turn(e, n, r, i)), Apply(sc, s, Turn(e, n, r, i)))
      /\ Append(a, Turn(e, n, r, i)) \in Schedule
  BY <1>6, <1>7, WalkGrows
<1>9. PICK q : q = Fewer(r, i) /\ q \in [Nat -> Nat]
  BY <1>2
<1>10. PICK h : Sums(h, q)
  BY <1>9, SumsExist
<1>11. PICK p : Products(p, q)
  BY <1>9, ProductsExist
<1>12. f[m] = h[m] + 1
  <2>1. Raised(f, h, i)
    BY <1>1, <1>9, <1>10, SumDrops, Zenon
  <2>2. QED
    BY <1>1, <2>1 DEF Raised
<1>13. g[m] = p[m] * r[i]
  <2>1. Scaled(g, p, i, r[i])
    BY <1>1, <1>9, <1>11, ProductDrops, Zenon
  <2>2. QED
    BY <1>1, <2>1 DEF Scaled
<1>14. h[m] = N /\ p[m] \in Nat
  <2>1. h[m] \in Nat /\ p[m] \in Nat
    BY <1>10, <1>11 DEF Sums, Products
  <2>2. h[m] + 1 = N + 1
    BY <1>12
  <2>3. QED
    BY <2>1, <2>2
<1>15. Stands(sc, W, n, m, e, q, Apply(sc, s, Turn(e, n, r, i)))
  BY <1>4, <1>9
<1>16. Multiplies(Onward(sc, 0, Append(a, Turn(e, n, r, i))), p[m], Factorial[N])
  BY <1>8, <1>9, <1>10, <1>11, <1>14, <1>15, Zenon DEF Interleaves
<1>17. QED
  BY <1>1, <1>13, <1>14, <1>16, MultipliesMore

\* What the turns of different workers lead to does not meet.
LEMMA TurnsApart ==
    ASSUME NEW sc, NEW W, NEW n \in Nat, NEW m \in Nat, NEW e, NEW r, NEW s,
           Stands(sc, W, n, m, e, r, s), Enabled(sc, s) \subseteq Transition,
           NEW a \in Schedule, NEW j \in Nat, j + 1 \in 1..m, r[j+1] > 0
    PROVE  Turned(sc, a, e, n, r, j)
           \cap Onward(sc, 0, Append(a, Turn(e, n, r, j + 1))) = {}
<1>1. \A i, k \in 1..m : e[i] = e[k] => i = k
  BY DEF Stands, Bijection, Injection, IsInjective
<1>2. Enabled(sc, s) = Turns(e, n, m, r)
  BY StandsEnabled
<1>3. ASSUME NEW i \in {k \in 1..j : r[k] > 0},
             NEW b \in Onward(sc, 0, Append(a, Turn(e, n, r, i))),
             b \in Onward(sc, 0, Append(a, Turn(e, n, r, j + 1)))
      PROVE  FALSE
  <2>1. i \in 1..m /\ i # j + 1 /\ r[i] > 0
    OBVIOUS
  <2>2. Turn(e, n, r, i) # Turn(e, n, r, j + 1)
    <3>1. e[i] # e[j+1]
      BY <1>1, <2>1
    <3>2. QED
      BY <3>1 DEF Turn
  <2>3. Turn(e, n, r, i) \in Transition /\ Turn(e, n, r, j + 1) \in Transition
    BY <1>2, <2>1 DEF Turns
  <2>4. Diverge(Append(a, Turn(e, n, r, i)), Append(a, Turn(e, n, r, j + 1)))
    BY <2>2, <2>3, LongerDiverge
  <2>5. /\ b \in Schedule
        /\ Begins(Append(a, Turn(e, n, r, i)), b)
        /\ Begins(Append(a, Turn(e, n, r, j + 1)), b)
    BY <1>3, Zenon DEF Onward, Finished
  <2>6. QED
    BY <2>4, <2>5, Zenon DEF Diverge
<1>4. QED
  BY <1>3, Zenon DEF Turned

\* One worker more.
LEMMA TurnedNext ==
    ASSUME NEW sc, NEW a, NEW e, NEW n, NEW r \in [Nat -> Nat], NEW j \in Nat
    PROVE  /\ r[j+1] > 0 => Turned(sc, a, e, n, r, j + 1) =
                 Turned(sc, a, e, n, r, j)
                 \cup Onward(sc, 0, Append(a, Turn(e, n, r, j + 1)))
           /\ ~(r[j+1] > 0) => Turned(sc, a, e, n, r, j + 1) = Turned(sc, a, e, n, r, j)
<1> DEFINE A(i) == Onward(sc, 0, Append(a, Turn(e, n, r, i)))
<1> HIDE DEF A
<1>1. 1..j+1 = 1..j \cup {j + 1}
  OBVIOUS
<1>2. CASE r[j+1] > 0
  <2>1. {k \in 1..j+1 : r[k] > 0} = {k \in 1..j : r[k] > 0} \cup {j + 1}
    BY <1>1, <1>2
  <2>2. (UNION {A(i) : i \in {k \in 1..j+1 : r[k] > 0}}) =
           (UNION {A(i) : i \in {k \in 1..j : r[k] > 0}}) \cup A(j + 1)
    BY <2>1
  <2>3. QED
    BY <1>2, <2>2 DEF A, Turned
<1>3. CASE ~(r[j+1] > 0)
  <2>1. {k \in 1..j+1 : r[k] > 0} = {k \in 1..j : r[k] > 0}
    BY <1>1, <1>3
  <2>2. QED
    BY <1>3, <2>1 DEF Turned
<1>4. QED
  BY <1>2, <1>3

\* Sets that do not meet add up.
LEMMA MultipliesTogether ==
    ASSUME NEW S, NEW T, S \cap T = {}, NEW p \in Nat, NEW N \in Nat,
           NEW x \in Nat, NEW y \in Nat,
           Multiplies(S, p, N * x), Multiplies(T, p, N * y)
    PROVE  Multiplies(S \cup T, p, N * (x + y))
<1> PICK c, d, b : c = Cardinality(S) /\ d = Cardinality(T) /\ b = Cardinality(S \cup T)
  OBVIOUS
<1>1. /\ IsFiniteSet(S) /\ c * p = N * x /\ c \in Nat
      /\ IsFiniteSet(T) /\ d * p = N * y /\ d \in Nat
  BY FS_CardinalityType DEF Multiplies
<1>2. IsFiniteSet(S \cup T) /\ b = c + d - Cardinality(S \cap T)
  BY <1>1, FS_Union
<1>3. b = c + d
  BY <1>1, <1>2, FS_EmptySet
<1>4. /\ (c + d) * p = c * p + d * p
      /\ N * (x + y) = N * x + N * y
  <2>1. \A i, j, k \in Nat : (i + j) * k = i * k + j * k /\ k * (i + j) = k * i + k * j
    OBVIOUS
  <2>2. QED
    BY <1>1, <2>1
<1>5. b * p = N * (x + y)
  BY <1>1, <1>3, <1>4
<1>6. QED
  BY <1>2, <1>5 DEF Multiplies

\* The turns of all workers.
LEMMA AllTurns ==
    ASSUME NEW sc \in Scene, Calm(sc), NEW W, NEW n \in Nat, OneByOne(sc, W, n),
           NEW m \in Nat, NEW e, NEW N \in Nat, Interleaves(sc, W, n, m, e, N),
           NEW a \in Schedule, NEW r \in [Nat -> Nat], NEW s, NEW f, NEW g,
           WalksTo(sc, a, s), Stands(sc, W, n, m, e, r, s),
           Sums(f, r), Products(g, r), f[m] = N + 1
    PROVE  Multiplies(Turned(sc, a, e, n, r, m), g[m], Factorial[N] * f[m])
<1> PICK F, p : F = Factorial[N] /\ p = g[m]
  OBVIOUS
<1>0. F \in Nat /\ p \in Nat
  BY FactorialDef DEF Products
<1> DEFINE U(j) == Turned(sc, a, e, n, r, j)
           V(j) == Onward(sc, 0, Append(a, Turn(e, n, r, j)))
           J == {j \in Nat : j <= m => Multiplies(U(j), p, F * f[j])}
<1>1. 0 \in J
  <2>1. U(0) = {}
    BY DEF Turned
  <2>2. IsFiniteSet({}) /\ Cardinality({}) = 0
    BY FS_EmptySet
  <2>3. 0 * p = 0 /\ F * 0 = 0
    BY <1>0
  <2>4. f[0] = 0
    BY DEF Sums
  <2>5. Multiplies(U(0), p, F * f[0])
    BY <2>1, <2>2, <2>3, <2>4, Zenon DEF Multiplies
  <2>6. QED
    BY <2>5
<1>2. ASSUME NEW j \in Nat, j \in J, j + 1 <= m PROVE Multiplies(U(j + 1), p, F * f[j+1])
  <2>1. Multiplies(U(j), p, F * f[j])
    BY <1>2
  <2>2. /\ j + 1 \in 1..m /\ r[j+1] \in Nat /\ f[j] \in Nat
        /\ f[j+1] = f[j] + r[j+1]
    BY <1>2 DEF Sums
  <2>4. CASE r[j+1] > 0
    <3>1. Multiplies(V(j + 1), p, F * r[j+1])
      BY <2>2, <2>4, OneTurn
    <3>2. U(j) \cap V(j + 1) = {}
      <4>1. Enabled(sc, s) \subseteq Transition
        BY WalkInState, SceneAssumption
      <4>2. QED
        BY <2>2, <2>4, <4>1, TurnsApart
    <3>2a. U(j + 1) = U(j) \cup V(j + 1)
      BY <2>4, TurnedNext
    <3> HIDE DEF U, V
    <3>3. Multiplies(U(j) \cup V(j + 1), p, F * (f[j] + r[j+1]))
      BY <1>0, <2>1, <2>2, <3>1, <3>2, MultipliesTogether
    <3>4. QED
      BY <2>2, <3>2a, <3>3, Zenon
  <2>5. CASE ~(r[j+1] > 0)
    <3>1. f[j+1] = f[j]
      BY <2>2, <2>5
    <3>2. U(j + 1) = U(j)
      BY <2>5, TurnedNext
    <3>3. QED
      BY <2>1, <3>1, <3>2, Zenon
  <2>6. QED
    BY <2>4, <2>5
<1>3. ASSUME NEW j \in Nat, j \in J PROVE j + 1 \in J
  <2> HIDE DEF U
  <2>1. j + 1 \in Nat
    OBVIOUS
  <2>2. QED
    BY <1>2, <1>3, <2>1
<1> HIDE DEF J
<1>4. m \in J /\ m <= m
  BY <1>1, <1>3, AllNumbers
<1>5. QED
  BY <1>4 DEF J

LEMMA InterleavesMore ==
    ASSUME NEW sc \in Scene, Calm(sc), NEW W, NEW n \in Nat, OneByOne(sc, W, n),
           NEW m \in Nat, NEW e, NEW N \in Nat, Interleaves(sc, W, n, m, e, N)
    PROVE  Interleaves(sc, W, n, m, e, N + 1)
<1> SUFFICES ASSUME NEW a \in Schedule, NEW r \in [Nat -> Nat], NEW s, NEW f, NEW g,
                    WalksTo(sc, a, s), Stands(sc, W, n, m, e, r, s),
                    Sums(f, r), Products(g, r), f[m] = N + 1
             PROVE  Multiplies(Onward(sc, 0, a), g[m], Factorial[N+1])
  BY DEF Interleaves
<1>1. Multiplies(Turned(sc, a, e, n, r, m), g[m], Factorial[N] * f[m])
  BY AllTurns
<1>2. Factorial[N] * f[m] = Factorial[N+1]
  <2>1. Factorial[N] \in Nat /\ Factorial[N+1] = (N + 1) * Factorial[N]
    BY FactorialDef
  <2>2. QED
    BY <2>1
<1>3. Enabled(sc, s) = Turns(e, n, m, r)
  BY StandsEnabled
<1>4. Enabled(sc, s) # {}
  <2>1. ASSUME Enabled(sc, s) = {} PROVE FALSE
    <3>1. ASSUME NEW i \in 1..m PROVE r[i] = 0
      <4>1. ~(r[i] > 0)
        BY <1>3, <2>1 DEF Turns
      <4>2. r[i] \in Nat
        OBVIOUS
      <4>3. QED
        BY <4>1, <4>2
    <3>2. 0 \in Nat
      OBVIOUS
    <3>3. Totals(f, g, m, 0)
      BY <3>1, <3>2, SameThroughout, Zenon
    <3>4. QED
      BY <3>3 DEF Totals
  <2>2. QED
    BY <2>1
<1>5. ~Over(sc, 0, a, s)
  BY <1>4, OverWhenDone
<1>6. Onward(sc, 0, a) = UNION {Onward(sc, 0, Append(a, t)) : t \in Enabled(sc, s)}
  BY <1>5, OnwardSplits
<1>7. Onward(sc, 0, a) = Turned(sc, a, e, n, r, m)
  BY <1>3, <1>6 DEF Turns, Turned
<1>8. QED
  BY <1>1, <1>2, <1>7

LEMMA InterleavesAll ==
    ASSUME NEW sc \in Scene, Calm(sc), NEW W, NEW n \in Nat, OneByOne(sc, W, n),
           NEW m \in Nat, NEW e, NEW N \in Nat
    PROVE  Interleaves(sc, W, n, m, e, N)
<1> DEFINE J == {i \in Nat : Interleaves(sc, W, n, m, e, i)}
<1>1. 0 \in J
  BY InterleavesNone
<1>2. ASSUME NEW i \in Nat, i \in J PROVE i + 1 \in J
  BY <1>2, InterleavesMore
<1> HIDE DEF J
<1>3. N \in J
  BY <1>1, <1>2, AllNumbers
<1>4. QED
  BY <1>3 DEF J

\* All that a scene of independent workers, of as many steps each, can do: the
\* schedules are as many as the multinomial coefficient says.
LEMMA IndependentSchedules ==
    ASSUME NEW sc \in Scene, Calm(sc), NEW m \in Nat, NEW n \in Nat,
           Independent(sc, m, n)
    PROVE  /\ IsFiniteSet(Finished(sc, 0))
           /\ Cardinality(Finished(sc, 0)) = Interleavings(m, n)
<1> PICK W : W = {t.worker : t \in Enabled(sc, Initial(sc))}
  OBVIOUS
<1>1. /\ IsFiniteSet(W) /\ Cardinality(W) = m
      /\ Enabled(sc, Initial(sc)) = NextOf([w \in W |-> 0], n)
      /\ OneByOne(sc, W, n)
  BY DEF Independent
<1>2. PICK e : e \in Bijection(1..m, W)
  BY <1>1, FS_CardinalityType DEF ExistsBijection
<1> PICK r : r = [i \in Nat |-> n]
  OBVIOUS
<1>3. r \in [Nat -> Nat] /\ \A i \in 1..m : r[i] = n
  OBVIOUS
<1>4. Stands(sc, W, n, m, e, r, Initial(sc))
  <2> PICK next : next = [w \in W |-> 0]
    OBVIOUS
  <2>1. next \in [W -> 0..n] /\ e \in [1..m -> W]
    BY <1>2 DEF Bijection, Injection
  <2>2. ASSUME NEW i \in 1..m PROVE r[i] = n - next[e[i]]
    <3>1. next[e[i]] = 0 /\ r[i] = n /\ n - 0 = n
      BY <1>3, <2>1
    <3>2. QED
      BY <3>1
  <2>3. QED
    BY <1>1, <1>2, <1>3, <2>1, <2>2 DEF Stands
<1>5. PICK f : Sums(f, r)
  BY <1>3, SumsExist
<1>6. PICK g : Products(g, r)
  BY <1>3, ProductsExist
<1>7. f[m] = m * n /\ g[m] = Denominator(n)[m]
  <2>1. Totals(f, g, m, n)
    BY <1>3, <1>5, <1>6, SameThroughout, Zenon
  <2>2. QED
    BY <2>1 DEF Totals
<1>8. m * n \in Nat
  OBVIOUS
<1>9. Interleaves(sc, W, n, m, e, m * n)
  BY <1>1, <1>8, InterleavesAll
<1>10. Multiplies(Onward(sc, 0, <<>>), g[m], Factorial[m * n])
  <2>1. WalksTo(sc, <<>>, Initial(sc)) /\ <<>> \in Schedule
    BY WalkStarts
  <2>2. QED
    BY <1>3, <1>4, <1>5, <1>6, <1>7, <1>9, <2>1, Zenon DEF Interleaves
<1>11. Onward(sc, 0, <<>>) = Finished(sc, 0)
  <2>1. \A b \in Finished(sc, 0) : Begins(<<>>, b)
    BY DEF Finished, Begins, Schedule
  <2>2. QED
    BY <2>1 DEF Onward
<1> PICK S, c, d, F : /\ S = Finished(sc, 0) /\ c = Cardinality(S)
                      /\ d = Denominator(n)[m] /\ F = Factorial[m * n]
  OBVIOUS
<1>12. IsFiniteSet(S) /\ c * d = F /\ c \in Nat
  BY <1>7, <1>10, <1>11, FS_CardinalityType DEF Multiplies
<1>13. d \in Nat \ {0}
  BY DenominatorDef
<1>14. \A x \in Nat : \A y \in Nat \ {0} : (x * y) \div y = x
  OBVIOUS
<1>15. F \div d = c
  BY <1>12, <1>13, <1>14
<1>16. Interleavings(m, n) = F \div d
  BY DEF Interleavings
<1>17. QED
  BY <1>12, <1>15, <1>16

\* The scene and the configuration are those given.
InputStays == \E in \in Input : scene = in.sc /\ cfg = in.cfg

LEMMA InputStaysHolds == Spec => []InputStays
<1>1. Init => InputStays
  BY DEF Init, InputStays
<1>2. InputStays /\ [Next]_vars => InputStays'
  <2> SUFFICES ASSUME InputStays, [Next]_vars PROVE InputStays'
    OBVIOUS
  <2>1. scene' = scene /\ cfg' = cfg
    BY DEF Next, PopLeaf, PopPruned, PopExpand, Finish, ChildPushed, ChildViolates,
           vars, input
  <2>2. QED
    BY <2>1 DEF InputStays
<1>3. QED
  BY <1>1, <1>2, PTL DEF Spec

\* An unpruned search that passes a scene without shared state explored exactly
\* the interleavings of its workers' steps: what PossibleSchedules announces is
\* what SchedulesExplored counts, and 0 just when that is more than a uint64
\* holds, for any number of workers and of steps and any width
\* (stats.go:43-75, scheduler.go:111-174).
THEOREM InterleavingsCounted == Spec => []InterleavingsAreCounted
<1>1. /\ Coverage /\ InputStays /\ PassMeansClean /\ SchedulesCounted /\ StatsBalance
      /\ Places /\ Counted
      => InterleavingsAreCounted
  <2> SUFFICES ASSUME Coverage, InputStays, PassMeansClean, SchedulesCounted,
                      StatsBalance, Counted,
                      pc = "done", result.passed, cfg.measure, ~cfg.prune,
                      cfg.maxDepth = 0, cfg.workers > 0, cfg.stepsPerWorker > 0
               PROVE  PossibleSchedules =
                         IF stats.schedules <= MaxUint64 THEN stats.schedules
                         ELSE 0
    BY DEF InterleavingsAreCounted
  <2>1. /\ TypeOK /\ scene \in Scene /\ cfg \in Config /\ first = NoWitness
        /\ explored \in Nat /\ stats.schedules \in Nat
    BY DEF Coverage, TypeOK, ControlOK, CountsOK, Tallies, Tally
  <2> PICK m, n : m = cfg.workers /\ n = cfg.stepsPerWorker
    OBVIOUS
  <2>2. m \in Nat /\ n \in Nat
    BY <2>1 DEF Config
  <2>3. m > 0 /\ n > 0 /\ PossibleSchedules = Multinomial(m, n)
    BY DEF PossibleSchedules
  <2>4. Independent(scene, m, n)
    <3>1. PICK in \in Input : scene = in.sc /\ cfg = in.cfg
      BY DEF InputStays
    <3>2. QED
      BY <2>3, <3>1, ShapeAssumption
  <2>5. Calm(scene)
    <3> SUFFICES ASSUME NEW a \in Schedule, NEW s, WalksTo(scene, a, s)
                 PROVE  GoesOn(scene, a, s)
      BY DEF Calm
    <3>1. PICK p \in Seq(State(scene)) : IsRun(scene, p, a) /\ p[Len(p)] = s
      BY DEF WalksTo
    <3>2. CleanUpTo(scene, p, Len(p))
      BY <3>1 DEF PassMeansClean
    <3>3. Len(p) = Len(a) + 1 /\ Len(a) \in Nat
      BY <3>1 DEF IsRun, Schedule
    <3>4. CASE Len(a) = 0
      BY <3>4, EmptySeq DEF GoesOn, Schedule
    <3>5. CASE Len(a) # 0
      <4>1. Len(p) \in 2..Len(p)
        BY <3>3, <3>5
      <4>2. QED
        BY <3>1, <3>2, <4>1 DEF CleanUpTo, GoesOn
    <3>6. QED
      BY <3>4, <3>5
  <2>6. Cardinality(Finished(scene, 0)) = Interleavings(m, n)
    BY <2>1, <2>2, <2>4, <2>5, IndependentSchedules
  <2>7. result.explored = Cardinality(Finished(scene, 0))
    BY DEF SchedulesCounted
  <2>8. result.explored = explored
    <3>1. Thorough
      BY <2>1 DEF Thorough
    <3>2. QED
      BY <3>1 DEF Counted
  <2>9. stats.schedules = explored
    <3>1. stats.schedules - explored = 0
      BY <2>1 DEF StatsBalance
    <3>2. QED
      BY <2>1, <3>1
  <2>10. stats.schedules = Interleavings(m, n)
    BY <2>6, <2>7, <2>8, <2>9
  <2>11. QED
    BY <2>3, <2>10 DEF Multinomial
<1>2. QED
  BY <1>1, CoverageHolds, InputStaysHolds, PassesAreClean, EveryScheduleOnce,
     StatisticsBalance, CountedHolds, PTL

-----------------------------------------------------------------------------
(* The scenes of the repository: that their states embed their progress is *)
(* true for all their parameters, and so are the assumptions; for          *)
(* interleave, with one to four workers, which Builtins has names for.     *)

Demos == INSTANCE Builtins

\* What the order in which transitions are tried asks of the set U.
Sorts(U) ==
    /\ \A V \in SUBSET U : V # {} =>
          /\ \E t \in V : \A u \in V \ {t} : Demos!StepPrecedes(t, u)
          /\ \E t \in V : \A u \in V \ {t} : Demos!StepPrecedes(u, t)
    /\ \A t, u \in U : Demos!StepPrecedes(t, u) => ~Demos!StepPrecedes(u, t)

Workers == {"A", "B", "C", "D", "P", "S"}

LEMMA Ranks ==
    /\ \A w \in Workers : Demos!Rank[w] \in 1..19
    /\ \A v, w \in Workers : Demos!Rank[v] = Demos!Rank[w] => v = w
BY DEF Workers, Demos!Rank

\* Numbers given to the members of a set that is not empty have a least and a
\* greatest one.
Ends(V, key) ==
    /\ \E t \in V : \A u \in V : key[t] <= key[u]
    /\ \E t \in V : \A u \in V : key[u] <= key[t]

LEMMA LeastAndGreatest ==
    ASSUME NEW U, NEW key \in [U -> 1..19], NEW V \in SUBSET U, V # {}
    PROVE  Ends(V, key)
<1>1. \E t \in V : \A u \in V : key[t] <= key[u]
  <2> PICK R : R = {key[t] : t \in V}
    OBVIOUS
  <2>1. R \in SUBSET Nat /\ R # {}
    OBVIOUS
  <2>2. PICK k \in R : \A i \in R : k <= i
    BY <2>1, LeastNumber
  <2>3. PICK t \in V : key[t] = k
    BY <2>2
  <2>4. QED
    BY <2>2, <2>3
<1>2. \E t \in V : \A u \in V : key[u] <= key[t]
  <2> DEFINE f == [t \in U |-> 19 - key[t]]
             R == {f[t] : t \in V}
  <2>1. \A t \in V : f[t] \in Nat /\ key[t] = 19 - f[t] /\ key[t] \in Nat
    OBVIOUS
  <2> HIDE DEF f
  <2>2. R \in SUBSET Nat /\ R # {}
    BY <2>1
  <2>3. PICK k \in R : \A i \in R : k <= i
    BY <2>2, LeastNumber
  <2>4. PICK t \in V : f[t] = k
    BY <2>3
  <2>5. ASSUME NEW u \in V PROVE key[u] <= key[t]
    <3>1. f[t] <= f[u]
      BY <2>3, <2>4
    <3>2. /\ f[t] \in Nat /\ key[t] = 19 - f[t]
          /\ f[u] \in Nat /\ key[u] = 19 - f[u]
      BY <2>1
    <3>3. QED
      BY <3>1, <3>2
  <2>6. QED
    BY <2>5
<1>3. QED
  BY <1>1, <1>2 DEF Ends

\* Next steps of different workers, one each, can be sorted.
LEMMA StepsSort ==
    ASSUME NEW W \in SUBSET Workers, NEW N \in SUBSET W, NEW next \in [W -> Nat]
    PROVE  Sorts({Demos!T(w, next[w]) : w \in N})
<1> DEFINE U == {Demos!T(w, next[w]) : w \in N}
           key == [t \in U |-> Demos!Rank[t.worker]]
<1>1. /\ \A t \in U : t.worker \in Workers /\ t.step \in Nat
      /\ \A t, u \in U : t.worker = u.worker => t = u
  BY DEF Demos!T
<1> HIDE DEF U
<1>2. /\ \A t \in U : key[t] = Demos!Rank[t.worker]
      /\ key \in [U -> 1..19]
      /\ \A t, u \in U : t # u => key[t] # key[u]
  BY <1>1, Ranks
<1> HIDE DEF key
<1>3. \A t, u \in U : Demos!StepPrecedes(t, u) <=> key[t] < key[u]
  <2> SUFFICES ASSUME NEW t \in U, NEW u \in U
               PROVE  Demos!StepPrecedes(t, u) <=> key[t] < key[u]
    OBVIOUS
  <2>1. ~(t.worker = u.worker /\ t.step < u.step)
    BY <1>1
  <2>2. key[t] = Demos!Rank[t.worker] /\ key[u] = Demos!Rank[u.worker]
    BY <1>2
  <2>3. QED
    BY <2>1, <2>2, Zenon DEF Demos!StepPrecedes
<1>4. ASSUME NEW t \in U, NEW u \in U
      PROVE  /\ key[t] <= key[u] /\ t # u => key[t] < key[u]
             /\ ~(key[t] < key[u] /\ key[u] < key[t])
  <2>1. key[t] \in Nat /\ key[u] \in Nat /\ (t # u => key[t] # key[u])
    BY <1>2
  <2>2. QED
    BY <2>1
<1>5. \A t, u \in U : Demos!StepPrecedes(t, u) => ~Demos!StepPrecedes(u, t)
  BY <1>3, <1>4, Zenon
<1>6. ASSUME NEW V \in SUBSET U, V # {}
      PROVE  /\ \E t \in V : \A u \in V \ {t} : Demos!StepPrecedes(t, u)
             /\ \E t \in V : \A u \in V \ {t} : Demos!StepPrecedes(u, t)
  <2>1. Ends(V, key)
    BY <1>2, <1>6, LeastAndGreatest, Zenon
  <2>2. PICK t \in V : \A u \in V : key[t] <= key[u]
    BY <2>1 DEF Ends
  <2>3. \A u \in V \ {t} : Demos!StepPrecedes(t, u)
    BY <1>3, <1>4, <2>2, Zenon
  <2>4. PICK v \in V : \A u \in V : key[u] <= key[v]
    BY <2>1 DEF Ends
  <2>5. \A u \in V \ {v} : Demos!StepPrecedes(u, v)
    BY <1>3, <1>4, <2>4, Zenon
  <2>6. QED
    BY <2>3, <2>5, Zenon
<1>7. QED
  BY <1>5, <1>6 DEF Sorts, U

\* S is closed under what sc does, and taken counts the transitions taken.
Numbers(sc, S, taken) ==
    /\ taken \in [S -> Nat]
    /\ Demos!BuiltinInitial(sc) \in S /\ taken[Demos!BuiltinInitial(sc)] = 0
    /\ \A s \in S :
          /\ Sorts(Demos!BuiltinEnabled(sc, s))
          /\ \A t \in Demos!BuiltinEnabled(sc, s) :
                /\ Demos!BuiltinApply(sc, s, t) \in S
                /\ taken[Demos!BuiltinApply(sc, s, t)] = taken[s] + 1
Numbered(sc) == \E S : \E taken : Numbers(sc, S, taken)

\* What can run is a next step of a worker that has steps left.
LEMMA NextStepsSort ==
    ASSUME NEW W \in SUBSET Workers, NEW next \in [W -> Nat], NEW n
    PROVE  /\ Sorts(Demos!NextSteps(next, n))
           /\ \A t \in Demos!NextSteps(next, n) :
                 t.worker \in W /\ t.step = next[t.worker] /\ next[t.worker] < n
<1> PICK N : N = {w \in W : next[w] < n}
  OBVIOUS
<1>1. Demos!NextSteps(next, n) = {Demos!T(w, next[w]) : w \in N}
  BY DEF Demos!NextSteps
<1>2. N \in SUBSET W
  OBVIOUS
<1>3. Sorts({Demos!T(w, next[w]) : w \in N})
  BY <1>2, StepsSort
<1>4. QED
  BY <1>1, <1>3 DEF Demos!T

Pair == {"A", "B"}

\* A turn of one of two workers is one step more of both.
LEMMA PairCounts ==
    ASSUME NEW next \in [Pair -> Nat], NEW w \in Pair, NEW i, i = next[w]
    PROVE  /\ [next EXCEPT ![w] = i + 1] \in [Pair -> Nat]
           /\ [next EXCEPT ![w] = i + 1]["A"] + [next EXCEPT ![w] = i + 1]["B"]
              = next["A"] + next["B"] + 1
BY DEF Pair

LEMMA CounterNumbered ==
    ASSUME NEW a \in Int, NEW b \in Int, NEW m \in Int
    PROVE  Numbered(Demos!Counter(a, b, m))
<1> PICK sc : sc = Demos!Counter(a, b, m)
  OBVIOUS
<1> DEFINE S == [done : [Pair -> Nat], value : Nat]
           taken == [s \in S |-> s.value]
<1>1. sc.name = "counter"
  BY DEF Demos!Counter
<1>2. Demos!BuiltinInitial(sc) = Demos!CounterInitial
  BY <1>1, Zenon DEF Demos!BuiltinInitial
<1>3. Demos!BuiltinInitial(sc) \in S /\ taken[Demos!BuiltinInitial(sc)] = 0
  BY <1>2 DEF Demos!CounterInitial, Demos!Both, Pair
<1>4. ASSUME NEW s \in S
      PROVE  /\ Sorts(Demos!BuiltinEnabled(sc, s))
             /\ \A t \in Demos!BuiltinEnabled(sc, s) :
                   /\ Demos!BuiltinApply(sc, s, t) \in S
                   /\ taken[Demos!BuiltinApply(sc, s, t)] = taken[s] + 1
  <2> PICK N : N = {v \in Pair : s.done[v] < sc.quota[v]}
    OBVIOUS
  <2>1. Demos!BuiltinEnabled(sc, s) = Demos!CounterEnabled(sc, s)
    <3>1. /\ sc.name \notin {"double-withdraw", "lost-update"}
          /\ sc.name \notin {"check-then-act", "init-ordering"}
      BY <1>1
    <3>2. QED
      BY <1>1, <3>1, Zenon DEF Demos!BuiltinEnabled
  <2>2. Demos!CounterEnabled(sc, s) = {Demos!T(w, s.done[w]) : w \in N}
    BY DEF Demos!CounterEnabled, Pair
  <2>3. Sorts({Demos!T(w, s.done[w]) : w \in N})
    <3>1. Pair \in SUBSET Workers /\ N \in SUBSET Pair /\ s.done \in [Pair -> Nat]
      BY DEF Pair, Workers
    <3>2. QED
      BY <3>1, StepsSort
  <2>4. ASSUME NEW t \in {Demos!T(w, s.done[w]) : w \in N}
        PROVE  /\ Demos!CounterApply(s, t) \in S
               /\ Demos!CounterApply(s, t).value = s.value + 1
    <3>1. PICK w \in N : t.worker = w
      BY DEF Demos!T
    <3>2. s.done[w] + 1 \in Nat /\ s.value + 1 \in Nat
      OBVIOUS
    <3>3. [s.done EXCEPT ![w] = s.done[w] + 1] \in [Pair -> Nat]
      BY <3>2
    <3>4. Demos!CounterApply(s, t)
          = [s EXCEPT !.done = [s.done EXCEPT ![w] = s.done[w] + 1], !.value = s.value + 1]
      BY <3>1 DEF Demos!CounterApply
    <3>5. QED
      BY <3>2, <3>3, <3>4
  <2>5. \A t : Demos!BuiltinApply(sc, s, t) = Demos!CounterApply(s, t)
    BY <1>1, Zenon DEF Demos!BuiltinApply
  <2>6. QED
    BY <2>1, <2>2, <2>3, <2>4, <2>5
<1>5. taken \in [S -> Nat]
  OBVIOUS
<1> HIDE DEF S, taken
<1>6. Numbers(sc, S, taken)
  BY <1>3, <1>4, <1>5 DEF Numbers
<1>7. QED
  BY <1>6 DEF Numbered

LEMMA InterleaveNumbered ==
    ASSUME NEW m \in 1..4, NEW n \in Nat
    PROVE  Numbered(Demos!Interleave(m, n))
<1> PICK sc : sc = Demos!Interleave(m, n)
  OBVIOUS
<1> DEFINE W == {Demos!WorkerName[i] : i \in 1..m}
           S == [next : [W -> Nat], tick : Nat]
           taken == [s \in S |-> s.tick]
<1>1. sc.name = "interleave" /\ sc.workers = m /\ sc.steps = n
  BY DEF Demos!Interleave
<1>2. W \in SUBSET Workers
  BY DEF Workers, Demos!WorkerName
<1>3. Demos!BuiltinInitial(sc) = Demos!InterleaveInitial(sc)
  BY <1>1, Zenon DEF Demos!BuiltinInitial
<1>4. Demos!BuiltinInitial(sc) \in S /\ taken[Demos!BuiltinInitial(sc)] = 0
  BY <1>1, <1>3 DEF Demos!InterleaveInitial
<1> HIDE DEF W
<1>5. ASSUME NEW s \in S
      PROVE  /\ Sorts(Demos!BuiltinEnabled(sc, s))
             /\ \A t \in Demos!BuiltinEnabled(sc, s) :
                   /\ Demos!BuiltinApply(sc, s, t) \in S
                   /\ taken[Demos!BuiltinApply(sc, s, t)] = taken[s] + 1
  <2>1. Demos!BuiltinEnabled(sc, s) = Demos!NextSteps(s.next, n)
    <3>1. /\ sc.name \notin {"double-withdraw", "lost-update"}
          /\ sc.name \notin {"check-then-act", "init-ordering"}
      BY <1>1
    <3>2. QED
      BY <1>1, <3>1, Zenon DEF Demos!BuiltinEnabled
  <2>2. Sorts(Demos!NextSteps(s.next, n))
    BY <1>2, NextStepsSort
  <2>3. ASSUME NEW t \in Demos!NextSteps(s.next, n)
        PROVE  /\ Demos!InterleaveApply(s, t) \in S
               /\ Demos!InterleaveApply(s, t).tick = s.tick + 1
    <3>1. PICK w \in W : t.worker = w
      BY DEF Demos!NextSteps, Demos!T
    <3>2. s.next[w] + 1 \in Nat /\ s.tick + 1 \in Nat
      OBVIOUS
    <3>3. [s.next EXCEPT ![w] = s.next[w] + 1] \in [W -> Nat]
      BY <3>2
    <3>4. Demos!InterleaveApply(s, t)
          = [s EXCEPT !.next = [s.next EXCEPT ![w] = s.next[w] + 1], !.tick = s.tick + 1]
      BY <3>1 DEF Demos!InterleaveApply
    <3>5. QED
      BY <3>2, <3>3, <3>4
  <2>4. \A t : Demos!BuiltinApply(sc, s, t) = Demos!InterleaveApply(s, t)
    BY <1>1, Zenon DEF Demos!BuiltinApply
  <2>5. QED
    BY <2>1, <2>2, <2>3, <2>4
<1>6. taken \in [S -> Nat]
  OBVIOUS
<1> HIDE DEF S, taken
<1>7. Numbers(sc, S, taken)
  BY <1>4, <1>5, <1>6 DEF Numbers
<1>8. QED
  BY <1>7 DEF Numbered

DoubleWithdrawStates ==
    [balance : Int, local : [Pair -> Int], next : [Pair -> Nat]]

\* A worker notes v in its local.
Note(s, w, v) == [s EXCEPT !.local[w] = v]

LEMMA Noted ==
    ASSUME NEW s \in DoubleWithdrawStates, NEW w \in Pair, NEW v \in Int
    PROVE  Note(s, w, v) \in DoubleWithdrawStates /\ Note(s, w, v).next = s.next
<1> PICK g : g = [s.local EXCEPT ![w] = v]
  OBVIOUS
<1>1. g \in [Pair -> Int] /\ [s EXCEPT !.local[w] = v] = [s EXCEPT !.local = g]
  BY DEF DoubleWithdrawStates
<1>2. QED
  BY <1>1 DEF DoubleWithdrawStates, Note

LEMMA DoubleWithdrawStep ==
    ASSUME NEW sc, sc.amount \in Int, NEW s \in DoubleWithdrawStates,
           NEW t \in Demos!NextSteps(s.next, 3)
    PROVE  /\ Demos!DoubleWithdrawApply(sc, s, t) \in DoubleWithdrawStates
           /\ Demos!DoubleWithdrawApply(sc, s, t).next["A"]
              + Demos!DoubleWithdrawApply(sc, s, t).next["B"]
              = s.next["A"] + s.next["B"] + 1
<1> PICK next, w, i : next = s.next /\ w = t.worker /\ i = t.step
  OBVIOUS
<1>1. /\ next \in [Pair -> Nat] /\ w \in Pair /\ i = next[w] /\ i \in {0, 1, 2}
      /\ s.local[w] \in Int /\ s.local[w] - sc.amount \in Int /\ s.balance \in Int
  <2>1. Pair \in SUBSET Workers /\ s.next \in [Pair -> Nat]
    BY DEF Pair, Workers, DoubleWithdrawStates
  <2>2. t.worker \in Pair /\ t.step = s.next[t.worker] /\ s.next[t.worker] < 3
    BY <2>1, NextStepsSort
  <2>3. QED
    BY <2>1, <2>2 DEF DoubleWithdrawStates
<1> DEFINE f == [next EXCEPT ![w] = i + 1]
<1>2. f \in [Pair -> Nat] /\ f["A"] + f["B"] = next["A"] + next["B"] + 1
  BY <1>1, PairCounts
<1> DEFINE moved == [s EXCEPT !.next[w] = i + 1]
<1>3. /\ moved \in DoubleWithdrawStates /\ moved.next = f
      /\ moved.local[w] = s.local[w]
  <2>1. moved = [s EXCEPT !.next = f]
    OBVIOUS
  <2>2. QED
    BY <1>1, <1>2, <2>1 DEF DoubleWithdrawStates
<1> DEFINE r == Demos!DoubleWithdrawApply(sc, s, t)
<1> HIDE DEF f
<1> SUFFICES r \in DoubleWithdrawStates /\ r.next = f
  BY <1>2
<1>4. CASE i = 0
  <2>1. i # 1 /\ i # 2
    BY <1>4
  <2>2. r = Note(moved, w, s.balance)
    BY <1>4, <2>1, Zenon DEF Demos!DoubleWithdrawApply, Note
  <2> HIDE DEF moved, r
  <2>3. QED
    BY <1>1, <1>3, <2>2, Noted
<1>5. CASE i = 1
  <2>1. i # 0 /\ i # 2
    BY <1>5
  <2>2. r = [moved EXCEPT !.local[w] = @ - sc.amount]
    BY <1>5, <2>1, Zenon DEF Demos!DoubleWithdrawApply
  <2> HIDE DEF moved, r
  <2>3. r = Note(moved, w, s.local[w] - sc.amount)
    BY <1>3, <2>2 DEF Note
  <2>4. QED
    BY <1>1, <1>3, <2>3, Noted
<1>6. CASE i = 2
  <2>1. i # 0 /\ i # 1
    BY <1>6
  <2>2. r = [moved EXCEPT !.balance = s.local[w]]
    BY <1>6, <2>1, Zenon DEF Demos!DoubleWithdrawApply
  <2> HIDE DEF moved, r
  <2>3. QED
    BY <1>1, <1>3, <2>2 DEF DoubleWithdrawStates
<1>7. QED
  BY <1>1, <1>4, <1>5, <1>6

LEMMA DoubleWithdrawNumbered ==
    ASSUME NEW b \in Int, NEW a \in Int
    PROVE  Numbered(Demos!DoubleWithdraw(b, a))
<1> PICK sc : sc = Demos!DoubleWithdraw(b, a)
  OBVIOUS
<1> DEFINE S == DoubleWithdrawStates
           taken == [s \in S |-> s.next["A"] + s.next["B"]]
<1>1. sc.name = "double-withdraw" /\ sc.balance = b /\ sc.amount = a
  BY DEF Demos!DoubleWithdraw
<1>2. Demos!BuiltinInitial(sc) = Demos!DoubleWithdrawInitial(sc)
  BY <1>1, Zenon DEF Demos!BuiltinInitial
<1>3. Demos!BuiltinInitial(sc) \in S /\ taken[Demos!BuiltinInitial(sc)] = 0
  BY <1>1, <1>2 DEF Demos!DoubleWithdrawInitial, Demos!Both, Pair, DoubleWithdrawStates
<1>4. ASSUME NEW s \in S
      PROVE  /\ Sorts(Demos!BuiltinEnabled(sc, s))
             /\ \A t \in Demos!BuiltinEnabled(sc, s) :
                   /\ Demos!BuiltinApply(sc, s, t) \in S
                   /\ taken[Demos!BuiltinApply(sc, s, t)] = taken[s] + 1
  <2>1. Demos!BuiltinEnabled(sc, s) = Demos!NextSteps(s.next, 3)
    <3>1. sc.name \in {"double-withdraw", "lost-update"}
      BY <1>1
    <3>2. QED
      BY <3>1, Zenon DEF Demos!BuiltinEnabled
  <2>2. Sorts(Demos!NextSteps(s.next, 3))
    <3>1. Pair \in SUBSET Workers /\ s.next \in [Pair -> Nat]
      BY DEF Pair, Workers, DoubleWithdrawStates
    <3>2. QED
      BY <3>1, NextStepsSort
  <2>3. \A t : Demos!BuiltinApply(sc, s, t) = Demos!DoubleWithdrawApply(sc, s, t)
    BY <1>1, Zenon DEF Demos!BuiltinApply
  <2>4. ASSUME NEW t \in Demos!NextSteps(s.next, 3)
        PROVE  /\ Demos!DoubleWithdrawApply(sc, s, t) \in S
               /\ taken[Demos!DoubleWithdrawApply(sc, s, t)] = taken[s] + 1
    BY <1>1, DoubleWithdrawStep
  <2>5. QED
    BY <2>1, <2>2, <2>3, <2>4, Zenon
<1>5. taken \in [S -> Nat]
  BY DEF DoubleWithdrawStates, Pair
<1> HIDE DEF S, taken
<1>6. Numbers(sc, S, taken)
  BY <1>3, <1>4, <1>5 DEF Numbers
<1>7. QED
  BY <1>6 DEF Numbered

LostUpdateStates ==
    [value : Int, local : [Pair -> Int], next : [Pair -> Nat]]

LEMMA LostUpdateNotes ==
    ASSUME NEW s \in LostUpdateStates, NEW w \in Pair, NEW v \in Int
    PROVE  Note(s, w, v) \in LostUpdateStates /\ Note(s, w, v).next = s.next
<1> PICK g : g = [s.local EXCEPT ![w] = v]
  OBVIOUS
<1>1. g \in [Pair -> Int] /\ [s EXCEPT !.local[w] = v] = [s EXCEPT !.local = g]
  BY DEF LostUpdateStates
<1>2. QED
  BY <1>1 DEF LostUpdateStates, Note

LEMMA LostUpdateStep ==
    ASSUME NEW s \in LostUpdateStates,
           NEW t \in Demos!NextSteps(s.next, 3)
    PROVE  /\ Demos!LostUpdateApply(s, t) \in LostUpdateStates
           /\ Demos!LostUpdateApply(s, t).next["A"]
              + Demos!LostUpdateApply(s, t).next["B"]
              = s.next["A"] + s.next["B"] + 1
<1> PICK next, w, i : next = s.next /\ w = t.worker /\ i = t.step
  OBVIOUS
<1>1. /\ next \in [Pair -> Nat] /\ w \in Pair /\ i = next[w] /\ i \in {0, 1, 2}
      /\ s.local[w] \in Int /\ s.local[w] + 1 \in Int /\ s.value \in Int
  <2>1. Pair \in SUBSET Workers /\ s.next \in [Pair -> Nat]
    BY DEF Pair, Workers, LostUpdateStates
  <2>2. t.worker \in Pair /\ t.step = s.next[t.worker] /\ s.next[t.worker] < 3
    BY <2>1, NextStepsSort
  <2>3. QED
    BY <2>1, <2>2 DEF LostUpdateStates
<1> DEFINE f == [next EXCEPT ![w] = i + 1]
<1>2. f \in [Pair -> Nat] /\ f["A"] + f["B"] = next["A"] + next["B"] + 1
  BY <1>1, PairCounts
<1> DEFINE moved == [s EXCEPT !.next[w] = i + 1]
<1>3. /\ moved \in LostUpdateStates /\ moved.next = f
      /\ moved.local[w] = s.local[w]
  <2>1. moved = [s EXCEPT !.next = f]
    OBVIOUS
  <2>2. QED
    BY <1>1, <1>2, <2>1 DEF LostUpdateStates
<1> DEFINE r == Demos!LostUpdateApply(s, t)
<1> HIDE DEF f
<1> SUFFICES r \in LostUpdateStates /\ r.next = f
  BY <1>2
<1>4. CASE i = 0
  <2>1. i # 1 /\ i # 2
    BY <1>4
  <2>2. r = Note(moved, w, s.value)
    BY <1>4, <2>1, Zenon DEF Demos!LostUpdateApply, Note
  <2> HIDE DEF moved, r
  <2>3. QED
    BY <1>1, <1>3, <2>2, LostUpdateNotes
<1>5. CASE i = 1
  <2>1. i # 0 /\ i # 2
    BY <1>5
  <2>2. r = [moved EXCEPT !.local[w] = @ + 1]
    BY <1>5, <2>1, Zenon DEF Demos!LostUpdateApply
  <2> HIDE DEF moved, r
  <2>3. r = Note(moved, w, s.local[w] + 1)
    BY <1>3, <2>2 DEF Note
  <2>4. QED
    BY <1>1, <1>3, <2>3, LostUpdateNotes
<1>6. CASE i = 2
  <2>1. i # 0 /\ i # 1
    BY <1>6
  <2>2. r = [moved EXCEPT !.value = s.local[w]]
    BY <1>6, <2>1, Zenon DEF Demos!LostUpdateApply
  <2> HIDE DEF moved, r
  <2>3. QED
    BY <1>1, <1>3, <2>2 DEF LostUpdateStates
<1>7. QED
  BY <1>1, <1>4, <1>5, <1>6

LEMMA LostUpdateNumbered ==
    Numbered(Demos!LostUpdate)
<1> PICK sc : sc = Demos!LostUpdate
  OBVIOUS
<1> DEFINE S == LostUpdateStates
           taken == [s \in S |-> s.next["A"] + s.next["B"]]
<1>1. sc.name = "lost-update"
  BY DEF Demos!LostUpdate
<1>2. Demos!BuiltinInitial(sc) = Demos!LostUpdateInitial
  BY <1>1, Zenon DEF Demos!BuiltinInitial
<1>3. Demos!BuiltinInitial(sc) \in S /\ taken[Demos!BuiltinInitial(sc)] = 0
  BY <1>1, <1>2 DEF Demos!LostUpdateInitial, Demos!Both, Pair, LostUpdateStates
<1>4. ASSUME NEW s \in S
      PROVE  /\ Sorts(Demos!BuiltinEnabled(sc, s))
             /\ \A t \in Demos!BuiltinEnabled(sc, s) :
                   /\ Demos!BuiltinApply(sc, s, t) \in S
                   /\ taken[Demos!BuiltinApply(sc, s, t)] = taken[s] + 1
  <2>1. Demos!BuiltinEnabled(sc, s) = Demos!NextSteps(s.next, 3)
    <3>1. sc.name \in {"double-withdraw", "lost-update"}
      BY <1>1
    <3>2. QED
      BY <3>1, Zenon DEF Demos!BuiltinEnabled
  <2>2. Sorts(Demos!NextSteps(s.next, 3))
    <3>1. Pair \in SUBSET Workers /\ s.next \in [Pair -> Nat]
      BY DEF Pair, Workers, LostUpdateStates
    <3>2. QED
      BY <3>1, NextStepsSort
  <2>3. \A t : Demos!BuiltinApply(sc, s, t) = Demos!LostUpdateApply(s, t)
    BY <1>1, Zenon DEF Demos!BuiltinApply
  <2>4. ASSUME NEW t \in Demos!NextSteps(s.next, 3)
        PROVE  /\ Demos!LostUpdateApply(s, t) \in S
               /\ taken[Demos!LostUpdateApply(s, t)] = taken[s] + 1
    BY <1>1, LostUpdateStep
  <2>5. QED
    BY <2>1, <2>2, <2>3, <2>4, Zenon
<1>5. taken \in [S -> Nat]
  BY DEF LostUpdateStates, Pair
<1> HIDE DEF S, taken
<1>6. Numbers(sc, S, taken)
  BY <1>3, <1>4, <1>5 DEF Numbers
<1>7. QED
  BY <1>6 DEF Numbered

CheckThenActStates ==
    [taken : BOOLEAN, owners : Nat, local : [Pair -> BOOLEAN], next : [Pair -> Nat]]

LEMMA CheckThenActNotes ==
    ASSUME NEW s \in CheckThenActStates, NEW w \in Pair, NEW v \in BOOLEAN
    PROVE  Note(s, w, v) \in CheckThenActStates /\ Note(s, w, v).next = s.next
<1> PICK g : g = [s.local EXCEPT ![w] = v]
  OBVIOUS
<1>1. g \in [Pair -> BOOLEAN] /\ [s EXCEPT !.local[w] = v] = [s EXCEPT !.local = g]
  BY DEF CheckThenActStates
<1>2. QED
  BY <1>1 DEF CheckThenActStates, Note

LEMMA CheckThenActStep ==
    ASSUME NEW s \in CheckThenActStates, NEW t \in Demos!NextSteps(s.next, 2)
    PROVE  /\ Demos!CheckThenActApply(s, t) \in CheckThenActStates
           /\ Demos!CheckThenActApply(s, t).next["A"]
              + Demos!CheckThenActApply(s, t).next["B"]
              = s.next["A"] + s.next["B"] + 1
<1> PICK next, w, i : next = s.next /\ w = t.worker /\ i = t.step
  OBVIOUS
<1>1. /\ next \in [Pair -> Nat] /\ w \in Pair /\ i = next[w] /\ i \in {0, 1}
      /\ s.taken \in BOOLEAN
  <2>1. Pair \in SUBSET Workers /\ s.next \in [Pair -> Nat]
    BY DEF Pair, Workers, CheckThenActStates
  <2>2. t.worker \in Pair /\ t.step = s.next[t.worker] /\ s.next[t.worker] < 2
    BY <2>1, NextStepsSort
  <2>3. QED
    BY <2>1, <2>2 DEF CheckThenActStates
<1> DEFINE f == [next EXCEPT ![w] = i + 1]
<1>2. f \in [Pair -> Nat] /\ f["A"] + f["B"] = next["A"] + next["B"] + 1
  BY <1>1, PairCounts
<1> DEFINE moved == [s EXCEPT !.next[w] = i + 1]
<1>3. moved \in CheckThenActStates /\ moved.next = f
  <2>1. moved = [s EXCEPT !.next = f]
    OBVIOUS
  <2>2. QED
    BY <1>1, <1>2, <2>1 DEF CheckThenActStates
<1> DEFINE r == Demos!CheckThenActApply(s, t)
<1> HIDE DEF f
<1> SUFFICES r \in CheckThenActStates /\ r.next = f
  BY <1>2
<1>4. CASE i = 0
  <2>1. i # 1
    BY <1>4
  <2>2. r = Note(moved, w, s.taken)
    BY <1>4, <2>1, Zenon DEF Demos!CheckThenActApply, Note
  <2> HIDE DEF moved, r
  <2>3. QED
    BY <1>1, <1>3, <2>2, CheckThenActNotes
<1>5. CASE i = 1
  <2>1. i # 0
    BY <1>5
  <2>2. r = IF s.local[w] THEN moved
            ELSE [moved EXCEPT !.taken = TRUE, !.owners = @ + 1]
    BY <1>5, <2>1, Zenon DEF Demos!CheckThenActApply
  <2> HIDE DEF moved, r
  <2>3. moved.owners + 1 \in Nat
    BY <1>3 DEF CheckThenActStates
  <2>4. [moved EXCEPT !.taken = TRUE, !.owners = @ + 1]
        = [moved EXCEPT !.taken = TRUE, !.owners = moved.owners + 1]
    OBVIOUS
  <2>5. /\ [moved EXCEPT !.taken = TRUE, !.owners = @ + 1] \in CheckThenActStates
        /\ [moved EXCEPT !.taken = TRUE, !.owners = @ + 1].next = f
    BY <1>3, <2>3, <2>4 DEF CheckThenActStates
  <2>6. QED
    BY <1>3, <2>2, <2>5
<1>6. QED
  BY <1>1, <1>4, <1>5

LEMMA BothValue ==
    ASSUME NEW v
    PROVE  Demos!Both(v) = [w \in Pair |-> v]
BY DEF Demos!Both, Pair

LEMMA CheckThenActNumbered ==
    Numbered(Demos!CheckThenAct)
<1> PICK sc : sc = Demos!CheckThenAct
  OBVIOUS
<1> DEFINE S == CheckThenActStates
           taken == [s \in S |-> s.next["A"] + s.next["B"]]
<1>1. sc.name = "check-then-act"
  BY DEF Demos!CheckThenAct
<1>2. Demos!BuiltinInitial(sc) = Demos!CheckThenActInitial
  BY <1>1, Zenon DEF Demos!BuiltinInitial
<1>3. Demos!BuiltinInitial(sc) \in S /\ taken[Demos!BuiltinInitial(sc)] = 0
  <2> DEFINE no == Demos!Both(FALSE)
             zero == Demos!Both(0)
  <2>1. /\ zero \in [Pair -> Nat] /\ zero["A"] = 0 /\ zero["B"] = 0
    BY DEF Demos!Both, Pair
  <2>2. no \in [Pair -> BOOLEAN]
    <3>1. no = [w \in Pair |-> FALSE]
      BY BothValue, Zenon
    <3>2. QED
      BY <3>1, Zenon
  <2>3. Demos!CheckThenActInitial
        = [taken |-> FALSE, owners |-> 0, local |-> no, next |-> zero]
    BY Zenon DEF Demos!CheckThenActInitial
  <2> HIDE DEF no, zero
  <2>4. QED
    BY <1>2, <2>1, <2>2, <2>3 DEF CheckThenActStates
<1>4. ASSUME NEW s \in S
      PROVE  /\ Sorts(Demos!BuiltinEnabled(sc, s))
             /\ \A t \in Demos!BuiltinEnabled(sc, s) :
                   /\ Demos!BuiltinApply(sc, s, t) \in S
                   /\ taken[Demos!BuiltinApply(sc, s, t)] = taken[s] + 1
  <2>1. Demos!BuiltinEnabled(sc, s) = Demos!NextSteps(s.next, 2)
    <3>1. /\ sc.name \in {"check-then-act", "init-ordering"}
          /\ sc.name \notin {"double-withdraw", "lost-update"}
      BY <1>1
    <3>2. QED
      BY <1>1, <3>1, Zenon DEF Demos!BuiltinEnabled
  <2>2. Sorts(Demos!NextSteps(s.next, 2))
    <3>1. Pair \in SUBSET Workers /\ s.next \in [Pair -> Nat]
      BY DEF Pair, Workers, CheckThenActStates
    <3>2. QED
      BY <3>1, NextStepsSort
  <2>3. \A t : Demos!BuiltinApply(sc, s, t) = Demos!CheckThenActApply(s, t)
    BY <1>1, Zenon DEF Demos!BuiltinApply
  <2>4. ASSUME NEW t \in Demos!NextSteps(s.next, 2)
        PROVE  /\ Demos!CheckThenActApply(s, t) \in S
               /\ taken[Demos!CheckThenActApply(s, t)] = taken[s] + 1
    BY CheckThenActStep
  <2>5. QED
    BY <2>1, <2>2, <2>3, <2>4, Zenon
<1>5. taken \in [S -> Nat]
  BY DEF CheckThenActStates, Pair
<1> HIDE DEF S, taken
<1>6. Numbers(sc, S, taken)
  BY <1>3, <1>4, <1>5 DEF Numbers
<1>7. QED
  BY <1>6 DEF Numbered

InitOrderingStates ==
    [published : BOOLEAN, payload : Int, got : Int, localS : BOOLEAN,
     next : [{"P", "S"} -> Nat]]

LEMMA OtherPairCounts ==
    ASSUME NEW next \in [{"P", "S"} -> Nat], NEW w \in {"P", "S"},
           NEW i, i = next[w]
    PROVE  /\ [next EXCEPT ![w] = i + 1] \in [{"P", "S"} -> Nat]
           /\ [next EXCEPT ![w] = i + 1]["P"] + [next EXCEPT ![w] = i + 1]["S"]
              = next["P"] + next["S"] + 1
OBVIOUS

LEMMA InitOrderingStep ==
    ASSUME NEW sc, sc.expected \in Int, NEW s \in InitOrderingStates,
           NEW t \in Demos!NextSteps(s.next, 2)
    PROVE  /\ Demos!InitOrderingApply(sc, s, t) \in InitOrderingStates
           /\ Demos!InitOrderingApply(sc, s, t).next["P"]
              + Demos!InitOrderingApply(sc, s, t).next["S"]
              = s.next["P"] + s.next["S"] + 1
<1> PICK next, w, i : next = s.next /\ w = t.worker /\ i = t.step
  OBVIOUS
<1>1. /\ next \in [{"P", "S"} -> Nat] /\ w \in {"P", "S"}
      /\ i = next[w] /\ i \in {0, 1} /\ t = Demos!T(w, i)
  <2>1. {"P", "S"} \in SUBSET Workers /\ s.next \in [{"P", "S"} -> Nat]
    BY DEF Workers, InitOrderingStates
  <2>2. /\ t.worker \in {"P", "S"} /\ t.step = s.next[t.worker]
        /\ s.next[t.worker] < 2
    BY <2>1, NextStepsSort
  <2>3. t = Demos!T(t.worker, t.step)
    BY DEF Demos!NextSteps, Demos!T
  <2>4. QED
    BY <2>1, <2>2, <2>3
<1> DEFINE f == [next EXCEPT ![w] = i + 1]
<1>2. f \in [{"P", "S"} -> Nat] /\ f["P"] + f["S"] = next["P"] + next["S"] + 1
  BY <1>1, OtherPairCounts
<1> DEFINE moved == [s EXCEPT !.next[w] = i + 1]
<1>3. moved \in InitOrderingStates /\ moved.next = f
  <2>1. moved = [s EXCEPT !.next = f]
    OBVIOUS
  <2>2. QED
    BY <1>1, <1>2, <2>1 DEF InitOrderingStates
<1>4. s.published \in BOOLEAN /\ s.payload \in Int
  BY DEF InitOrderingStates
<1> DEFINE r == Demos!InitOrderingApply(sc, s, t)
<1> HIDE DEF f
<1> SUFFICES r \in InitOrderingStates /\ r.next = f
  BY <1>2
<1>5. /\ Demos!T("P", 0) # Demos!T("P", 1) /\ Demos!T("S", 0) # Demos!T("S", 1)
      /\ \A j, k : Demos!T("P", j) # Demos!T("S", k)
  BY DEF Demos!T
<1>7. CASE w = "P" /\ i = 0
  <2>1. /\ t = Demos!T("P", 0) /\ t # Demos!T("P", 1)
        /\ t # Demos!T("S", 0) /\ t # Demos!T("S", 1)
    BY <1>1, <1>5, <1>7
  <2>2. r = [moved EXCEPT !.published = TRUE]
    BY <2>1, Zenon DEF Demos!InitOrderingApply
  <2> HIDE DEF moved, r
  <2>3. QED
    BY <1>3, <2>2 DEF InitOrderingStates
<1>8. CASE w = "P" /\ i = 1
  <2>1. /\ t = Demos!T("P", 1) /\ t # Demos!T("P", 0)
        /\ t # Demos!T("S", 0) /\ t # Demos!T("S", 1)
    BY <1>1, <1>5, <1>8
  <2>2. r = [moved EXCEPT !.payload = sc.expected]
    BY <2>1, Zenon DEF Demos!InitOrderingApply
  <2> HIDE DEF moved, r
  <2>3. QED
    BY <1>3, <2>2 DEF InitOrderingStates
<1>9. CASE w = "S" /\ i = 0
  <2>1. /\ t = Demos!T("S", 0) /\ t # Demos!T("P", 0)
        /\ t # Demos!T("P", 1) /\ t # Demos!T("S", 1)
    BY <1>1, <1>5, <1>9
  <2>2. r = [moved EXCEPT !.localS = s.published]
    BY <2>1, Zenon DEF Demos!InitOrderingApply
  <2> HIDE DEF moved, r
  <2>3. QED
    BY <1>3, <1>4, <2>2 DEF InitOrderingStates
<1>10. CASE w = "S" /\ i = 1
  <2>1. /\ t = Demos!T("S", 1) /\ t # Demos!T("P", 0)
        /\ t # Demos!T("P", 1) /\ t # Demos!T("S", 0)
    BY <1>1, <1>5, <1>10
  <2>2. r = IF s.localS THEN [moved EXCEPT !.got = s.payload] ELSE moved
    BY <2>1, Zenon DEF Demos!InitOrderingApply
  <2> HIDE DEF moved, r
  <2>3. QED
    BY <1>3, <1>4, <2>2 DEF InitOrderingStates
<1>11. QED
  BY <1>1, <1>7, <1>8, <1>9, <1>10

LEMMA InitOrderingNumbered ==
    ASSUME NEW e \in Int
    PROVE  Numbered(Demos!InitOrdering(e))
<1> PICK sc : sc = Demos!InitOrdering(e)
  OBVIOUS
<1> DEFINE S == InitOrderingStates
           taken == [s \in S |-> s.next["P"] + s.next["S"]]
<1>1. sc.name = "init-ordering" /\ sc.expected = e
  BY DEF Demos!InitOrdering
<1>2. Demos!BuiltinInitial(sc) = Demos!InitOrderingInitial
  BY <1>1, Zenon DEF Demos!BuiltinInitial
<1>3. Demos!BuiltinInitial(sc) \in S /\ taken[Demos!BuiltinInitial(sc)] = 0
  BY <1>2 DEF Demos!InitOrderingInitial, InitOrderingStates
<1>4. ASSUME NEW s \in S
      PROVE  /\ Sorts(Demos!BuiltinEnabled(sc, s))
             /\ \A t \in Demos!BuiltinEnabled(sc, s) :
                   /\ Demos!BuiltinApply(sc, s, t) \in S
                   /\ taken[Demos!BuiltinApply(sc, s, t)] = taken[s] + 1
  <2>1. Demos!BuiltinEnabled(sc, s) = Demos!NextSteps(s.next, 2)
    <3>1. /\ sc.name \in {"check-then-act", "init-ordering"}
          /\ sc.name \notin {"double-withdraw", "lost-update"}
      BY <1>1
    <3>2. QED
      BY <1>1, <3>1, Zenon DEF Demos!BuiltinEnabled
  <2>2. Sorts(Demos!NextSteps(s.next, 2))
    <3>1. {"P", "S"} \in SUBSET Workers /\ s.next \in [{"P", "S"} -> Nat]
      BY DEF Workers, InitOrderingStates
    <3>2. QED
      BY <3>1, NextStepsSort
  <2>3. \A t : Demos!BuiltinApply(sc, s, t) = Demos!InitOrderingApply(sc, s, t)
    BY <1>1, Zenon DEF Demos!BuiltinApply
  <2>4. ASSUME NEW t \in Demos!NextSteps(s.next, 2)
        PROVE  /\ Demos!InitOrderingApply(sc, s, t) \in S
               /\ taken[Demos!InitOrderingApply(sc, s, t)] = taken[s] + 1
    BY <1>1, InitOrderingStep
  <2>5. QED
    BY <2>1, <2>2, <2>3, <2>4, Zenon
<1>5. taken \in [S -> Nat]
  BY DEF InitOrderingStates
<1> HIDE DEF S, taken
<1>6. Numbers(sc, S, taken)
  BY <1>3, <1>4, <1>5 DEF Numbers
<1>7. QED
  BY <1>6 DEF Numbered

-----------------------------------------------------------------------------
\* The scenes demos.Load returns, for any parameters; interleave for as many
\* workers as Builtins has names for.
Loadable ==
    {Demos!DoubleWithdraw(p[1], p[2]) : p \in Int \X Int}
    \cup {Demos!LostUpdate, Demos!CheckThenAct}
    \cup {Demos!InitOrdering(e) : e \in Int}
    \cup {Demos!Interleave(p[1], p[2]) : p \in (1..4) \X (Nat \ {0})}
    \cup {Demos!Counter(p[1], p[2], p[3]) : p \in Int \X Int \X Int}

LEMMA DemosNumbered == \A sc \in Loadable : Numbered(sc)
<1> SUFFICES ASSUME NEW sc \in Loadable PROVE Numbered(sc)
  OBVIOUS
<1>1. CASE sc \in {Demos!DoubleWithdraw(p[1], p[2]) : p \in Int \X Int}
  <2>1. PICK b \in Int, a \in Int : sc = Demos!DoubleWithdraw(b, a)
    BY <1>1
  <2>2. QED
    BY <2>1, DoubleWithdrawNumbered
<1>2. CASE sc = Demos!LostUpdate
  BY <1>2, LostUpdateNumbered
<1>3. CASE sc = Demos!CheckThenAct
  BY <1>3, CheckThenActNumbered
<1>4. CASE sc \in {Demos!InitOrdering(e) : e \in Int}
  <2>1. PICK e \in Int : sc = Demos!InitOrdering(e)
    BY <1>4
  <2>2. QED
    BY <2>1, InitOrderingNumbered
<1>5. CASE sc \in {Demos!Interleave(p[1], p[2]) : p \in (1..4) \X (Nat \ {0})}
  <2>1. PICK m \in 1..4, n \in Nat : sc = Demos!Interleave(m, n)
    BY <1>5
  <2>2. QED
    BY <2>1, InterleaveNumbered
<1>6. CASE sc \in {Demos!Counter(p[1], p[2], p[3]) : p \in Int \X Int \X Int}
  <2>1. PICK a \in Int, b \in Int, m \in Int : sc = Demos!Counter(a, b, m)
    BY <1>6
  <2>2. QED
    BY <2>1, CounterNumbered
<1>7. QED
  BY <1>1, <1>2, <1>3, <1>4, <1>5, <1>6 DEF Loadable

\* sc is a scene of the repository, and behaves like it.
IsDemo(sc) ==
    /\ sc \in Loadable
    /\ Initial(sc) = Demos!BuiltinInitial(sc)
    /\ \A s \in State(sc) :
          /\ Enabled(sc, s) = Demos!BuiltinEnabled(sc, s)
          /\ \A t \in Enabled(sc, s) :
                Apply(sc, s, t) = Demos!BuiltinApply(sc, s, t)

\* What taken says of the states of a layer is the number of the layer.
LEMMA LayersNumbered ==
    ASSUME NEW sc \in Scene, IsDemo(sc), NEW S, NEW taken, Numbers(sc, S, taken),
           NEW n \in Nat
    PROVE  \A s \in Layer(sc)[n] : s \in S /\ taken[s] = n
<1> DEFINE N == {k \in Nat : \A s \in Layer(sc)[k] : s \in S /\ taken[s] = k}
<1>1. 0 \in N
  <2>1. Layer(sc)[0] = {Demos!BuiltinInitial(sc)}
    BY LayerDef DEF IsDemo
  <2>2. QED
    BY <2>1 DEF Numbers
<1>2. ASSUME NEW k \in Nat, k \in N PROVE k + 1 \in N
  <2> SUFFICES ASSUME NEW r \in Layer(sc)[k+1] PROVE r \in S /\ taken[r] = k + 1
    OBVIOUS
  <2>1. Layer(sc)[k] \in SUBSET State(sc) /\ r \in Successors(sc, Layer(sc)[k])
    BY LayerDef
  <2>2. PICK s \in Layer(sc)[k] : \E t \in Enabled(sc, s) : r = Apply(sc, s, t)
    BY <2>1 DEF Successors
  <2>3. s \in State(sc) /\ s \in S /\ taken[s] = k
    BY <1>2, <2>1
  <2>4. PICK t \in Demos!BuiltinEnabled(sc, s) : r = Demos!BuiltinApply(sc, s, t)
    BY <2>2, <2>3, Zenon DEF IsDemo
  <2>5. r \in S /\ taken[r] = taken[s] + 1
    BY <2>3, <2>4, Zenon DEF Numbers
  <2>6. QED
    BY <2>3, <2>5
<1> HIDE DEF N
<1>3. n \in N
  BY <1>1, <1>2, AllNumbers
<1>4. QED
  BY <1>3 DEF N

LEMMA DemosEmbed ==
    ASSUME scene \in Scene, IsDemo(scene), IsFiniteSet(State(scene))
    PROVE  EmbedsProgress
<1>1. PICK S, taken : Numbers(scene, S, taken)
  BY DemosNumbered DEF IsDemo, Numbered
<1>2. Cardinality(State(scene)) \in Nat
  BY FS_CardinalityType
<1>3. ASSUME NEW n \in Nat, NEW m \in Nat, m # n,
             NEW s \in Layer(scene)[m], s \in Layer(scene)[n]
      PROVE  FALSE
  <2>1. taken[s] = m /\ taken[s] = n
    BY <1>1, <1>3, LayersNumbered
  <2>2. QED
    BY <1>3, <2>1
<1>4. ASSUME NEW n \in 1..Cardinality(State(scene)), NEW m \in 0..n-1
      PROVE  Layer(scene)[m] \cap Layer(scene)[n] = {}
  <2>1. n \in Nat /\ m \in Nat /\ m # n
    BY <1>2
  <2>2. QED
    BY <1>3, <2>1
<1>5. QED
  BY <1>4 DEF EmbedsProgress

\* How far a search looks: as far as its bound, or as there are states.
Horizon == IF cfg.maxDepth = 0 THEN Cardinality(State(scene)) ELSE cfg.maxDepth

\* For the scenes of the repository (Loadable: any parameters, interleave with
\* at most four workers) no condition is left: whatever the options, "passed"
\* means that nothing within the horizon violates (stats.go:25-27,
\* scheduler.go:69, 176-178, demos.go:31-128).
THEOREM DemosPassSoundly ==
    Spec => [](/\ IsDemo(scene) /\ IsFiniteSet(State(scene))
               /\ pc = "done" /\ result.passed
               => \A n \in 1..Horizon : \A s \in Layer(scene)[n] :
                     ~Violates(scene, s))
<1>1. /\ TypeOK /\ (IsFiniteSet(State(scene)) => PassIsSound)
      => (/\ IsDemo(scene) /\ IsFiniteSet(State(scene))
          /\ pc = "done" /\ result.passed
          => \A n \in 1..Horizon : \A s \in Layer(scene)[n] : ~Violates(scene, s))
  BY DemosEmbed DEF PassIsSound, Horizon, TypeOK, ControlOK
<1>2. QED
  BY <1>1, TypeCorrect, PassesAreSound, PTL

\* And the first witness of these scenes, interleave with at most four workers,
\* is the canonical one, whatever the options: pruning, measuring and continuing
\* do not change it (prune_test.go:63-66, scheduler.go:36-38, demos.go:31-128).
THEOREM DemosFindTheFirst ==
    Spec => [](/\ IsDemo(scene) /\ IsFiniteSet(State(scene)) /\ pc = "done"
               => result.schedule = Canonical(scene)[Horizon][Initial(scene)])
<1>1. /\ TypeOK /\ (IsFiniteSet(State(scene)) => FirstIsCanonical)
      => (/\ IsDemo(scene) /\ IsFiniteSet(State(scene)) /\ pc = "done"
          => result.schedule = Canonical(scene)[Horizon][Initial(scene)])
  BY DemosEmbed DEF FirstIsCanonical, Horizon, TypeOK, ControlOK
<1>2. QED
  BY <1>1, TypeCorrect, TheFirstIsCanonical, PTL

-----------------------------------------------------------------------------
\* What the invariants of the scenes are named, and say.
Messages == {"balance >= 0", "value == 2", "owners <= 1",
             "got == 0 || got == expected", "counter <= max",
             "counter exceeded limit"}

\* The specs of sc have names, and their functions return "nil" or a text.
Speaks(sc) ==
    \A i \in 1..Len(Demos!BuiltinSpecs(sc)) :
        /\ Demos!BuiltinSpecs(sc)[i].name \in Messages
        /\ Demos!BuiltinSpecs(sc)[i].hold # "nil"
        /\ \A s : Demos!BuiltinErr(sc, Demos!BuiltinSpecs(sc)[i].hold, s)
                  \in Messages \cup {"nil"}

LEMMA OneSpeaks ==
    ASSUME NEW sc, NEW name \in Messages, NEW hold, hold # "nil",
           Demos!BuiltinSpecs(sc) = <<[name |-> name, hold |-> hold]>>,
           \A s : Demos!BuiltinErr(sc, hold, s) \in Messages \cup {"nil"}
    PROVE  Speaks(sc)
<1>1. /\ Len(Demos!BuiltinSpecs(sc)) = 1
      /\ Demos!BuiltinSpecs(sc)[1].name = name
      /\ Demos!BuiltinSpecs(sc)[1].hold = hold
  OBVIOUS
<1>2. \A i \in 1..Len(Demos!BuiltinSpecs(sc)) : i = 1
  BY <1>1
<1>3. QED
  BY <1>1, <1>2, Zenon DEF Speaks

LEMMA DemosSpeak ==
    ASSUME NEW sc \in Loadable
    PROVE  Speaks(sc)
<1>1. CASE sc.name = "double-withdraw"
  <2>1. Demos!BuiltinSpecs(sc) = <<[name |-> "balance >= 0", hold |-> sc.name]>>
    BY <1>1, Zenon DEF Demos!BuiltinSpecs
  <2>2. \A s : Demos!BuiltinErr(sc, sc.name, s) = Demos!DoubleWithdrawErr(s)
    BY <1>1, Zenon DEF Demos!BuiltinErr
  <2>3. \A s : Demos!DoubleWithdrawErr(s) \in Messages \cup {"nil"}
    BY DEF Demos!DoubleWithdrawErr, Messages
  <2>4. "balance >= 0" \in Messages /\ sc.name # "nil"
    BY <1>1 DEF Messages
  <2>5. QED
    BY <2>1, <2>2, <2>3, <2>4, OneSpeaks
<1>2. CASE sc.name = "lost-update"
  <2>1. Demos!BuiltinSpecs(sc) = <<[name |-> "value == 2", hold |-> sc.name]>>
    BY <1>2, Zenon DEF Demos!BuiltinSpecs
  <2>2. \A s : Demos!BuiltinErr(sc, sc.name, s) = Demos!LostUpdateErr(s)
    BY <1>2, Zenon DEF Demos!BuiltinErr
  <2>3. \A s : Demos!LostUpdateErr(s) \in Messages \cup {"nil"}
    BY DEF Demos!LostUpdateErr, Messages
  <2>4. "value == 2" \in Messages /\ sc.name # "nil"
    BY <1>2 DEF Messages
  <2>5. QED
    BY <2>1, <2>2, <2>3, <2>4, OneSpeaks
<1>3. CASE sc.name = "check-then-act"
  <2>1. Demos!BuiltinSpecs(sc) = <<[name |-> "owners <= 1", hold |-> sc.name]>>
    BY <1>3, Zenon DEF Demos!BuiltinSpecs
  <2>2. \A s : Demos!BuiltinErr(sc, sc.name, s) = Demos!CheckThenActErr(s)
    BY <1>3, Zenon DEF Demos!BuiltinErr
  <2>3. \A s : Demos!CheckThenActErr(s) \in Messages \cup {"nil"}
    BY DEF Demos!CheckThenActErr, Messages
  <2>4. "owners <= 1" \in Messages /\ sc.name # "nil"
    BY <1>3 DEF Messages
  <2>5. QED
    BY <2>1, <2>2, <2>3, <2>4, OneSpeaks
<1>4. CASE sc.name = "init-ordering"
  <2>1. Demos!BuiltinSpecs(sc)
        = <<[name |-> "got == 0 || got == expected", hold |-> sc.name]>>
    BY <1>4, Zenon DEF Demos!BuiltinSpecs
  <2>2. \A s : Demos!BuiltinErr(sc, sc.name, s) = Demos!InitOrderingErr(sc, s)
    BY <1>4, Zenon DEF Demos!BuiltinErr
  <2>3. \A s : Demos!InitOrderingErr(sc, s) \in Messages \cup {"nil"}
    BY DEF Demos!InitOrderingErr, Messages
  <2>4. "got == 0 || got == expected" \in Messages /\ sc.name # "nil"
    BY <1>4 DEF Messages
  <2>5. QED
    BY <2>1, <2>2, <2>3, <2>4, OneSpeaks
<1>5. CASE sc.name = "interleave"
  <2>1. Demos!BuiltinSpecs(sc) = <<>>
    BY <1>5, Zenon DEF Demos!BuiltinSpecs
  <2>2. Len(Demos!BuiltinSpecs(sc)) = 0
    BY <2>1
  <2>3. QED
    BY <2>2 DEF Speaks
<1>6. CASE sc.name = "counter"
  <2>1. Demos!BuiltinSpecs(sc) = <<[name |-> "counter <= max", hold |-> sc.name]>>
    BY <1>6, Zenon DEF Demos!BuiltinSpecs
  <2>2. \A s : Demos!BuiltinErr(sc, sc.name, s) = Demos!CounterErr(sc, s)
    BY <1>6, Zenon DEF Demos!BuiltinErr
  <2>3. \A s : Demos!CounterErr(sc, s) \in Messages \cup {"nil"}
    BY DEF Demos!CounterErr, Messages
  <2>4. "counter <= max" \in Messages /\ sc.name # "nil"
    BY <1>6 DEF Messages
  <2>5. QED
    BY <2>1, <2>2, <2>3, <2>4, OneSpeaks
<1>7. sc.name \in {"double-withdraw", "lost-update", "check-then-act",
                   "init-ordering", "interleave", "counter"}
  BY DEF Loadable, Demos!DoubleWithdraw, Demos!LostUpdate, Demos!CheckThenAct,
         Demos!InitOrdering, Demos!Interleave, Demos!Counter
<1>8. QED
  BY <1>1, <1>2, <1>3, <1>4, <1>5, <1>6, <1>7

\* What the modules assume of a scene is true of every scene of the repository,
\* for any parameters, and of interleave for at most four workers: there are
\* states it stays within, in which what can run can be sorted (SceneAssumption, OrderAssumption, SortedAssumption); its
\* fingerprints tell states apart (FingerprintAssumption); its invariants have
\* names and return texts (SpecsAssumption, NamesAssumption).  And its states
\* tell how many transitions were taken (demos.go:31-128, internal/scenario).
THEOREM DemosMeetAssumptions ==
    \A sc \in Loadable :
        /\ Numbered(sc)
        /\ \A s, r : Demos!BuiltinFingerprint(sc, s) = Demos!BuiltinFingerprint(sc, r)
                     => s = r
        /\ Speaks(sc)
<1>1. \A sc, s, r :
          Demos!BuiltinFingerprint(sc, s) = Demos!BuiltinFingerprint(sc, r) => s = r
  BY DEF Demos!BuiltinFingerprint
<1>2. QED
  BY <1>1, DemosNumbered, DemosSpeak

\* Between them, the workers of interleave have taken at most n steps each.
InterleaveStates(m, n) ==
    [next : [{Demos!WorkerName[i] : i \in 1..m} -> 0..n], tick : Nat]

\* The workers of interleave are independent, for at most four of them and any
\* number of steps: ShapeAssumption speaks of it alone (interleave.go:5-55, cli.go:194-197).
THEOREM InterleaveIsIndependent ==
    ASSUME NEW m \in 1..4, NEW n \in Nat \ {0}, NEW sc \in Scene, IsDemo(sc),
           sc = Demos!Interleave(m, n), State(sc) \subseteq InterleaveStates(m, n)
    PROVE  Independent(sc, m, n)
<1> DEFINE W == {Demos!WorkerName[i] : i \in 1..m}
<1>1. sc.name = "interleave" /\ sc.workers = m /\ sc.steps = n
  BY DEF Demos!Interleave
<1>2. IsFiniteSet(W) /\ Cardinality(W) = m
  <2> DEFINE f == [i \in 1..m |-> Demos!WorkerName[i]]
  <2>1. f \in Bijection(1..m, W)
    <3>1. \A i, j \in 1..4 : Demos!WorkerName[i] = Demos!WorkerName[j] => i = j
      BY DEF Demos!WorkerName
    <3>2. \A i, j \in 1..m : f[i] = f[j] => i = j
      BY <3>1
    <3>3. f \in [1..m -> W] /\ \A w \in W : \E i \in 1..m : f[i] = w
      OBVIOUS
    <3> HIDE DEF f, W
    <3>4. QED
      BY <3>2, <3>3 DEF Bijection, Injection, IsInjective, Surjection
  <2> HIDE DEF f, W
  <2>2. ExistsBijection(1..m, W) /\ m \in Nat
    BY <2>1 DEF ExistsBijection
  <2>3. QED
    BY <2>2, FS_CountingElements, FS_NatBijection, Zenon
<1>3. \A s : Demos!BuiltinEnabled(sc, s) = NextOf(s.next, n)
  <2>1. /\ sc.name \notin {"double-withdraw", "lost-update"}
        /\ sc.name \notin {"check-then-act", "init-ordering"}
    BY <1>1
  <2>2. \A s : Demos!BuiltinEnabled(sc, s) = Demos!NextSteps(s.next, n)
    BY <1>1, <2>1, Zenon DEF Demos!BuiltinEnabled
  <2>3. QED
    BY <2>2 DEF Demos!NextSteps, Demos!T, NextOf
<1>4. \A s \in State(sc) : Enabled(sc, s) = NextOf(s.next, n)
  BY <1>3 DEF IsDemo
<1>5. Initial(sc).next = [w \in W |-> 0]
  <2>1. Demos!BuiltinInitial(sc) = Demos!InterleaveInitial(sc)
    BY <1>1, Zenon DEF Demos!BuiltinInitial
  <2>2. QED
    BY <1>1, <2>1 DEF IsDemo, Demos!InterleaveInitial
<1>6. Initial(sc) \in State(sc)
  BY SceneAssumption
<1> HIDE DEF W
<1>7. Enabled(sc, Initial(sc)) = NextOf([w \in W |-> 0], n)
  BY <1>4, <1>5, <1>6
<1>8. W = {t.worker : t \in Enabled(sc, Initial(sc))}
  <2> DEFINE zero == [w \in W |-> 0]
  <2>1. DOMAIN zero = W /\ \A w \in W : zero[w] = 0 /\ zero[w] < n
    OBVIOUS
  <2> HIDE DEF zero
  <2>2. {v \in DOMAIN zero : zero[v] < n} = W
    BY <2>1
  <2>3. NextOf(zero, n) = {[worker |-> w, step |-> zero[w]] : w \in W}
    BY <2>2, Zenon DEF NextOf
  <2>4. {t.worker : t \in NextOf(zero, n)} = W
    <3>1. \A t \in NextOf(zero, n) : t.worker \in W
      BY <2>3
    <3>2. ASSUME NEW w \in W
          PROVE  \E t \in NextOf(zero, n) : t.worker = w
      <4>1. [worker |-> w, step |-> zero[w]] \in NextOf(zero, n)
        BY <2>3
      <4>2. [worker |-> w, step |-> zero[w]].worker = w
        OBVIOUS
      <4>3. QED
        BY <4>1, <4>2, Zenon
    <3>3. QED
      BY <3>1, <3>2
  <2>5. QED
    BY <1>7, <2>4, Zenon DEF zero
<1>9. OneByOne(sc, W, n)
  <2> SUFFICES ASSUME NEW s \in State(sc)
               PROVE  \E next \in [W -> 0..n] :
                         /\ Enabled(sc, s) = NextOf(next, n)
                         /\ \A t \in Enabled(sc, s) :
                               Enabled(sc, Apply(sc, s, t)) =
                                   NextOf([next EXCEPT ![t.worker] = @ + 1], n)
    BY DEF OneByOne
  <2>1. s.next \in [W -> 0..n] /\ s \in [next : [W -> 0..n], tick : Nat]
    BY DEF InterleaveStates, W
  <2>2. ASSUME NEW t \in Enabled(sc, s)
        PROVE  Enabled(sc, Apply(sc, s, t)) =
                   NextOf([s.next EXCEPT ![t.worker] = @ + 1], n)
    <3>1. Apply(sc, s, t) \in State(sc)
      BY SceneAssumption
    <3>2. Apply(sc, s, t) = Demos!InterleaveApply(s, t)
      <4>1. Demos!BuiltinApply(sc, s, t) = Demos!InterleaveApply(s, t)
        BY <1>1, Zenon DEF Demos!BuiltinApply
      <4>2. QED
        BY <4>1 DEF IsDemo
    <3>3. Demos!InterleaveApply(s, t).next = [s.next EXCEPT ![t.worker] = @ + 1]
      BY <2>1 DEF Demos!InterleaveApply
    <3>4. QED
      BY <1>4, <3>1, <3>2, <3>3
  <2>3. QED
    BY <1>4, <2>1, <2>2
<1>10. QED
  BY <1>2, <1>7, <1>8, <1>9 DEF Independent
=============================================================================
