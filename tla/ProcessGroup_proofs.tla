------------------------ MODULE ProcessGroup_proofs ------------------------
(* Theorems about ProcessGroup, whoever inherits the leader's stderr. *)
EXTENDS ProcessGroup, TLAPS

(* The types hold at first. *)
LEMMA InitTypeOK == Init => TypeOK
  BY DEF Init, TypeOK, Members

(* A step of the operating system keeps the types. *)
LEMMA OSType ==
  ASSUME TypeOK, OS
  PROVE  TypeOK'
<1> USE DEF TypeOK, Members, guardVars, smokeVars
<1>1. CASE LeaderForks
  BY <1>1 DEF LeaderForks
<1>2. CASE LeaderWrites
  BY <1>2 DEF LeaderWrites
<1>3. ASSUME NEW m \in Members, Dies(m)
      PROVE  TypeOK'
  BY <1>3 DEF Dies
<1>4. CASE InitReaps
  BY <1>4 DEF InitReaps
<1>5. CASE ReaperReaps
  BY <1>5 DEF ReaperReaps
<1>6. CASE CaptureEnds
  BY <1>6 DEF CaptureEnds, osVars
<1> QED
  BY <1>1, <1>2, <1>3, <1>4, <1>5, <1>6 DEF OS

(* What a probe says is a Boolean. *)
LEMMA AnyAliveType == AnyAlive \in BOOLEAN
  BY DEF AnyAlive, Visible

(* A step of the caller keeps the types. *)
LEMMA CallerType ==
  ASSUME TypeOK, Next, ~OS
  PROVE  TypeOK'
<1> USE DEF TypeOK, Members, osVars, guardVars, smokeVars
<1>1. CASE Spawn
  <2>1. CASE SpawnFails
    BY <2>1 DEF SpawnFails
  <2>2. CASE GroupSpawn
    BY <2>2 DEF GroupSpawn
  <2>3. CASE ObserveLeader
    BY <2>3 DEF ObserveLeader
  <2>4. CASE LeaderUnobserved
    BY <2>4 DEF LeaderUnobserved
  <2> QED
    BY <1>1, <2>1, <2>2, <2>3, <2>4 DEF Spawn
<1>2. CASE CallRead \/ CallKill
  <2>1. CASE CallRead
    BY <2>1 DEF CallRead
  <2>2. CASE CallKill
    BY <2>2 DEF CallKill
  <2> QED
    BY <1>2, <2>1, <2>2
<1>3. CASE WaitForReportedTree
  <2>1. CASE ReadTree
    BY <2>1 DEF ReadTree
  <2>2. CASE ReadFails
    BY <2>2 DEF ReadFails, Cleanup
  <2>3. CASE ObserveParent
    BY <2>3 DEF ObserveParent
  <2>4. CASE ObserveGrandchild
    BY <2>4 DEF ObserveGrandchild
  <2>5. CASE Unobservable
    BY <2>5 DEF Unobservable, Cleanup
  <2> QED
    BY <1>3, <2>1, <2>2, <2>3, <2>4, <2>5 DEF WaitForReportedTree
<1>4. CASE KillGroup
  <2>1. doomed' \subseteq {m \in Members : state'[m] # "unborn"}
    BY <1>4 DEF KillGroup, Alive
  <2>2. pc' = "wait" /\ UNCHANGED <<state, line, guardVars, cause, last, smokeVars>>
    BY <1>4, Zenon DEF KillGroup
  <2> QED
    BY <2>1, <2>2
<1>5. CASE KillNothing \/ KillFails \/ Collected \/ CollectFails
  <2>1. CASE KillNothing
    BY <2>1 DEF KillNothing, Return
  <2>2. CASE KillFails
    BY <2>2 DEF KillFails, Return
  <2>3. CASE Collected
    BY <2>3 DEF Collected, Return
  <2>4. CASE CollectFails
    BY <2>4 DEF CollectFails, Return
  <2> QED
    BY <1>5, <2>1, <2>2, <2>3, <2>4
<1>6. CASE WaitReaps
  BY <1>6 DEF WaitReaps
<1>7. CASE Abandon
  BY <1>7 DEF Abandon
<1>8. CASE Drop
  <2>1. doomed' \subseteq {m \in Members : state'[m] # "unborn"}
    BY <1>8 DEF Drop, Alive
  <2>2. child' \in {"none", "held", "taken"} /\ reaper' \in {"none", "running", "failed"}
    BY <1>8 DEF Drop
  <2>3. capture' \in {"none", "running", "finished", "detached"}
    BY <1>8 DEF Drop
  <2>4. pc' = "dropped" /\ UNCHANGED <<state, line, cause, last, smokeVars>>
    BY <1>8, Zenon DEF Drop
  <2> QED
    BY <2>1, <2>2, <2>3, <2>4
<1>9. CASE ProbeParent
  <2>1. parentDead' \in BOOLEAN
    BY <1>9, AnyAliveType, Zenon DEF ProbeParent
  <2>2. pc' = "probe" /\ UNCHANGED <<osVars, guardVars, cause, last, tree, proof>>
    BY <1>9 DEF ProbeParent
  <2> QED
    BY <2>1, <2>2
<1>10. CASE ProbeGrandchildAndWrite
  <2>1. PICK elapsed \in {5000, 5001} :
          proof' = [parent_dead |-> parentDead, grandchild_dead |-> ~AnyAlive,
                    elapsed |-> elapsed]
    BY <1>10 DEF ProbeGrandchildAndWrite
  <2>2. proof' \in Proofs
    BY <2>1, AnyAliveType DEF Proofs
  <2> QED
    BY <1>10, <2>2 DEF ProbeGrandchildAndWrite
<1> QED
  BY <1>1, <1>2, <1>3, <1>4, <1>5, <1>6, <1>7, <1>8, <1>9, <1>10
     DEF Next, KillAndWait

(* Every variable keeps its type; a signal is only sent to a born member.  *)
THEOREM TypeCorrect == Spec => []TypeOK
<1>1. TypeOK /\ [Next]_vars => TypeOK'
  <2> SUFFICES ASSUME TypeOK, [Next]_vars
               PROVE  TypeOK'
    OBVIOUS
  <2>1. CASE UNCHANGED vars
    BY <2>1 DEF vars, osVars, guardVars, smokeVars, TypeOK, Members
  <2> QED
    BY <2>1, OSType, CallerType
<1> QED
  BY InitTypeOK, <1>1, PTL DEF Spec

(* The invariant holds at first. *)
LEMMA InitGroupInv == Init => GroupInv
<1>1. Init => ChildInv
  BY DEF Init, ChildInv, Alive, Members
<1>2. Init => ~MatrixAccepts
  BY DEF Init, MatrixAccepts
<1> QED
  BY <1>1, <1>2 DEF GroupInv, AcceptedMeansDead

(* Nobody is born or revived behind the back of the signal. *)
LEMMA OSChildInv ==
  ASSUME TypeOK, ChildInv, OS
  PROVE  ChildInv'
<1> USE DEF ChildInv, TypeOK, Members, Alive, guardVars, smokeVars
<1>1. CASE LeaderForks
  BY <1>1 DEF LeaderForks
<1>2. CASE LeaderWrites
  BY <1>2 DEF LeaderWrites
<1>3. ASSUME NEW m \in Members, Dies(m)
      PROVE  ChildInv'
  BY <1>3 DEF Dies
<1>4. CASE InitReaps
  BY <1>4 DEF InitReaps
<1>5. CASE ReaperReaps
  BY <1>5 DEF ReaperReaps
<1>6. CASE CaptureEnds
  BY <1>6 DEF CaptureEnds, osVars
<1> QED
  BY <1>1, <1>2, <1>3, <1>4, <1>5, <1>6 DEF OS

(* The calls of the guard, one by one. *)
LEMMA CallerChildInv ==
  ASSUME TypeOK, ChildInv, Next, ~OS
  PROVE  ChildInv'
<1> USE DEF ChildInv, TypeOK, Members, Alive, osVars, guardVars, smokeVars
<1>1. CASE Spawn
  <2>1. CASE SpawnFails
    BY <2>1 DEF SpawnFails
  <2>2. CASE GroupSpawn
    BY <2>2 DEF GroupSpawn
  <2>3. CASE ObserveLeader
    BY <2>3 DEF ObserveLeader
  <2>4. CASE LeaderUnobserved
    BY <2>4 DEF LeaderUnobserved
  <2> QED
    BY <1>1, <2>1, <2>2, <2>3, <2>4 DEF Spawn
<1>2. CASE CallRead
  BY <1>2 DEF CallRead
<1>3. CASE CallKill
  BY <1>3 DEF CallKill
<1>4. CASE WaitForReportedTree
  <2>1. CASE ReadTree
    BY <2>1 DEF ReadTree
  <2>2. CASE ReadFails
    BY <2>2 DEF ReadFails, Cleanup
  <2>3. CASE ObserveParent
    BY <2>3 DEF ObserveParent
  <2>4. CASE ObserveGrandchild
    BY <2>4 DEF ObserveGrandchild, Visible
  <2>5. CASE Unobservable
    BY <2>5 DEF Unobservable, Cleanup
  <2> QED
    BY <1>4, <2>1, <2>2, <2>3, <2>4, <2>5 DEF WaitForReportedTree
<1>5. CASE KillAndWait
  <2>1. CASE KillNothing
    BY <2>1 DEF KillNothing, Return
  <2>2. CASE KillGroup
    BY <2>2 DEF KillGroup
  <2>3. CASE KillFails
    BY <2>3 DEF KillFails, Return
  <2>4. CASE WaitReaps
    BY <2>4 DEF WaitReaps
  <2>5. CASE Collected
    BY <2>5 DEF Collected, Return
  <2>6. CASE CollectFails
    BY <2>6 DEF CollectFails, Return
  <2> QED
    BY <1>5, <2>1, <2>2, <2>3, <2>4, <2>5, <2>6 DEF KillAndWait
<1>6. CASE Abandon
  BY <1>6 DEF Abandon
<1>7. CASE Drop
  BY <1>7 DEF Drop
<1>8. CASE ProbeParent
  BY <1>8 DEF ProbeParent
<1>9. CASE ProbeGrandchildAndWrite
  BY <1>9 DEF ProbeGrandchildAndWrite
<1> QED
  BY <1>1, <1>2, <1>3, <1>4, <1>5, <1>6, <1>7, <1>8, <1>9 DEF Next

(* The proof is written about a tree that was reported and reaped, and a   *)
(* dead tree stays dead.                                                   *)
LEMMA AcceptedStep ==
  ASSUME TypeOK, GroupInv, [Next]_vars
  PROVE  AcceptedMeansDead'
<1> USE DEF Members
<1>1. CASE ProbeGrandchildAndWrite
  <2>1. PICK elapsed :
          proof' = [parent_dead |-> parentDead, grandchild_dead |-> ~AnyAlive,
                    elapsed |-> elapsed]
    <3> DEFINE times == {5000, 5001}
    <3>1. \E e \in times :
            proof' = [parent_dead |-> parentDead, grandchild_dead |-> ~AnyAlive,
                      elapsed |-> e]
      BY <1>1 DEF ProbeGrandchildAndWrite
    <3> HIDE DEF times
    <3> QED
      BY <3>1, Zenon
  <2>2. state' = state /\ child = "taken" /\ tree
    BY <1>1 DEF ProbeGrandchildAndWrite, osVars, GroupInv, ChildInv
  <2>3. state["leader"] = "gone" /\ state["leaf"] # "unborn"
    BY <2>2 DEF GroupInv, ChildInv
  <2>4. MatrixAccepts' => ~AnyAlive
    <3>1. MatrixAccepts' => proof'.grandchild_dead
      BY DEF MatrixAccepts
    <3>2. proof'.grandchild_dead <=> ~AnyAlive
      <4> DEFINE dead == ~AnyAlive
      <4> HIDE DEF dead
      <4>1. proof' = [parent_dead |-> parentDead, grandchild_dead |-> dead,
                      elapsed |-> elapsed]
        BY <2>1, Zenon DEF dead
      <4>2. proof'.grandchild_dead = dead
        BY <4>1, Zenon
      <4> QED
        BY <4>2, Zenon DEF dead
    <3> QED
      BY <3>1, <3>2, Zenon
  <2>5. ~AnyAlive => state["leaf"] = "gone"
    BY <2>3 DEF AnyAlive, Visible, TypeOK
  <2> QED
    BY <2>2, <2>3, <2>4, <2>5 DEF AcceptedMeansDead
<1>2. CASE proof' = proof
  <2> SUFFICES ASSUME MatrixAccepts
               PROVE  \A m \in Members : state'[m] = "gone"
    BY <1>2 DEF AcceptedMeansDead, MatrixAccepts
  <2>1. \A m \in Members : state[m] = "gone"
    BY DEF GroupInv, AcceptedMeansDead
  <2>2. pc = "dropped"
    BY DEF GroupInv, ChildInv, MatrixAccepts
  <2>3. state' = state
    <3>1. CASE OS
      BY <2>1, <3>1 DEF OS, LeaderForks, LeaderWrites, Dies, InitReaps,
                        ReaperReaps, CaptureEnds, osVars
    <3>2. CASE ~OS
      BY <2>2, <3>2 DEF Next, vars, osVars, Spawn, SpawnFails, GroupSpawn,
            ObserveLeader, LeaderUnobserved, CallRead, WaitForReportedTree,
            ReadTree, ReadFails, ObserveParent, ObserveGrandchild,
            Unobservable, CallKill, KillAndWait, KillNothing, KillGroup,
            KillFails, WaitReaps, Collected, CollectFails, Abandon, Drop,
            ProbeParent, ProbeGrandchildAndWrite
    <3> QED
      BY <3>1, <3>2
  <2> QED
    BY <2>1, <2>3
<1>3. proof' = proof \/ ProbeGrandchildAndWrite
  <2> USE DEF osVars, guardVars, smokeVars
  <2>1. CASE OS
    BY <2>1 DEF OS, LeaderForks, LeaderWrites, Dies, InitReaps, ReaperReaps,
                CaptureEnds
  <2>2. CASE Spawn \/ CallRead \/ CallKill \/ Abandon \/ Drop \/ ProbeParent
    BY <2>2 DEF Spawn, SpawnFails, GroupSpawn, ObserveLeader, LeaderUnobserved,
                CallRead, CallKill, Abandon, Drop, ProbeParent
  <2>3. CASE WaitForReportedTree
    BY <2>3 DEF WaitForReportedTree, ReadTree, ReadFails, ObserveParent,
                ObserveGrandchild, Unobservable, Cleanup
  <2>4. CASE KillAndWait
    BY <2>4 DEF KillAndWait, KillNothing, KillGroup, KillFails, WaitReaps,
                Collected, CollectFails, Return
  <2>5. CASE UNCHANGED vars
    BY <2>5 DEF vars
  <2> QED
    BY <2>1, <2>2, <2>3, <2>4, <2>5 DEF Next
<1> QED
  BY <1>1, <1>2, <1>3

(* The inductive invariant of the guard and its group. *)
THEOREM GroupInvariant == Spec => []GroupInv
<1>1. TypeOK /\ GroupInv /\ [Next]_vars => GroupInv'
  <2> SUFFICES ASSUME TypeOK, GroupInv, [Next]_vars
               PROVE  GroupInv'
    OBVIOUS
  <2>1. CASE UNCHANGED vars
    BY <2>1, AcceptedStep DEF vars, osVars, guardVars, smokeVars, GroupInv,
                              ChildInv, Alive
  <2>2. CASE Next
    BY <2>2, OSChildInv, CallerChildInv, AcceptedStep DEF GroupInv
  <2> QED
    BY <2>1, <2>2
<1> QED
  BY InitGroupInv, TypeCorrect, <1>1, PTL DEF Spec

(* Whatever the caller abandons, and in whatever order the members die:    *)
(* a dropped guard leaves nobody unkilled.                                 *)
THEOREM NothingSurvives == Spec => []NoSurvivors
<1>1. GroupInv => NoSurvivors
  BY DEF GroupInv, ChildInv, NoSurvivors
<1> QED
  BY <1>1, GroupInvariant, PTL

(* What a call returned about the group is true. *)
THEOREM ReturnsAreAlwaysTrue == Spec => []ReturnsAreTrue
<1>1. GroupInv => ReturnsAreTrue
  BY DEF GroupInv, ChildInv, ReturnsAreTrue
<1> QED
  BY <1>1, GroupInvariant, PTL

(* An accepted PlatformProcess proof is about a dead tree. *)
THEOREM AcceptedTreeIsDead == Spec => []AcceptedMeansDead
<1>1. GroupInv => AcceptedMeansDead
  BY DEF GroupInv
<1> QED
  BY <1>1, GroupInvariant, PTL
=============================================================================
