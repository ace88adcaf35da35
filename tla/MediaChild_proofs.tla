-------------------------- MODULE MediaChild_proofs --------------------------
(* Theorems about MediaChild, for every capacity, limit and output. *)
EXTENDS MediaChild, TLAPS

USE PipeAssumption, LimitAssumption, OutputAssumption, RetriesAssumption

(* The types and the invariant hold at first. *)
LEMMA InitInv == Init => TypeOK /\ CallInv
<1>1. Init => TypeOK
  <2>1. 0 \in 0..MaxOutput /\ 0 \in 0..PipeCapacity
        /\ 0 \in 0..StdoutLimit /\ 0 \in 0..BusyRetries
    OBVIOUS
  <2>2. Init => /\ todo \in [Streams -> 0..MaxOutput]
                /\ pipe \in [Streams -> 0..PipeCapacity]
                /\ reader \in [Streams -> {"reading", "overflow", "done", "error"}]
    BY <2>1 DEF Init
  <2> QED
    BY <2>1, <2>2 DEF Init, TypeOK, Kinds, Errors
<1>2. Init => ProcessInv /\ Accounting
  BY DEF Init, ProcessInv, Accounting, Streams, Errors, Capped, Closed
<1>3. Init => ReturnedIsReaped /\ NothingIsCut
  BY DEF Init, ReturnedIsReaped, NothingIsCut
<1> QED
  BY <1>1, <1>2, <1>3 DEF CallInv

(* A step of the child keeps the types. *)
LEMMA ChildType ==
  ASSUME TypeOK, ProcessInv, Child
  PROVE  TypeOK'
<1> USE DEF TypeOK, Streams, Errors, joinVars
<1>1. ASSUME NEW s \in Streams, ChildWrites(s)
      PROVE  TypeOK'
  <2>1. todo' \in [Streams -> 0..MaxOutput] /\ pipe' \in [Streams -> 0..PipeCapacity]
    BY <1>1 DEF ChildWrites
  <2>2. written' \in 0..MaxOutput
    BY <1>1 DEF ChildWrites, ProcessInv
  <2> QED
    BY <1>1, <2>1, <2>2 DEF ChildWrites
<1>2. CASE ChildExits
  BY <1>2 DEF ChildExits
<1>3. CASE ChildCrashes
  BY <1>3 DEF ChildCrashes
<1> QED
  BY <1>1, <1>2, <1>3 DEF Child

(* A read keeps the types. *)
LEMMA DrainType ==
  ASSUME TypeOK, Drain
  PROVE  TypeOK'
<1> USE DEF TypeOK, Streams, Errors, joinVars, procVars
<1>1. ASSUME NEW n \in 1..PipeCapacity, ReadOut(n)
      PROVE  TypeOK'
  <2>1. pipe' \in [Streams -> 0..PipeCapacity]
    BY <1>1 DEF ReadOut, Take
  <2>2. /\ reader' \in [Streams -> {"reading", "overflow", "done", "error"}]
        /\ retained' \in 0..StdoutLimit
        /\ truncated' \in BOOLEAN /\ finished' \in BOOLEAN
    <3>1. CASE ReadCapped(n)
      BY <1>1, <3>1 DEF ReadCapped, Keep, Becomes
    <3>2. CASE ReadRetained(n)
      BY <1>1, <3>2 DEF ReadRetained, Keep
    <3>3. CASE ReadProgress(n)
      BY <1>1, <3>3 DEF ReadProgress, Becomes
    <3> QED
      BY <1>1, <3>1, <3>2, <3>3 DEF ReadOut
  <2> QED
    BY <1>1, <2>1, <2>2 DEF ReadOut
<1>2. ASSUME NEW n \in 1..PipeCapacity, DrainOverflow(n)
      PROVE  TypeOK'
  BY <1>2 DEF DrainOverflow, Take
<1>3. ASSUME NEW n \in 1..PipeCapacity, ReadErr(n)
      PROVE  TypeOK'
  BY <1>3 DEF ReadErr, Take
<1>4. ASSUME NEW s \in Streams, EndOfPipe(s)
      PROVE  TypeOK'
  BY <1>4 DEF EndOfPipe, Becomes
<1>5. ASSUME NEW s \in Streams, ReadBreaks(s)
      PROVE  TypeOK'
  BY <1>5 DEF ReadBreaks
<1> QED
  BY <1>1, <1>2, <1>3, <1>4, <1>5 DEF Drain

(* Every other step keeps the types. *)
LEMMA CallType ==
  ASSUME TypeOK, Spawn \/ Join \/ DeadlinePasses \/ Cleanup
  PROVE  TypeOK'
<1> USE DEF TypeOK, Streams, Errors, joinVars, procVars
<1>1. CASE Spawn
  BY <1>1 DEF Spawn, SpawnRetries, SpawnFails, SpawnChild
<1>2. CASE Join
  BY <1>2 DEF Join, WaitChild, JoinCompletes, JoinFails
<1>3. CASE DeadlinePasses
  BY <1>3 DEF DeadlinePasses
<1>4. CASE Cleanup
  BY <1>4 DEF Cleanup, CleanupKills, CleanupReaps
<1> QED
  BY <1>1, <1>2, <1>3, <1>4

(* Whatever the child does, the process is accounted for. *)
LEMMA ChildStep ==
  ASSUME TypeOK, CallInv, Child
  PROVE  CallInv'
<1> USE DEF TypeOK, Streams, joinVars, CallInv, ProcessInv, Accounting,
            ReturnedIsReaped, NothingIsCut, Capped, Closed
<1>1. ASSUME NEW s \in Streams, ChildWrites(s)
      PROVE  CallInv'
  <2>1. CASE s = "out"
    <3>1. /\ todo'["out"] = todo["out"] - 1 /\ pipe'["out"] = pipe["out"] + 1
          /\ written' = written + 1
      BY <1>1, <2>1 DEF ChildWrites
    <3>2. child = "running" /\ child' = child
      BY <1>1 DEF ChildWrites
    <3>3. ProcessInv'
      BY <1>1, <3>1, <3>2 DEF ChildWrites
    <3>4. Accounting'
      BY <1>1, <3>1, <3>2 DEF ChildWrites
    <3>5. pc # "returned" /\ result # "ok"
      BY <3>2 DEF Errors
    <3>6. ReturnedIsReaped' /\ NothingIsCut'
      BY <1>1, <3>5 DEF ChildWrites
    <3> QED
      BY <3>3, <3>4, <3>6
  <2>2. CASE s # "out"
    <3>1. todo'["out"] = todo["out"] /\ pipe'["out"] = pipe["out"]
      BY <1>1, <2>2 DEF ChildWrites
    <3> QED
      BY <1>1, <2>2, <3>1 DEF ChildWrites
  <2> QED
    BY <2>1, <2>2
<1>2. CASE ChildExits
  BY <1>2 DEF ChildExits
<1>3. CASE ChildCrashes
  BY <1>3 DEF ChildCrashes
<1> QED
  BY <1>1, <1>2, <1>3 DEF Child

(* A read moves units from the pipe into what is kept, or remembers that   *)
(* it could not.                                                           *)
LEMMA DrainStep ==
  ASSUME TypeOK, CallInv, Drain
  PROVE  CallInv'
<1> USE DEF TypeOK, Streams, joinVars, procVars, CallInv, ProcessInv,
            Accounting, ReturnedIsReaped, NothingIsCut, Capped, Closed, Errors
<1>1. ASSUME NEW n \in 1..PipeCapacity, ReadOut(n)
      PROVE  CallInv'
  <2>1. CASE ReadCapped(n)
    BY <1>1, <2>1 DEF ReadOut, ReadCapped, Keep, Becomes, Take
  <2>2. CASE ReadRetained(n)
    <3>1. CASE retained + n > StdoutLimit
      <4>1. truncated' = TRUE
        BY <2>2, <3>1 DEF ReadRetained
      <4> QED
        BY <1>1, <2>2, <4>1 DEF ReadOut, ReadRetained, Keep, Take
    <3>2. CASE ~(retained + n > StdoutLimit)
      <4>1. truncated' = truncated
        BY <2>2, <3>2 DEF ReadRetained
      <4>2. retained' = retained + n
        BY <2>2, <3>2 DEF ReadRetained, Keep
      <4> QED
        BY <1>1, <2>2, <4>1, <4>2 DEF ReadOut, ReadRetained, Take
    <3> QED
      BY <3>1, <3>2
  <2>3. CASE ReadProgress(n)
    BY <1>1, <2>3 DEF ReadOut, ReadProgress, Becomes, Take
  <2> QED
    BY <1>1, <2>1, <2>2, <2>3 DEF ReadOut
<1>2. ASSUME NEW n \in 1..PipeCapacity, DrainOverflow(n)
      PROVE  CallInv'
  BY <1>2 DEF DrainOverflow, Take
<1>3. ASSUME NEW n \in 1..PipeCapacity, ReadErr(n)
      PROVE  CallInv'
  BY <1>3 DEF ReadErr, Take
<1>4. ASSUME NEW s \in Streams, EndOfPipe(s)
      PROVE  CallInv'
  BY <1>4 DEF EndOfPipe, Becomes
<1>5. ASSUME NEW s \in Streams, ReadBreaks(s)
      PROVE  CallInv'
  BY <1>5 DEF ReadBreaks
<1> QED
  BY <1>1, <1>2, <1>3, <1>4, <1>5 DEF Drain

(* The join ends only when all three are done, and every other end goes    *)
(* through the cleanup.                                                    *)
LEMMA CallStep ==
  ASSUME TypeOK, CallInv, Spawn \/ Join \/ DeadlinePasses \/ Cleanup
  PROVE  CallInv'
<1> USE DEF TypeOK, Streams, joinVars, procVars, CallInv, ProcessInv,
            Accounting, ReturnedIsReaped, NothingIsCut, Capped, Closed, Errors
<1>1. CASE Spawn
  <2>1. CASE SpawnRetries
    BY <2>1 DEF SpawnRetries
  <2>2. CASE SpawnFails
    BY <2>2 DEF SpawnFails
  <2>3. CASE SpawnChild
    BY <2>3 DEF SpawnChild
  <2> QED
    BY <1>1, <2>1, <2>2, <2>3 DEF Spawn
<1>2. CASE WaitChild
  BY <1>2 DEF WaitChild
<1>3. CASE JoinCompletes
  BY <1>3 DEF JoinCompletes, AllDone
<1>4. CASE JoinFails
  BY <1>4 DEF JoinFails
<1>5. CASE DeadlinePasses
  BY <1>5 DEF DeadlinePasses
<1>6. CASE CleanupKills
  BY <1>6 DEF CleanupKills
<1>7. CASE CleanupReaps
  BY <1>7 DEF CleanupReaps
<1> QED
  BY <1>1, <1>2, <1>3, <1>4, <1>5, <1>6, <1>7 DEF Join, Cleanup

(* The invariant of a call: it relates what was written, what is in the    *)
(* pipe and what was kept, and says who still has to reap the child.  The  *)
(* types are part of the induction, since what is written is bounded only  *)
(* together with what is left to write.                                    *)
THEOREM CallInvariant == Spec => [](TypeOK /\ CallInv)
<1>1. TypeOK /\ CallInv /\ [Next]_vars => TypeOK' /\ CallInv'
  <2> SUFFICES ASSUME TypeOK, CallInv, [Next]_vars
               PROVE  TypeOK' /\ CallInv'
    OBVIOUS
  <2>1. CASE UNCHANGED vars
    BY <2>1 DEF vars, procVars, joinVars, TypeOK, CallInv, ProcessInv,
                Accounting, ReturnedIsReaped, NothingIsCut, Capped, Closed
  <2>2. CASE Child
    BY <2>2, ChildType, ChildStep DEF CallInv
  <2>3. CASE Drain
    BY <2>3, DrainType, DrainStep
  <2>4. CASE Spawn \/ Join \/ DeadlinePasses \/ Cleanup
    BY <2>4, CallType, CallStep
  <2> QED
    BY <2>1, <2>2, <2>3, <2>4 DEF Next
<1> QED
  BY InitInv, <1>1, PTL DEF Spec

(* No call leaves a process behind, however it ends. *)
THEOREM NoCallLeavesAChild == Spec => []ReturnedIsReaped
<1>1. TypeOK /\ CallInv => ReturnedIsReaped
  BY DEF CallInv
<1> QED
  BY <1>1, CallInvariant, PTL

(* A call that succeeds hands on all that its child wrote. *)
THEOREM NoOutputIsCut == Spec => []NothingIsCut
<1>1. TypeOK /\ CallInv => NothingIsCut
  BY DEF CallInv
<1> QED
  BY <1>1, CallInvariant, PTL
=============================================================================
