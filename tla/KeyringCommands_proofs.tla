------------------------ MODULE KeyringCommands_proofs ------------------------
(***************************************************************************)
(* Proofs about KeyringCommands, for any set of processes.  A successful   *)
(* smoke leaves nothing behind because every step after the delete keeps   *)
(* SmokeInv; a checkpoint is lost to nothing but a race or a store that    *)
(* lies because every key in use is the stored one or a rival of it, and   *)
(* a rival of everyone who is still about to store one (KeyInv).           *)
(***************************************************************************)
EXTENDS KeyringCommands, TLAPS

USE KeyringAssumption

-----------------------------------------------------------------------------
(* Type correctness *)

StoreType == keyring \in [Accounts -> Processes \union {None}] /\ lied \in BOOLEAN

LEMMA CallsKeepStoreType ==
    ASSUME TypeOK, NEW account \in Accounts, NEW value \in Processes \union {None},
           Succeeds(account, value) \/ Fails(account, value)
    PROVE  StoreType'
<1>1. keyring' \in [Accounts -> Processes \union {None}]
  BY DEF Succeeds, Fails, TypeOK
<1>2. lied' \in BOOLEAN
  BY DEF Succeeds, Fails, TypeOK
<1> QED
  BY <1>1, <1>2 DEF StoreType

(* A smoke that moves on stays in the part of the code of its command.     *)
PlaceType ==
    /\ pc \in [Processes -> Places]
    /\ \A p \in Uploads : pc[p] \in Loading \union Ends
    /\ \A p \in Processes : command[p] = "checkpoint" =>
         pc[p] \in Loading \union Cleaning \union Ends
    /\ \A p \in Processes : command[p] = "keyring" =>
         pc[p] \in {"set", "get", "drop"} \union Cleaning \union Ends
    /\ \A p \in Processes : pc[p] = "use" => cipher[p] # None

LEMMA SmokeMoves ==
    ASSUME TypeOK, NEW p \in Processes, command[p] \in {"checkpoint", "keyring"},
           NEW to \in {"error", "delete", "get", "confirm", "report"},
           Goes(p, to), to = "get" => command[p] = "keyring",
           UNCHANGED <<command, cipher>>
    PROVE  PlaceType'
<1> USE DEF TypeOK, Goes, Loading, Cleaning, Ends, Places, Uploads
<1>1. pc' \in [Processes -> Places]
  OBVIOUS
<1>2. \A q \in Processes : pc'[q] = IF q = p THEN to ELSE pc[q]
  OBVIOUS
<1>3. \A q \in Uploads : pc'[q] \in Loading \union Ends
  BY <1>2
<1>4. \A q \in Processes : command[q] = "checkpoint" =>
        pc'[q] \in Loading \union Cleaning \union Ends
  BY <1>2
<1>5. \A q \in Processes : command[q] = "keyring" =>
        pc'[q] \in {"set", "get", "drop"} \union Cleaning \union Ends
  BY <1>2
<1>6. \A q \in Processes : pc'[q] = "use" => cipher[q] # None
  BY <1>2
<1> QED
  BY <1>1, <1>3, <1>4, <1>5, <1>6, Zenon DEF PlaceType

(* Every variable of the commands that share the credential store has its  *)
(* type, and each process stays in the part of the code of its command.    *)
THEOREM TypeCorrect == Spec => []TypeOK
<1>1. Init => TypeOK
  <2> SUFFICES ASSUME Init PROVE TypeOK
    OBVIOUS
  <2>1. /\ pc \in [Processes -> Places]
        /\ \A p \in Processes : pc[p] = IF command[p] = "keyring" THEN "set" ELSE "load"
    BY DEF Init, Places, Loading
  <2>2. armed \in [Processes -> BOOLEAN]
    BY DEF Init
  <2> QED
    BY <2>1, <2>2 DEF Init, TypeOK, Uploads, NoProof, Loading
<1>2. TypeOK /\ [Next]_vars => TypeOK'
  <2> SUFFICES ASSUME TypeOK, [Next]_vars PROVE TypeOK'
    OBVIOUS
  <2> USE DEF TypeOK, Accounts, Commands, Uploads, NoProof, Loading, Cleaning,
              Ends, Places
  <2>1. CASE UNCHANGED vars
    BY <2>1 DEF vars, storeVars, smokeVars, uploadVars
  <2>2. ASSUME NEW p \in Processes, Step(p), UNCHANGED command PROVE TypeOK'
    <3> USE <2>2 DEF storeVars, smokeVars, uploadVars, Goes, AccountOf, Smokes
    <3>1. CASE LoadKey(p)
      BY <3>1 DEF LoadKey
    <3>2. CASE FindNoKey(p)
      BY <3>2 DEF FindNoKey, Creating
    <3>0. \A account \in Accounts : \A value \in Processes \union {None} :
            Succeeds(account, value) \/ Fails(account, value) => StoreType'
      BY CallsKeepStoreType
    <3>3. CASE CreateKey(p)
      <4>1. StoreType'
        BY <3>0, <3>3 DEF CreateKey
      <4> QED
        BY <3>3, <4>1 DEF CreateKey, StoreType
    <3>4. CASE LoadFails(p)
      <4>1. failed' \in [Processes -> BOOLEAN]
        BY <3>4 DEF LoadFails, KeyError
      <4>2. UNCHANGED <<keyring, lied, unclean, cipher, armed, proof, record, answer, rivals>>
        BY <3>4 DEF LoadFails, KeyError
      <4>3. \E to \in {"error", "delete"} :
              /\ pc' = [pc EXCEPT ![p] = to]
              /\ to = "delete" => pc[p] = "load" /\ p \notin Uploads
        BY <3>4 DEF LoadFails, KeyError
      <4> QED
        BY <3>4, <4>1, <4>2, <4>3 DEF LoadFails
    <3>5. CASE CreateFails(p)
      <4>1. StoreType'
        BY <3>0, <3>5 DEF CreateFails
      <4>2. failed' \in [Processes -> BOOLEAN] /\ unclean' \in [Processes -> BOOLEAN]
        BY <3>5 DEF CreateFails, KeyError
      <4>3. UNCHANGED <<cipher, armed, proof, record, answer, rivals>>
        BY <3>5 DEF CreateFails, KeyError
      <4>4. \E to \in {"error", "delete", "get", "confirm", "report"} :
              /\ pc' = [pc EXCEPT ![p] = to]
              /\ to = "error" \/ command[p] \in {"checkpoint", "keyring"}
              /\ to = "get" => command[p] = "keyring"
        BY <3>5 DEF CreateFails, KeyError
      <4> QED
        BY <4>1, <4>2, <4>3, <4>4 DEF StoreType
    <3>6. CASE SealCheckpoint(p)
      BY <3>6 DEF SealCheckpoint
    <3>7. CASE OpenCheckpoint(p)
      BY <3>7 DEF OpenCheckpoint
    <3>8. CASE SetSecret(p)
      <4>1. StoreType'
        BY <3>0, <3>8 DEF SetSecret
      <4>2. failed' \in [Processes -> BOOLEAN] /\ unclean' \in [Processes -> BOOLEAN]
        BY <3>8 DEF SetSecret
      <4>3. UNCHANGED <<cipher, armed, proof, record, answer, rivals>>
        BY <3>8 DEF SetSecret
      <4>4. \E to \in {"error", "delete", "get", "confirm", "report"} :
              /\ pc' = [pc EXCEPT ![p] = to]
              /\ to = "error" \/ command[p] \in {"checkpoint", "keyring"}
              /\ to = "get" => command[p] = "keyring"
        BY <3>8 DEF SetSecret
      <4> QED
        BY <4>1, <4>2, <4>3, <4>4 DEF StoreType
    <3>9. CASE GetSecret(p)
      <4>1. PlaceType'
        <5>1. command[p] \in {"checkpoint", "keyring"}
          BY <3>9 DEF GetSecret
        <5>2. Goes(p, "delete") /\ UNCHANGED <<command, cipher>>
          BY <3>9 DEF GetSecret
        <5> QED
          BY <5>1, <5>2, SmokeMoves
      <4>2. failed' \in [Processes -> BOOLEAN]
        BY <3>9 DEF GetSecret
      <4>3. UNCHANGED <<keyring, lied, cipher, unclean, armed, proof, record, answer, rivals>>
        BY <3>9 DEF GetSecret
      <4> QED
        BY <4>1, <4>2, <4>3 DEF PlaceType
    <3>10. CASE TryCipher(p)
      BY <3>10 DEF TryCipher
    <3>11. CASE DeleteSecret(p)
      <4>1. StoreType'
        BY <3>0, <3>11 DEF DeleteSecret
      <4>2. failed' \in [Processes -> BOOLEAN]
        BY <3>11 DEF DeleteSecret
      <4>5. unclean' \in [Processes -> BOOLEAN]
        BY <3>11 DEF DeleteSecret
      <4>3. UNCHANGED <<cipher, armed, proof, record, answer, rivals>>
        BY <3>11 DEF DeleteSecret
      <4>4. PlaceType'
        <5>1. command[p] \in {"checkpoint", "keyring"}
          BY <3>11 DEF DeleteSecret
        <5>2. \E to \in {"confirm", "report"} : Goes(p, to) /\ UNCHANGED <<command, cipher>>
          BY <3>11 DEF DeleteSecret
        <5> QED
          BY <5>1, <5>2, SmokeMoves
      <4> QED
        BY <4>1, <4>2, <4>3, <4>4, <4>5 DEF StoreType, PlaceType
    <3>12. CASE Confirm(p)
      <4>1. PlaceType'
        <5>1. command[p] \in {"checkpoint", "keyring"}
          BY <3>12 DEF Confirm
        <5>2. Goes(p, "report") /\ UNCHANGED <<command, cipher>>
          BY <3>12 DEF Confirm
        <5> QED
          BY <5>1, <5>2, SmokeMoves
      <4>2. unclean' \in [Processes -> BOOLEAN] /\ armed' \in [Processes -> BOOLEAN]
        BY <3>12 DEF Confirm
      <4>3. \A q \in Processes : armed'[q] => armed[q]
        BY <3>12 DEF Confirm
      <4>4. UNCHANGED <<keyring, lied, cipher, failed, proof, record, answer, rivals>>
        BY <3>12 DEF Confirm
      <4> QED
        BY <4>1, <4>2, <4>3, <4>4 DEF PlaceType
    <3>13. CASE ReportSmoke(p)
      <4>1. proof' \in [Processes -> {NoProof, "accepted", "rejected"}]
        BY <3>13 DEF ReportSmoke
      <4>2. pc' \in [Processes -> Places] /\ pc'[p] \in Ends \union {"drop"}
        BY <3>13 DEF ReportSmoke
      <4>3. pc'[p] = "drop" => command[p] = "keyring"
        BY <3>13 DEF ReportSmoke
      <4> QED
        BY <3>13, <4>1, <4>2, <4>3 DEF ReportSmoke
    <3>14. CASE DropGuard(p)
      <4>1. StoreType'
        BY <3>0, <3>14 DEF DropGuard
      <4> QED
        BY <3>14, <4>1 DEF DropGuard, StoreType
    <3>15. CASE Dies(p)
      BY <3>15 DEF Dies, Over
    <3> QED
      BY <3>1, <3>2, <3>3, <3>4, <3>5, <3>6, <3>7, <3>8, <3>9, <3>10, <3>11,
         <3>12, <3>13, <3>14, <3>15 DEF Step
  <2> QED
    BY <2>1, <2>2 DEF Next
<1> QED
  BY <1>1, <1>2, PTL DEF Spec

-----------------------------------------------------------------------------
(* What an accepted proof of a smoke command says *)

(* Before the report nothing is claimed and the cleanup is not known to    *)
(* have failed until it has been tried; from the report on, a cleanup      *)
(* without an error means that the store was seen to be empty.             *)
SmokeInvFor(p) ==
    /\ pc[p] \in Loading \union {"set", "get", "delete", "confirm"} =>
         ~unclean[p] /\ proof[p] = NoProof
    /\ pc[p] = "report" => proof[p] = NoProof
    /\ pc[p] \in {"report", "drop", "ok", "error"} /\ ~unclean[p] =>
         keyring[p] = None /\ ~armed[p]
    /\ pc[p] = "ok" => proof[p] = "accepted"
    /\ proof[p] = "accepted" =>
         /\ ~unclean[p] /\ keyring[p] = None
         /\ pc[p] \in {"ok", "error", "drop", "crashed"}
    /\ pc[p] = "drop" => armed[p]

SmokeInv == \A p \in Smokes : SmokeInvFor(p)

LEMMA SmokeInvHolds == Spec => []SmokeInv
<1>1. Init => SmokeInv
  BY DEF Init, SmokeInv, SmokeInvFor, Smokes, NoProof, Loading, Commands
<1>2. TypeOK /\ SmokeInv /\ [Next]_vars => SmokeInv'
  <2> SUFFICES ASSUME TypeOK, SmokeInv, [Next]_vars,
                      NEW q \in Smokes'
               PROVE  SmokeInvFor(q)'
    BY DEF SmokeInv
  <2> q \in Smokes
    BY DEF Smokes, Next, vars
  <2> SmokeInvFor(q)
    BY DEF SmokeInv
  <2> USE DEF SmokeInvFor, Smokes, TypeOK, Accounts, Commands, Uploads, NoProof,
              Loading, Cleaning, Ends, Places
  <2>1. CASE UNCHANGED vars
    BY <2>1 DEF vars, storeVars, smokeVars, uploadVars
  <2>2. ASSUME NEW p \in Processes, Step(p), UNCHANGED command
        PROVE  SmokeInvFor(q)'
    <3> USE <2>2 DEF storeVars, smokeVars, uploadVars, Goes, AccountOf
    <3>1. CASE LoadKey(p)
      BY <3>1 DEF LoadKey
    <3>2. CASE FindNoKey(p)
      BY <3>2 DEF FindNoKey
    <3>3. CASE CreateKey(p)
      BY <3>3 DEF CreateKey, Succeeds
    <3>4. CASE LoadFails(p)
      BY <3>4 DEF LoadFails, KeyError
    <3>5. CASE CreateFails(p)
      BY <3>5 DEF CreateFails, Fails, KeyError
    <3>6. CASE SealCheckpoint(p)
      BY <3>6 DEF SealCheckpoint
    <3>7. CASE OpenCheckpoint(p)
      BY <3>7 DEF OpenCheckpoint
    <3>8. CASE SetSecret(p)
      BY <3>8 DEF SetSecret, Succeeds, Fails
    <3>9. CASE GetSecret(p)
      BY <3>9 DEF GetSecret
    <3>10. CASE TryCipher(p)
      BY <3>10 DEF TryCipher
    <3>11. CASE DeleteSecret(p)
      BY <3>11 DEF DeleteSecret, Succeeds, Fails
    <3>12. CASE Confirm(p)
      BY <3>12 DEF Confirm
    <3>13. CASE ReportSmoke(p)
      BY <3>13 DEF ReportSmoke, Passed
    <3>14. CASE DropGuard(p)
      BY <3>14 DEF DropGuard, Succeeds, Fails
    <3>15. CASE Dies(p)
      BY <3>15 DEF Dies, Over
    <3> QED
      BY <3>1, <3>2, <3>3, <3>4, <3>5, <3>6, <3>7, <3>8, <3>9, <3>10, <3>11,
         <3>12, <3>13, <3>14, <3>15 DEF Step
  <2> QED
    BY <2>1, <2>2 DEF Next
<1> QED
  BY <1>1, <1>2, TypeCorrect, PTL DEF Spec

(* An accepted smoke proof and a successful exit mean that the credential  *)
(* of keyring_smoke or checkpoint_smoke is gone from the store, whatever   *)
(* calls of the store failed or lied.                                      *)
THEOREM SmokeTellsTheTruth == Spec => []AcceptedLeavesNothing
<1>1. TypeOK /\ SmokeInv => AcceptedLeavesNothing
  BY DEF TypeOK, SmokeInv, SmokeInvFor, AcceptedLeavesNothing, Over, Smokes, Ends,
         NoProof
<1> QED
  BY <1>1, TypeCorrect, SmokeInvHolds, PTL

-----------------------------------------------------------------------------
(* What becomes of the key of the checkpoints *)

(* The keys that are stored, or that an upload command or a checkpoint     *)
(* depends on.                                                             *)
Held == ({keyring[Upload]} \union {cipher[p] : p \in Uploads}
           \union {record[p] : p \in Processes}) \ {None}

CreatorsAreRivals ==
    \A p, q \in Creating : p # q => p \in rivals[q]

HeldKeysMeet == \A k \in Held : \A q \in Creating : k = q \/ q \in rivals[k]

HeldKeysKnown ==
    \A k \in Held :
        keyring[Upload] # None /\
        (k = keyring[Upload] \/ keyring[Upload] \in rivals[k])

Refusals ==
    \A r \in Processes :
        answer[r] = "refused" => lied \/ \E p \in Processes : rivals[p] # {}

KeyInv ==
    /\ lied \/ (CreatorsAreRivals /\ HeldKeysMeet /\ HeldKeysKnown)
    /\ Refusals

LEMMA HeldAreProcesses == TypeOK => Held \subseteq Processes
  BY DEF TypeOK, Held, Accounts, Uploads

(* Nothing that the invariant speaks of gets worse when no key is stored,  *)
(* found or created.                                                       *)
LEMMA FewerHeld ==
    ASSUME TypeOK, KeyInv, UNCHANGED <<rivals, answer>>,
           lied' = lied, keyring'[Upload] = keyring[Upload],
           Held' \subseteq Held, Creating' \subseteq Creating
    PROVE  KeyInv'
<1>1. CASE lied
  BY <1>1 DEF KeyInv, Refusals
<1>2. CASE ~lied
  BY <1>2 DEF KeyInv, Refusals, CreatorsAreRivals, HeldKeysMeet, HeldKeysKnown
<1> QED
  BY <1>1, <1>2

LEMMA KeyInvHolds == Spec => []KeyInv
<1>1. Init => KeyInv
  BY DEF Init, KeyInv, Held, CreatorsAreRivals, HeldKeysMeet, HeldKeysKnown,
         Refusals, Creating, Uploads, Accounts
<1>2. TypeOK /\ KeyInv /\ [Next]_vars => KeyInv'
  <2> SUFFICES ASSUME TypeOK, KeyInv, [Next]_vars PROVE KeyInv'
    OBVIOUS
  <2> Held \subseteq Processes
    BY HeldAreProcesses
  <2>1. CASE UNCHANGED vars
    BY <2>1 DEF vars, storeVars, smokeVars, uploadVars, KeyInv, Held,
                CreatorsAreRivals, HeldKeysMeet, HeldKeysKnown, Refusals,
                Creating, Uploads
  <2>2. ASSUME NEW p \in Processes, Step(p), UNCHANGED command PROVE KeyInv'
    <3> USE <2>2 DEF storeVars, smokeVars, uploadVars
    <3> Uploads' = Uploads
      BY DEF Uploads
    <3>1. CASE LoadKey(p)
      <4>1. Held' \subseteq Held /\ Creating' \subseteq Creating
        BY <3>1 DEF LoadKey, Held, Creating, Goes, AccountOf, TypeOK, Uploads,
                    Smokes, Accounts
      <4> QED
        BY <4>1, <3>1, FewerHeld DEF LoadKey
    <3>2. CASE FindNoKey(p)
      <4>1. CASE p \notin Uploads
        <5>1. Held' \subseteq Held /\ Creating' \subseteq Creating
          BY <3>2, <4>1 DEF FindNoKey, Held, Creating, Goes, TypeOK
        <5> QED
          BY <5>1, <4>1, <3>2, FewerHeld DEF FindNoKey
      <4>2. CASE p \in Uploads
        <5>1. keyring[Upload] = None
          BY <3>2, <4>2 DEF FindNoKey, AccountOf, Uploads, Smokes, TypeOK
        <5>2. rivals' = [q \in Processes |->
                           IF q = p THEN rivals[p] \union Creating
                           ELSE IF q \in Creating THEN rivals[q] \union {p}
                           ELSE rivals[q]]
          BY <3>2, <4>2 DEF FindNoKey
        <5>3. Creating' = Creating \union {p} /\ Creating \subseteq Processes
          BY <3>2, <4>2 DEF FindNoKey, Creating, Goes, TypeOK, Uploads
        <5>4. Held' = Held
          BY <3>2 DEF FindNoKey, Held
        <5>5. UNCHANGED <<lied, answer, keyring>>
          BY <3>2 DEF FindNoKey
        <5>6. \A q \in Processes : rivals[q] \subseteq rivals'[q]
          BY <5>2 DEF TypeOK
        <5>7. Refusals'
          <6> SUFFICES ASSUME NEW r \in Processes, answer'[r] = "refused", ~lied'
                       PROVE  \E x \in Processes : rivals'[x] # {}
            BY DEF Refusals
          <6>1. PICK x \in Processes : rivals[x] # {}
            BY <5>5 DEF KeyInv, Refusals
          <6> QED
            BY <6>1, <5>6
        <5>8. CASE lied
          BY <5>7, <5>8, <5>5 DEF KeyInv
        <5>9. CASE ~lied
          <6>1. Held = {}
            BY <5>1, <5>9 DEF KeyInv, HeldKeysKnown
          <6>2. CreatorsAreRivals'
            BY <5>2, <5>3, <5>9 DEF KeyInv, CreatorsAreRivals, TypeOK
          <6> QED
            BY <6>1, <6>2, <5>4, <5>7 DEF KeyInv, HeldKeysMeet, HeldKeysKnown
        <5> QED
          BY <5>8, <5>9
      <4> QED
        BY <4>1, <4>2
    <3>3. CASE CreateKey(p) \/ CreateFails(p)
      <4>0. UNCHANGED <<rivals, answer, record>>
        BY <3>3 DEF CreateKey, CreateFails
      <4>1. Creating' \subseteq Creating \ {p}
        BY <3>3 DEF CreateKey, CreateFails, KeyError, Creating, Goes, TypeOK,
                    Uploads, Smokes
      <4>2. CASE p \notin Uploads
        <5>1. AccountOf(p) = p
          BY <4>2 DEF AccountOf, Uploads, Smokes, TypeOK, Commands
        <5>2. keyring'[Upload] = keyring[Upload] /\ lied' = lied
          BY <3>3, <5>1 DEF CreateKey, CreateFails, Succeeds, Fails, TypeOK,
                            Accounts
        <5>3. Held' \subseteq Held
          BY <3>3, <4>2, <4>0, <5>2 DEF CreateKey, CreateFails, Held, TypeOK,
                                        Uploads
        <5> QED
          BY <4>0, <4>1, <5>2, <5>3, FewerHeld
      <4>3. CASE p \in Uploads
        <5>1. AccountOf(p) = Upload /\ p \in Creating
          BY <3>3, <4>3 DEF AccountOf, Uploads, Smokes, CreateKey, CreateFails,
                            Creating
        <5>2. CASE lied' \/ lied
          <6>1. lied'
            BY <5>2, <3>3 DEF CreateKey, CreateFails, Succeeds, Fails
          <6> QED
            BY <6>1 DEF KeyInv, Refusals
        <5>3. CASE ~lied /\ ~lied'
          <6>0. Refusals'
            BY <5>3, <4>0 DEF KeyInv, Refusals
          <6>1. CASE keyring'[Upload] = p
            <7>1. Held' \subseteq Held \union {p}
              BY <6>1, <3>3, <4>0 DEF CreateKey, CreateFails, Held, TypeOK,
                                      Uploads
            <7>2. CreatorsAreRivals'
              BY <4>0, <4>1, <5>3 DEF KeyInv, CreatorsAreRivals
            <7>3. HeldKeysMeet'
              BY <7>1, <4>0, <4>1, <5>1, <5>3
                 DEF KeyInv, HeldKeysMeet, CreatorsAreRivals
            <7>4. HeldKeysKnown'
              BY <7>1, <4>0, <5>1, <5>3, <6>1
                 DEF KeyInv, HeldKeysMeet, HeldKeysKnown, Accounts
            <7> QED
              BY <6>0, <7>2, <7>3, <7>4 DEF KeyInv
          <6>2. CASE keyring'[Upload] # p
            <7>1. CreateFails(p) /\ UNCHANGED <<keyring, cipher>>
              BY <6>2, <3>3, <5>1, <5>3
                 DEF CreateKey, CreateFails, Succeeds, Fails, TypeOK, Accounts
            <7>2. Held' \subseteq Held
              BY <7>1, <4>0 DEF Held
            <7> QED
              BY <4>0, <4>1, <5>3, <7>1, <7>2, FewerHeld DEF CreateFails, Fails
          <6> QED
            BY <6>1, <6>2
        <5> QED
          BY <5>2, <5>3
      <4> QED
        BY <4>2, <4>3
    <3>4. CASE LoadFails(p)
      <4>1. Held' \subseteq Held /\ Creating' \subseteq Creating
        BY <3>4 DEF LoadFails, KeyError, Held, Creating, Goes, TypeOK, Uploads
      <4> QED
        BY <4>1, <3>4, FewerHeld DEF LoadFails
    <3>5. CASE SealCheckpoint(p)
      <4>1. Creating' \subseteq Creating
        BY <3>5 DEF SealCheckpoint, Creating, Goes, TypeOK, Uploads
      <4>2. p \in Uploads
        BY <3>5 DEF SealCheckpoint, Uploads
      <4>3. Held' \subseteq Held
        BY <3>5, <4>2 DEF SealCheckpoint, Held, TypeOK
      <4> QED
        BY <4>1, <4>3, <3>5, FewerHeld DEF SealCheckpoint
    <3>6. CASE OpenCheckpoint(p)
      <4>1. Creating' \subseteq Creating /\ Held' = Held
        BY <3>6 DEF OpenCheckpoint, Creating, Goes, TypeOK, Held, Uploads
      <4>2. UNCHANGED <<rivals, lied, keyring>>
        BY <3>6 DEF OpenCheckpoint
      <4>3. Refusals'
        <5> SUFFICES ASSUME NEW r \in Processes, answer'[r] = "refused", ~lied
                     PROVE  \E x \in Processes : rivals[x] # {}
          BY <4>2 DEF Refusals
        <5>1. CASE answer[r] = "refused"
          BY <5>1 DEF KeyInv, Refusals
        <5>2. CASE answer[r] # "refused"
          <6>1. PICK s \in Processes : record[s] # None /\ record[s] # cipher[p]
            BY <3>6, <5>2 DEF OpenCheckpoint, TypeOK
          <6>2. record[s] \in Held
            BY <6>1 DEF Held
          <6>3. cipher[p] = None \/ cipher[p] \in Held
            BY <3>6 DEF Held, OpenCheckpoint, Uploads
          <6>4. keyring[Upload] \in rivals[record[s]] \/ cipher[p] = None
                  \/ keyring[Upload] \in rivals[cipher[p]]
            BY <6>1, <6>2, <6>3 DEF KeyInv, HeldKeysKnown
          <6>5. cipher[p] # None
            BY <3>6 DEF OpenCheckpoint, TypeOK
          <6> QED
            BY <6>2, <6>3, <6>4, <6>5
        <5> QED
          BY <5>1, <5>2
      <4> QED
        BY <4>1, <4>2, <4>3 DEF KeyInv, CreatorsAreRivals, HeldKeysMeet,
                                HeldKeysKnown
    <3>7. CASE \/ SetSecret(p) \/ GetSecret(p) \/ TryCipher(p)
               \/ DeleteSecret(p) \/ Confirm(p) \/ ReportSmoke(p)
               \/ DropGuard(p) \/ Dies(p)
      <4>1. Creating' \subseteq Creating
        BY <3>7 DEF SetSecret, GetSecret, TryCipher, DeleteSecret, Confirm,
                    ReportSmoke, DropGuard, Dies, Creating, Goes, TypeOK, Uploads
      <4>2. UNCHANGED <<cipher, record, answer, rivals>>
        BY <3>7 DEF SetSecret, GetSecret, TryCipher, DeleteSecret, Confirm,
                    ReportSmoke, DropGuard, Dies
      <4>3. keyring'[Upload] = keyring[Upload] /\ lied' = lied
        BY <3>7 DEF SetSecret, GetSecret, TryCipher, DeleteSecret, Confirm,
                    ReportSmoke, DropGuard, Dies, Succeeds, Fails, TypeOK,
                    Accounts
      <4>4. Held' \subseteq Held
        BY <4>2, <4>3 DEF Held
      <4> QED
        BY <4>1, <4>2, <4>3, <4>4, FewerHeld
    <3> QED
      BY <3>1, <3>2, <3>3, <3>4, <3>5, <3>6, <3>7 DEF Step
  <2> QED
    BY <2>1, <2>2 DEF Next
<1> QED
  BY <1>1, <1>2, TypeCorrect, PTL DEF Spec

(* A checkpoint of stage-upload is lost, and refused to resume-analyze,    *)
(* only if two processes created the first key at the same time in         *)
(* load_or_create, or the store claimed to have stored a key that it had   *)
(* not.                                                                    *)
THEOREM CheckpointsStayReadable == Spec => []CheckpointsOpen
<1>1. KeyInv => CheckpointsOpen
  BY DEF KeyInv, CheckpointsOpen, Refusals, HeldKeysKnown, Held
<1> QED
  BY <1>1, KeyInvHolds, PTL
=============================================================================
