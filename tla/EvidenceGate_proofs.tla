------------------------- MODULE EvidenceGate_proofs -------------------------
(***************************************************************************)
(* Proofs about the acceptance rules and about the gate that applies them, *)
(* for every matrix, every directory, every order in which it is read and  *)
(* any number of changes to it.                                            *)
(***************************************************************************)
EXTENDS EvidenceGate, TLAPS

-----------------------------------------------------------------------------
(* The acceptance rules against their reference, for every matrix and      *)
(* every sequence of proofs.                                               *)

(* The components whose proofs are compared belong to one spike.           *)
LEMMA ComponentsOfSpikes ==
    ASSUME NEW row, row.spike \in SpikeIds
    PROVE  /\ row.spike = "gemini" <=>
                "gemini_stage" \in RequiredComponents(row)
           /\ row.spike = "gemini" <=>
                "gemini_resume" \in RequiredComponents(row)
           /\ row.spike = "distribution" <=>
                "distribution_ffmpeg" \in RequiredComponents(row)
           /\ row.spike = "distribution" <=>
                "distribution_package" \in RequiredComponents(row)
           /\ row.spike = "distribution" <=>
                "distribution_update" \in RequiredComponents(row)
  <1>1. CASE row.spike = "preview"
    BY <1>1 DEF RequiredComponents
  <1>2. CASE row.spike = "media" /\ row.backend = "cpu-fallback"
    BY <1>2 DEF RequiredComponents
  <1>3. CASE row.spike = "media" /\ row.backend # "cpu-fallback"
    BY <1>3 DEF RequiredComponents
  <1>4. CASE row.spike = "gemini"
    BY <1>4 DEF RequiredComponents
  <1>5. CASE row.spike = "platform"
    BY <1>5 DEF RequiredComponents
  <1>6. CASE row.spike = "distribution"
    BY <1>6 DEF RequiredComponents
  <1> QED  BY <1>1, <1>2, <1>3, <1>4, <1>5, <1>6 DEF SpikeIds

(* Among admitted proofs the key tells a proof.                            *)
LEMMA KeysAreUnique ==
    ASSUME NEW matrix, NEW D, NEW proofs \in Seq(D),
           EachAdmitted(matrix, proofs),
           NEW i \in DOMAIN proofs, NEW j \in DOMAIN proofs,
           Key(proofs[i]) = Key(proofs[j])
    PROVE  i = j
  <1>1. i \in Nat /\ j \in Nat /\ i >= 1 /\ j >= 1
    OBVIOUS
  <1>2. ~(i < j)
    <2> SUFFICES ASSUME i < j PROVE FALSE
      OBVIOUS
    <2>1. i \in 1 .. j - 1
      BY <1>1
    <2> QED  BY <2>1 DEF EachAdmitted
  <1>3. ~(j < i)
    <2> SUFFICES ASSUME j < i PROVE FALSE
      OBVIOUS
    <2>1. j \in 1 .. i - 1
      BY <1>1
    <2> QED  BY <2>1 DEF EachAdmitted
  <1> QED  BY <1>1, <1>2, <1>3

(* Where no proof is foreign, `find' returns the row's own proof, and      *)
(* every own proof of a row is the one that `find' returns.                *)
LEMMA FirstIsOwn ==
    ASSUME NEW matrix, MatrixIsCanonical(matrix),
           NEW D, NEW proofs \in Seq(D),
           EachAdmitted(matrix, proofs), NoneForeign(proofs),
           NEW row \in matrix, NEW component,
           NEW spike \in {"gemini", "distribution"}, row.spike = spike,
           \A m \in matrix :
              component \in RequiredComponents(m) => m.spike = spike,
           NEW i \in DOMAIN proofs
    PROVE  IsFirst(proofs, i, component, row.target)
             <=> i \in Holders(proofs, row, component)
  <1>1. ASSUME NEW k \in DOMAIN proofs,
               proofs[k].component = component,
               proofs[k].row.target = row.target
        PROVE  Key(proofs[k]) = <<row, component>>
    <2>1. proofs[k].row \in matrix
      BY DEF EachAdmitted
    <2>2. proofs[k].row.spike = spike
      BY <1>1, <2>1 DEF NoneForeign
    <2>3. proofs[k].row = row
      BY <1>1, <2>1, <2>2 DEF MatrixIsCanonical
    <2> QED  BY <1>1, <2>3 DEF Key
  <1>2. ASSUME IsFirst(proofs, i, component, row.target)
        PROVE  i \in Holders(proofs, row, component)
    BY <1>1, <1>2 DEF IsFirst, Holders
  <1>3. ASSUME i \in Holders(proofs, row, component)
        PROVE  IsFirst(proofs, i, component, row.target)
    <2>1. /\ Key(proofs[i]) = <<row, component>>
          /\ proofs[i].component = component
          /\ proofs[i].row.target = row.target
      BY <1>3 DEF Holders, Key
    <2>2. ASSUME NEW k \in 1 .. i - 1,
                 proofs[k].component = component,
                 proofs[k].row.target = row.target
          PROVE  FALSE
      <3>1. k \in DOMAIN proofs /\ k # i
        OBVIOUS
      <3>2. Key(proofs[k]) = Key(proofs[i])
        BY <1>1, <2>1, <2>2, <3>1
      <3> QED  BY <3>1, <3>2, KeysAreUnique
    <2> QED  BY <2>1, <2>2 DEF IsFirst
  <1> QED  BY <1>2, <1>3

(* What evaluate_proofs compares is what each row's own proofs must share. *)
LEMMA RelationshipsAreOwn ==
    ASSUME NEW matrix, MatrixIsCanonical(matrix),
           NEW D, NEW proofs \in Seq(D),
           EachAdmitted(matrix, proofs), NoneForeign(proofs)
    PROVE  GeminiRelationships(matrix, proofs)
             /\ DistributionRelationships(matrix, proofs)
             <=> OwnProofsAgree(matrix, proofs)
  <1> DEFINE First(i, component, row) ==
                 IsFirst(proofs, i, component, row.target)
             Own(i, component, row) == i \in Holders(proofs, row, component)
  <1>1. ASSUME NEW row \in matrix, row.spike = "gemini",
               NEW i \in DOMAIN proofs
        PROVE  /\ First(i, "gemini_stage", row)
                    <=> Own(i, "gemini_stage", row)
               /\ First(i, "gemini_resume", row)
                    <=> Own(i, "gemini_resume", row)
    <2>1. \A m \in matrix :
            /\ "gemini_stage" \in RequiredComponents(m) => m.spike = "gemini"
            /\ "gemini_resume" \in RequiredComponents(m) => m.spike = "gemini"
      BY ComponentsOfSpikes DEF MatrixIsCanonical
    <2> QED  BY <1>1, <2>1, FirstIsOwn
  <1>2. ASSUME NEW row \in matrix, row.spike = "distribution",
               NEW i \in DOMAIN proofs
        PROVE  /\ First(i, "distribution_ffmpeg", row)
                    <=> Own(i, "distribution_ffmpeg", row)
               /\ First(i, "distribution_package", row)
                    <=> Own(i, "distribution_package", row)
               /\ First(i, "distribution_update", row)
                    <=> Own(i, "distribution_update", row)
    <2>1. \A m \in matrix :
            /\ "distribution_ffmpeg" \in RequiredComponents(m)
                 => m.spike = "distribution"
            /\ "distribution_package" \in RequiredComponents(m)
                 => m.spike = "distribution"
            /\ "distribution_update" \in RequiredComponents(m)
                 => m.spike = "distribution"
      BY ComponentsOfSpikes DEF MatrixIsCanonical
    <2> QED  BY <1>2, <2>1, FirstIsOwn
  <1>3. \A row, component, i : Own(i, component, row) => i \in DOMAIN proofs
    BY DEF Holders
  <1> HIDE DEF First, Own
  <1>4. GeminiRelationships(matrix, proofs) <=>
          \A row \in matrix : row.spike = "gemini" =>
            \A s, r \in DOMAIN proofs :
               First(s, "gemini_stage", row) /\ First(r, "gemini_resume", row)
               => SameSession(proofs[s], proofs[r])
    BY DEF GeminiRelationships, First
  <1>5. DistributionRelationships(matrix, proofs) <=>
          \A row \in matrix : row.spike = "distribution" =>
            \A f, p, u \in DOMAIN proofs :
               /\ First(f, "distribution_ffmpeg", row)
               /\ First(p, "distribution_package", row)
               /\ First(u, "distribution_update", row)
               => SameRelease(proofs[f], proofs[p], proofs[u])
    BY DEF DistributionRelationships, First
  <1>6. OwnProofsAgree(matrix, proofs) <=>
          /\ \A row \in matrix : row.spike = "gemini" =>
               \A s, r :
                  Own(s, "gemini_stage", row) /\ Own(r, "gemini_resume", row)
                  => SameSession(proofs[s], proofs[r])
          /\ \A row \in matrix : row.spike = "distribution" =>
               \A f, p, u :
                  /\ Own(f, "distribution_ffmpeg", row)
                  /\ Own(p, "distribution_package", row)
                  /\ Own(u, "distribution_update", row)
                  => SameRelease(proofs[f], proofs[p], proofs[u])
    BY DEF OwnProofsAgree, Own
  <1> QED  BY <1>1, <1>2, <1>3, <1>4, <1>5, <1>6

(* Acceptance means one sound proof for everything the matrix requires,    *)
(* whatever else the sequence holds.                                       *)
THEOREM AcceptedCoversMatrix ==
    ASSUME NEW matrix, NEW D, NEW proofs \in Seq(D),
           EvaluateProofs(matrix, proofs)
    PROVE  CoversMatrix(matrix, proofs)
  <1> SUFFICES ASSUME NEW row \in matrix,
                      NEW component \in RequiredComponents(row)
               PROVE  \E i \in DOMAIN proofs :
                         /\ Holders(proofs, row, component) = {i}
                         /\ proofs[i].sound
    BY DEF CoversMatrix
  <1>1. PICK i \in DOMAIN proofs : Key(proofs[i]) = <<row, component>>
    BY DEF EvaluateProofs, NoneMissing
  <1>2. EachAdmitted(matrix, proofs)
    BY DEF EvaluateProofs
  <1>3. ASSUME NEW j \in Holders(proofs, row, component)
        PROVE  j = i
    BY <1>1, <1>2, KeysAreUnique DEF Holders
  <1>4. Holders(proofs, row, component) = {i}
    BY <1>1, <1>3 DEF Holders
  <1> QED  BY <1>2, <1>4 DEF EachAdmitted, MeetsThresholds

(* What covers a matrix and holds nothing else is admitted.                *)
LEMMA ExactIsAdmitted ==
    ASSUME NEW matrix, NEW D, NEW proofs \in Seq(D),
           CoversMatrix(matrix, proofs), OnlyRequired(matrix, proofs)
    PROVE  EachAdmitted(matrix, proofs) /\ NoneMissing(matrix, proofs)
  <1>1. ASSUME NEW i \in DOMAIN proofs
        PROVE  /\ proofs[i].row \in matrix
               /\ Holders(proofs, proofs[i].row, proofs[i].component) = {i}
               /\ proofs[i].sound
    <2>1. /\ proofs[i].row \in matrix
          /\ proofs[i].component \in RequiredComponents(proofs[i].row)
      BY DEF OnlyRequired
    <2>2. PICK j \in DOMAIN proofs :
             /\ Holders(proofs, proofs[i].row, proofs[i].component) = {j}
             /\ proofs[j].sound
      BY <2>1 DEF CoversMatrix
    <2>3. i \in Holders(proofs, proofs[i].row, proofs[i].component)
      BY DEF Holders, Key
    <2>4. i = j
      BY <2>2, <2>3
    <2> QED  BY <2>1, <2>2, <2>4
  <1>2. ASSUME NEW i \in DOMAIN proofs, NEW k \in 1 .. i - 1
        PROVE  Key(proofs[k]) # Key(proofs[i])
    <2> SUFFICES ASSUME Key(proofs[k]) = Key(proofs[i]) PROVE FALSE
      OBVIOUS
    <2>1. k \in DOMAIN proofs /\ k # i
      OBVIOUS
    <2>2. k \in Holders(proofs, proofs[i].row, proofs[i].component)
      BY <2>1 DEF Holders, Key
    <2> QED  BY <1>1, <2>1, <2>2
  <1>3. EachAdmitted(matrix, proofs)
    BY <1>1, <1>2 DEF EachAdmitted, MeetsThresholds
  <1>4. NoneMissing(matrix, proofs)
    BY DEF CoversMatrix, NoneMissing, Holders
  <1> QED  BY <1>3, <1>4

(* Without foreign proofs, evaluate_proofs accepts exactly the acceptable  *)
(* sequences, and so its answer does not depend on their order.            *)
THEOREM EvaluationIsReference ==
    ASSUME NEW matrix, MatrixIsCanonical(matrix),
           NEW D, NEW proofs \in Seq(D), NoneForeign(proofs)
    PROVE  EvaluateProofs(matrix, proofs) <=> Acceptable(matrix, proofs)
  <1>1. ASSUME EvaluateProofs(matrix, proofs)
        PROVE  Acceptable(matrix, proofs)
    <2>1. EachAdmitted(matrix, proofs)
      BY <1>1 DEF EvaluateProofs
    <2>2. CoversMatrix(matrix, proofs)
      BY <1>1, AcceptedCoversMatrix
    <2>3. OnlyRequired(matrix, proofs)
      BY <2>1 DEF OnlyRequired, EachAdmitted, NoneForeign
    <2>4. OwnProofsAgree(matrix, proofs)
      BY <1>1, <2>1, RelationshipsAreOwn DEF EvaluateProofs
    <2> QED  BY <2>2, <2>3, <2>4 DEF Acceptable
  <1>2. ASSUME Acceptable(matrix, proofs)
        PROVE  EvaluateProofs(matrix, proofs)
    <2>1. EachAdmitted(matrix, proofs) /\ NoneMissing(matrix, proofs)
      BY <1>2, ExactIsAdmitted DEF Acceptable
    <2> QED  BY <1>2, <2>1, RelationshipsAreOwn DEF Acceptable, EvaluateProofs
  <1> QED  BY <1>1, <1>2

-----------------------------------------------------------------------------
(* Types *)

(* What the gate has in hand while it looks at a file.                     *)
HandInv ==
    /\ pc \in {"open", "read", "confirm"} => todo # <<>>
    /\ pc \in {"read", "confirm"} => opened \in Files
    /\ pc \in {"report", "done"} <=> verdict # "none"

TypeInv == TypeOK /\ HandInv

(* The next name, while there is one, is a name.                           *)
LEMMA HeadIsName ==
    ASSUME TypeInv, todo # <<>>
    PROVE  Head(todo) \in Names /\ Entry \in Files \union {Absent}
  BY DEF TypeInv, TypeOK, Entry

LEMMA JudgedIsDocuments ==
    ASSUME TypeOK
    PROVE  Judged \in Seq(Documents)
  <1>1. sources \in Seq(Files)
    BY DEF TypeOK
  <1>2. DOMAIN sources = 1 .. Len(sources) /\ Len(sources) \in Nat
    BY <1>1
  <1>3. \A i \in 1 .. Len(sources) : sources[i].document \in Documents
    <2>1. \A i \in 1 .. Len(sources) : sources[i] \in Files
      BY <1>1
    <2> QED  BY <2>1 DEF Files
  <1>4. Judged \in [1 .. Len(sources) -> Documents]
    BY <1>2, <1>3 DEF Judged
  <1> QED  BY <1>2, <1>4

LEMMA InitType == Init => TypeInv
  <1> SUFFICES ASSUME Init PROVE TypeInv
    OBVIOUS
  <1>1. directory \in [Names -> Files \union {Absent}]
    BY GateAssumption DEF Init, Files
  <1>2. changes \in 0 .. MaxChanges
    BY GateAssumption DEF Init
  <1>3. report \in Reports
    BY DEF Init, OldReport, Reports
  <1> QED  BY <1>1, <1>2, <1>3 DEF Init, TypeInv, TypeOK, HandInv

LEMMA NextType == TypeInv /\ [Next]_vars => TypeInv'
  <1> SUFFICES ASSUME TypeInv, [Next]_vars PROVE TypeInv'
    OBVIOUS
  <1> USE GateAssumption
      DEF TypeInv, TypeOK, HandInv, diskVars, lintVars, endVars, Decide
  <1>1. CASE LoadMatrix
    BY <1>1 DEF LoadMatrix
  <1>2. CASE Collect
    BY <1>2 DEF Collect
  <1>3. CASE Look
    <2>1. Entry \in Files \union {Absent}
      BY <1>3, HeadIsName DEF Look
    <2>2. Entry.inode \in Nat
      BY <2>1 DEF Files, Absent
    <2> QED  BY <1>3, <2>2 DEF Look, OrReject
  <1>4. CASE Open
    <2>1. Entry \in Files \union {Absent}
      BY <1>4, HeadIsName DEF Open
    <2> QED  BY <1>4, <2>1 DEF Open, OrReject
  <1>5. CASE Read
    BY <1>5 DEF Read, OrReject
  <1>6. CASE Confirm
    <2>1. opened \in Files /\ todo # <<>>
      BY <1>6 DEF Confirm
    <2>2. sources' \in Seq(Files) /\ todo' \in Seq(Names)
      BY <1>6, <2>1 DEF Confirm
    <2> QED  BY <1>6, <2>2 DEF Confirm, OrReject
  <1>7. CASE LintEnds
    BY <1>7 DEF LintEnds
  <1>8. CASE Judge
    BY <1>8 DEF Judge
  <1>9. CASE WriteReport
    <2>1. NewReport \in Reports
      BY <1>9, JudgedIsDocuments DEF WriteReport, NewReport, Reports
    <2> QED  BY <1>9, <2>1 DEF WriteReport
  <1>10. CASE StartWrite
    <2>1. FreshInode \in Nat \ {0}
      BY DEF FreshInode
    <2> QED  BY <1>10, <2>1 DEF StartWrite, Change
  <1>11. CASE FinishWrite
    <2>1. directory' \in [Names -> Files \union {Absent}]
      BY <1>11 DEF FinishWrite, Files
    <2> QED  BY <1>11, <2>1 DEF FinishWrite
  <1>12. CASE RemoveFile
    BY <1>12 DEF RemoveFile, Change
  <1>13. CASE PutLink
    <2>1. FreshInode \in Nat \ {0}
      BY DEF FreshInode
    <2>2. directory' \in [Names -> Files \union {Absent}]
      BY <1>13, <2>1 DEF PutLink, Files
    <2> QED  BY <1>13, <2>2 DEF PutLink, Change
  <1>14. CASE UNCHANGED vars
    BY <1>14 DEF vars
  <1> QED
    BY <1>1, <1>2, <1>3, <1>4, <1>5, <1>6, <1>7, <1>8, <1>9, <1>10, <1>11,
       <1>12, <1>13, <1>14 DEF Next, Gate, Others

(* Every variable of the gate and of the directory keeps its type.         *)
THEOREM TypeCorrect == Spec => []TypeOK
  <1>1. TypeInv => TypeOK
    BY DEF TypeInv
  <1> QED  BY InitType, NextType, <1>1, PTL DEF Spec

-----------------------------------------------------------------------------
(* The files that are judged *)

(* No inode is met again: what the open handle refers to is the file that  *)
(* the name leads to whenever their inodes are equal.                      *)
InodeInv ==
    /\ \A name \in Names :
         directory[name] # Absent => directory[name].inode < FreshInode
    /\ opened \in Files => opened.inode < FreshInode
    /\ temporary # Nothing =>
         /\ temporary.inode < FreshInode
         /\ \A name \in Names : directory[name].inode # temporary.inode
         /\ opened.inode # temporary.inode
    /\ pc \in {"read", "confirm"} =>
         (Entry # Absent /\ Entry.inode = opened.inode => Entry = opened)

LintInv == TypeInv /\ InodeInv /\ SourcesAreClean

LEMMA InitLint == Init => LintInv
  <1> SUFFICES ASSUME Init PROVE LintInv
    OBVIOUS
  <1>1. TypeInv
    BY InitType
  <1>2. InodeInv
    BY <1>1 DEF Init, InodeInv, FreshInode, Nothing, Absent, Files
  <1>3. SourcesAreClean
    BY DEF Init, SourcesAreClean
  <1> QED  BY <1>1, <1>2, <1>3 DEF LintInv

(* A change of the directory brings in an inode nobody has seen.           *)
LEMMA ChangeKeepsInodes ==
    ASSUME TypeInv, InodeInv, Others
    PROVE  InodeInv'
  <1> USE GateAssumption DEF TypeInv, TypeOK
  <1> DEFINE Seen == /\ pc' = pc /\ todo' = todo /\ opened' = opened
  <1>0. Seen
    BY DEF Others, StartWrite, FinishWrite, RemoveFile, PutLink, Change,
           lintVars
  <1>1. pc \in {"read", "confirm"} => Head(todo) \in Names /\ opened \in Files
    BY HeadIsName DEF HandInv
  <1>2. \A name \in Names :
          directory[name].inode \in Nat /\ directory[name].inode < FreshInode
    BY DEF InodeInv, FreshInode, Absent, Files
  <1>3. opened.inode < FreshInode
    BY DEF InodeInv, FreshInode, Absent
  <1>4. FreshInode \in Nat
    BY DEF FreshInode
  <1>5. ASSUME Change PROVE FreshInode' = FreshInode + 1
    BY <1>5 DEF Change, FreshInode
  <1>6. CASE StartWrite
    <2>1. PICK name \in Names, document \in Documents :
            temporary' =
               [name |-> name, inode |-> FreshInode, document |-> document]
      BY <1>6 DEF StartWrite
    <2>2. temporary'.inode = FreshInode /\ directory' = directory
      BY <1>6, <2>1 DEF StartWrite
    <2>3. FreshInode' = FreshInode + 1
      BY <1>5, <1>6 DEF StartWrite
    <2> QED  BY <1>0, <1>2, <1>3, <1>4, <2>2, <2>3 DEF InodeInv, Entry, Files
  <1>7. CASE FinishWrite
    <2> DEFINE new == [inode |-> temporary.inode, link |-> FALSE,
                       document |-> temporary.document]
    <2>1. /\ temporary # Nothing /\ temporary' = Nothing
          /\ directory' = [directory EXCEPT ![temporary.name] = new]
          /\ FreshInode' = FreshInode
      BY <1>7 DEF FinishWrite, FreshInode
    <2>2. temporary.name \in Names /\ temporary.inode < FreshInode
      BY <2>1 DEF InodeInv
    <2>3. \A name \in Names :
            directory'[name] = IF name = temporary.name THEN new
                               ELSE directory[name]
      BY <2>1
    <2>4. \A name \in Names :
             directory'[name] # Absent => directory'[name].inode < FreshInode
      BY <1>2, <2>2, <2>3
    <2>5. opened.inode # temporary.inode
      BY <2>1 DEF InodeInv
    <2>6. pc \in {"read", "confirm"} =>
            (Entry' # Absent /\ Entry'.inode = opened.inode => Entry' = opened)
      BY <1>0, <1>1, <2>3, <2>5 DEF InodeInv, Entry
    <2> QED  BY <1>0, <1>3, <2>1, <2>4, <2>6 DEF InodeInv
  <1>8. CASE RemoveFile
    <2>1. PICK gone \in Names :
            directory' = [directory EXCEPT ![gone] = Absent]
      BY <1>8 DEF RemoveFile
    <2>2. \A name \in Names :
            directory'[name] = IF name = gone THEN Absent ELSE directory[name]
      BY <2>1
    <2>3. FreshInode' = FreshInode + 1 /\ temporary' = temporary
      BY <1>5, <1>8 DEF RemoveFile
    <2>4. temporary # Nothing => temporary.inode # 0
      OBVIOUS
    <2>5. \A name \in Names :
            /\ directory'[name] # Absent => directory'[name].inode < FreshInode'
            /\ temporary # Nothing => directory'[name].inode # temporary.inode
      BY <1>2, <1>4, <2>2, <2>3, <2>4 DEF InodeInv, Absent
    <2>6. pc \in {"read", "confirm"} =>
            (Entry' # Absent /\ Entry'.inode = opened.inode => Entry' = opened)
      BY <1>0, <1>1, <2>2 DEF InodeInv, Entry
    <2>7. temporary # Nothing => /\ temporary.inode < FreshInode'
                                 /\ opened.inode # temporary.inode
      BY <1>4, <2>3 DEF InodeInv
    <2> QED  BY <1>0, <1>3, <1>4, <2>3, <2>5, <2>6, <2>7 DEF InodeInv, Files
  <1>9. CASE PutLink
    <2> DEFINE new(document) ==
                  [inode |-> FreshInode, link |-> TRUE, document |-> document]
    <2>1. PICK linked \in Names, document \in Elsewhere :
            directory' = [directory EXCEPT ![linked] = new(document)]
      BY <1>9 DEF PutLink
    <2>2. \A name \in Names :
            directory'[name] = IF name = linked THEN new(document)
                               ELSE directory[name]
      BY <2>1
    <2>3. FreshInode' = FreshInode + 1 /\ temporary' = temporary
      BY <1>5, <1>9 DEF PutLink
    <2>4. temporary # Nothing => /\ temporary.inode < FreshInode
                                 /\ opened.inode # temporary.inode
      BY DEF InodeInv
    <2>5. \A name \in Names :
            /\ directory'[name] # Absent => directory'[name].inode < FreshInode'
            /\ temporary # Nothing => directory'[name].inode # temporary.inode
      BY <1>2, <1>4, <2>2, <2>3, <2>4 DEF InodeInv
    <2>6. pc \in {"read", "confirm"} =>
            (Entry' # Absent /\ Entry'.inode = opened.inode => Entry' = opened)
      BY <1>0, <1>1, <1>3, <1>4, <2>2 DEF InodeInv, Entry, Files
    <2>7. temporary # Nothing => temporary.inode < FreshInode'
      BY <1>4, <2>3, <2>4
    <2> QED
      BY <1>0, <1>3, <1>4, <2>3, <2>4, <2>5, <2>6, <2>7 DEF InodeInv, Files
  <1> QED  BY <1>6, <1>7, <1>8, <1>9 DEF Others

(* What the last look confirms is the regular file that was opened.        *)
LEMMA ConfirmedIsRegular ==
    ASSUME LintInv, pc = "confirm", StillThere
    PROVE  opened \in Files /\ ~opened.link
  BY HeadIsName DEF LintInv, TypeInv, HandInv, InodeInv, StillThere, IsRegular,
     SameIdentity

LEMMA NextLint == LintInv /\ [Next]_vars => LintInv'
  <1> SUFFICES ASSUME LintInv, [Next]_vars PROVE LintInv'
    OBVIOUS
  <1>1. TypeInv /\ TypeInv' /\ InodeInv /\ SourcesAreClean
    BY NextType DEF LintInv
  <1>2. CASE LoadMatrix \/ Collect \/ LintEnds \/ Judge \/ WriteReport
    <2>1. UNCHANGED <<diskVars, opened, sources>>
          /\ pc' \notin {"read", "confirm"}
      BY <1>2 DEF LoadMatrix, Collect, LintEnds, Judge, WriteReport, Decide,
                  lintVars
    <2>2. InodeInv'
      BY <1>1, <2>1 DEF InodeInv, FreshInode, diskVars
    <2>3. SourcesAreClean'
      BY <1>1, <2>1 DEF SourcesAreClean
    <2> QED  BY <1>1, <2>2, <2>3 DEF LintInv
  <1>3. CASE Look
    <2>1. UNCHANGED <<diskVars, opened, sources>>
          /\ pc' \notin {"read", "confirm"}
      BY <1>3 DEF Look, OrReject, Decide
    <2> QED  BY <1>1, <2>1 DEF LintInv, InodeInv, SourcesAreClean, FreshInode,
                              diskVars
  <1>4. CASE Open
    <2>1. /\ UNCHANGED <<diskVars, todo, sources>> /\ opened' = Entry
          /\ todo # <<>>
      BY <1>1, <1>4 DEF Open, TypeInv, HandInv
    <2>2. Head(todo) \in Names /\ Entry = directory[Head(todo)]
      BY <1>1, <2>1, HeadIsName DEF Entry
    <2>3. Entry' = Entry
      BY <2>1 DEF Entry, diskVars
    <2>4. Absent \notin Files
      BY DEF Absent, Files
    <2>5. InodeInv'
      BY <1>1, <2>1, <2>2, <2>3, <2>4 DEF InodeInv, FreshInode, diskVars
    <2> QED  BY <1>1, <2>1, <2>5 DEF LintInv, SourcesAreClean
  <1>5. CASE Read
    <2>1. UNCHANGED <<diskVars, lintVars>> /\ pc = "read"
      BY <1>5 DEF Read
    <2> QED  BY <1>1, <2>1 DEF LintInv, InodeInv, SourcesAreClean, FreshInode,
                              diskVars, lintVars, Entry
  <1>6. CASE Confirm
    <2>1. /\ UNCHANGED diskVars /\ opened' = Absent
          /\ pc' \notin {"read", "confirm"}
      BY <1>6 DEF Confirm, OrReject, Decide
    <2>2. temporary # Nothing => temporary.inode # 0
      BY <1>1 DEF TypeInv, TypeOK
    <2>3. Absent \notin Files
      BY DEF Absent, Files
    <2>4. InodeInv'
      BY <1>1, <2>1, <2>2, <2>3 DEF InodeInv, FreshInode, diskVars, Absent
    <2>5. SourcesAreClean'
      <3>1. CASE StillThere /\ PassesLint(opened.document)
        <4>1. sources' = Append(sources, opened)
          BY <1>6, <3>1 DEF Confirm
        <4>2. opened \in Files /\ ~opened.link
          BY <1>6, <3>1, ConfirmedIsRegular DEF Confirm
        <4>3. sources \in Seq(Files)
          BY <1>1 DEF TypeInv, TypeOK
        <4> QED  BY <1>1, <3>1, <4>1, <4>2, <4>3 DEF SourcesAreClean
      <3>2. CASE ~(StillThere /\ PassesLint(opened.document))
        BY <1>1, <1>6, <3>2 DEF Confirm, SourcesAreClean
      <3> QED  BY <3>1, <3>2
    <2> QED  BY <1>1, <2>4, <2>5 DEF LintInv
  <1>7. CASE Others
    <2>1. sources' = sources
      BY <1>7 DEF Others, StartWrite, FinishWrite, RemoveFile, PutLink, Change,
                  lintVars
    <2> QED  BY <1>1, <1>7, <2>1, ChangeKeepsInodes DEF LintInv, SourcesAreClean
  <1>8. CASE UNCHANGED vars
    BY <1>1, <1>8 DEF LintInv, InodeInv, SourcesAreClean, FreshInode, Entry,
                      vars, diskVars, lintVars
  <1> QED
    BY <1>2, <1>3, <1>4, <1>5, <1>6, <1>7, <1>8 DEF Next, Gate

(* Whatever is put in the place of a file while it is linted, only regular *)
(* files of the directory that passed the lint are judged.                 *)
THEOREM SourcesClean == Spec => []SourcesAreClean
  <1>1. LintInv => SourcesAreClean
    BY DEF LintInv
  <1> QED  BY InitLint, NextLint, <1>1, PTL DEF Spec

-----------------------------------------------------------------------------
(* The verdict and the report *)

(* The verdict is that of the judged documents, which no longer change,    *)
(* and until the end the report is the one of an earlier run.              *)
VerdictInv ==
    /\ TypeInv
    /\ verdict = "PASS" => EvaluateProofs(Matrix, Judged)
    /\ verdict = "NO_GO" => ~EvaluateProofs(Matrix, Judged)
    /\ pc # "done" => report = OldReport /\ status = "running"
    /\ ReportMatchesOutcome

LEMMA InitVerdict == Init => VerdictInv
  BY InitType DEF Init, VerdictInv, ReportMatchesOutcome

LEMMA NextVerdict == VerdictInv /\ [Next]_vars => VerdictInv'
  <1> SUFFICES ASSUME VerdictInv, [Next]_vars PROVE VerdictInv'
    OBVIOUS
  <1>1. TypeInv /\ TypeInv'
    BY NextType DEF VerdictInv
  <1>2. CASE Others \/ UNCHANGED vars
    <2>1. UNCHANGED <<pc, sources, endVars>>
      BY <1>2 DEF Others, StartWrite, FinishWrite, RemoveFile, PutLink, Change,
                  vars, lintVars
    <2>2. Judged' = Judged
      BY <2>1 DEF Judged
    <2>3. NewReport' = NewReport
      BY <2>1, <2>2 DEF NewReport, endVars
    <2> QED  BY <1>1, <2>1, <2>2, <2>3 DEF VerdictInv, ReportMatchesOutcome,
                                           endVars
  <1>3. CASE \/ LoadMatrix \/ Collect \/ Look \/ Open \/ Read \/ Confirm
             \/ LintEnds
    <2>1. /\ pc \notin {"report", "done"}
          /\ \/ UNCHANGED endVars /\ pc' # "done"
             \/ Decide("FAIL")
      BY <1>3 DEF LoadMatrix, Collect, Look, Open, Read, Confirm, LintEnds,
                  OrReject
    <2>2. verdict = "none"
      BY <1>1, <2>1 DEF TypeInv, HandInv
    <2>3. /\ verdict' \in {"none", "FAIL"} /\ pc' # "done"
          /\ report' = OldReport /\ status' = "running"
      BY <2>1, <2>2 DEF VerdictInv, endVars, Decide
    <2> QED  BY <1>1, <2>3 DEF VerdictInv, ReportMatchesOutcome
  <1>4. CASE Judge
    <2>1. Judged' = Judged
      BY <1>4 DEF Judge, lintVars, Judged
    <2>2. /\ verdict' = "PASS" => EvaluateProofs(Matrix, Judged)
          /\ verdict' = "NO_GO" => ~EvaluateProofs(Matrix, Judged)
      BY <1>4 DEF Judge, Decide
    <2>3. /\ report' = OldReport /\ status' = "running" /\ pc' = "report"
      BY <1>4 DEF Judge, Decide, VerdictInv
    <2> QED  BY <1>1, <2>1, <2>2, <2>3 DEF VerdictInv, ReportMatchesOutcome
  <1>5. CASE WriteReport
    <2>1. /\ Judged' = Judged /\ verdict' = verdict /\ pc' = "done"
          /\ report = OldReport
      BY <1>5 DEF WriteReport, lintVars, Judged, VerdictInv
    <2>2. verdict \in {"PASS", "NO_GO", "FAIL"}
      BY <1>1, <1>5 DEF WriteReport, TypeInv, TypeOK, HandInv
    <2>3. /\ NewReport.status = "PASS" => verdict = "PASS"
          /\ verdict = "PASS" =>
               NewReport = [status |-> "PASS", inventory |-> Judged]
      BY <2>2 DEF NewReport
    <2>4. /\ report' \in {OldReport, NewReport}
          /\ status' = "accepted" => report' = NewReport /\ verdict = "PASS"
      BY <1>5, <2>1 DEF WriteReport
    <2>5. NewReport' = NewReport
      BY <2>1 DEF NewReport
    <2>6. NewReport.status = "PASS" =>
            EvaluateProofs(Matrix, NewReport.inventory)
      BY <2>3 DEF VerdictInv
    <2>7. ReportMatchesOutcome'
      BY <2>1, <2>2, <2>3, <2>4, <2>5, <2>6 DEF ReportMatchesOutcome
    <2> QED  BY <1>1, <2>1, <2>7 DEF VerdictInv
  <1> QED  BY <1>2, <1>3, <1>4, <1>5 DEF Next, Gate

(* In whatever order the directory is read, and whatever happens to it     *)
(* meanwhile, a PASS covers the matrix, and the verdict is the reference's *)
(* unless a proof is foreign to its row (then it need not be: PassIsExact).*)
THEOREM VerdictIsThatOfReference == Spec => []VerdictIsReference
  <1>1. VerdictInv => VerdictIsReference
    <2> SUFFICES ASSUME VerdictInv PROVE VerdictIsReference
      OBVIOUS
    <2>1. Judged \in Seq(Documents) /\ MatrixIsCanonical(Matrix)
      BY GateAssumption, JudgedIsDocuments DEF VerdictInv, TypeInv
    <2>2. verdict = "PASS" => CoversMatrix(Matrix, Judged)
      BY <2>1, AcceptedCoversMatrix DEF VerdictInv
    <2>3. NoneForeign(Judged) =>
            (EvaluateProofs(Matrix, Judged) <=> Acceptable(Matrix, Judged))
      BY <2>1, EvaluationIsReference
    <2> QED  BY <2>2, <2>3 DEF VerdictInv, VerdictIsReference
  <1> QED  BY InitVerdict, NextVerdict, <1>1, PTL DEF Spec

(* The process succeeds only with its own PASS report on disk; whatever    *)
(* report a run leaves, it says what was decided, and a PASS is true, also *)
(* where the run failed after the rename.                                  *)
THEOREM ReportIsTrue == Spec => []ReportMatchesOutcome
  <1>1. VerdictInv => ReportMatchesOutcome
    BY DEF VerdictInv
  <1> QED  BY InitVerdict, NextVerdict, <1>1, PTL DEF Spec
=============================================================================
