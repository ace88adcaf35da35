--------------------------- MODULE KeyringCommands ---------------------------
(***************************************************************************)
(* The processes that share the operating system's credential store: the   *)
(* two upload commands, which load or create the key that checkpoints are  *)
(* sealed with, and the two smoke commands, each with a random account of  *)
(* its own.  Every call of the store may fail, after taking effect or not, *)
(* and may claim a success that it did not have, which the smoke commands  *)
(* are there to find out.                                                  *)
(*                                                                         *)
(* Each process runs one command.  A secret or a key is named by the       *)
(* process that generated it, a smoke account by the one that uses it.     *)
(***************************************************************************)
CONSTANTS
    Processes,
    None, Upload    \* no credential; UPLOAD_CHECKPOINT_ACCOUNT

Accounts == Processes \union {Upload}

ASSUME KeyringAssumption ==
    None \notin Accounts /\ Upload \notin Processes

VARIABLES
    command,    \* the command that each process runs
    keyring,    \* accounts to the generator of what they hold
    lied,       \* the store claimed to have stored a key, and had not
    pc,         \* where each process is
    cipher,     \* EnvelopeCipher::key
    failed,     \* operation_error, or the Err of `result'
    unclean,    \* cleanup_error
    armed,      \* KeyringCleanup::armed
    record,     \* the key of the checkpoint that a stage wrote, or None
    answer,     \* what a resume found out about the checkpoint it read
    proof,      \* the smoke proof on disk
    rivals      \* who was creating the upload key at the same time

storeVars == <<keyring, lied>>
smokeVars == <<failed, unclean, armed, proof>>
uploadVars == <<record, answer>>
vars == <<command, storeVars, pc, cipher, smokeVars, uploadVars, rivals>>

Commands == {"stage-upload", "resume-analyze", "checkpoint", "keyring"}
Uploads == {p \in Processes : command[p] \in {"stage-upload", "resume-analyze"}}
Smokes == {p \in Processes : command[p] \in {"checkpoint", "keyring"}}

NoProof == "none"

Loading == {"load", "create", "use"}
Cleaning == {"delete", "confirm", "report"}
Ends == {"ok", "error", "crashed"}
Places == Loading \union {"set", "get", "drop"} \union Cleaning \union Ends

TypeOK ==
    /\ command \in [Processes -> Commands]
    /\ keyring \in [Accounts -> Processes \union {None}]
    /\ lied \in BOOLEAN
    /\ pc \in [Processes -> Places]
    /\ \A p \in Uploads : pc[p] \in Loading \union Ends
    /\ \A p \in Processes : command[p] = "checkpoint" =>
         pc[p] \in Loading \union Cleaning \union Ends
    /\ \A p \in Processes : command[p] = "keyring" =>
         pc[p] \in {"set", "get", "drop"} \union Cleaning \union Ends
    /\ cipher \in [Processes -> Processes \union {None}]
    /\ \A p \in Processes : pc[p] = "use" => cipher[p] # None
    /\ failed \in [Processes -> BOOLEAN]
    /\ unclean \in [Processes -> BOOLEAN]
    /\ armed \in [Processes -> BOOLEAN]
    /\ \A p \in Processes : armed[p] => command[p] = "keyring"
    /\ record \in [Processes -> Processes \union {None}]
    /\ answer \in [Processes -> {"none", "opened", "refused"}]
    /\ proof \in [Processes -> {NoProof, "accepted", "rejected"}]
    /\ rivals \in [Processes -> SUBSET Processes]

Init ==
    /\ command \in [Processes -> Commands]
    /\ keyring = [a \in Accounts |-> None]
    /\ lied = FALSE
    /\ pc = [p \in Processes |-> IF command[p] = "keyring" THEN "set" ELSE "load"]
    /\ cipher = [p \in Processes |-> None]
    /\ failed = [p \in Processes |-> FALSE]
    /\ unclean = [p \in Processes |-> FALSE]
    /\ armed = [p \in Processes |-> command[p] = "keyring"]
    /\ record = [p \in Processes |-> None]
    /\ answer = [p \in Processes |-> "none"]
    /\ proof = [p \in Processes |-> NoProof]
    /\ rivals = [p \in Processes |-> {}]

-----------------------------------------------------------------------------
(* The store. *)

AccountOf(p) == IF p \in Smokes THEN p ELSE Upload

Goes(p, where) == pc' = [pc EXCEPT ![p] = where]

(* A call that would leave `value' in an account and reports success. *)
Succeeds(account, value) ==
    \/ keyring' = [keyring EXCEPT ![account] = value] /\ UNCHANGED lied
    \/ lied' = (lied \/ account = Upload) /\ UNCHANGED keyring

(* One that reports failure may have had its effect. *)
Fails(account, value) ==
    /\ \/ keyring' = [keyring EXCEPT ![account] = value]
       \/ UNCHANGED keyring
    /\ UNCHANGED lied

-----------------------------------------------------------------------------
(* EnvelopeCipher::load_or_create, which does not look back once the store *)
(* says the new key is stored.                                             *)

Creating == {p \in Uploads : pc[p] = "create"}

LoadKey(p) ==
    /\ pc[p] = "load" /\ keyring[AccountOf(p)] # None
    /\ cipher' = [cipher EXCEPT ![p] = keyring[AccountOf(p)]]
    /\ Goes(p, "use")
    /\ UNCHANGED <<storeVars, smokeVars, uploadVars, rivals>>

(* The last conjunct only remembers who else is creating the upload key.   *)
FindNoKey(p) ==
    /\ pc[p] = "load" /\ keyring[AccountOf(p)] = None
    /\ Goes(p, "create")
    /\ UNCHANGED <<storeVars, cipher, smokeVars, uploadVars>>
    /\ IF p \in Uploads
       THEN rivals' = [q \in Processes |->
                         IF q = p THEN rivals[p] \union Creating
                         ELSE IF q \in Creating THEN rivals[q] \union {p}
                         ELSE rivals[q]]
       ELSE UNCHANGED rivals

CreateKey(p) ==
    /\ pc[p] = "create"
    /\ Succeeds(AccountOf(p), p)
    /\ cipher' = [cipher EXCEPT ![p] = p]
    /\ Goes(p, "use")
    /\ UNCHANGED <<smokeVars, uploadVars, rivals>>

(* A smoke test goes on to clean up; an upload command ends.               *)
KeyError(p) ==
    IF p \in Smokes
    THEN /\ failed' = [failed EXCEPT ![p] = TRUE]
         /\ Goes(p, "delete")
         /\ UNCHANGED <<unclean, armed, proof>>
    ELSE Goes(p, "error") /\ UNCHANGED smokeVars

(* Variant: a store that cannot be read is taken for an empty one. *)
LoadFailsOpen(p) ==
    /\ pc[p] = "load"
    /\ Goes(p, "create")
    /\ UNCHANGED <<storeVars, cipher, smokeVars, uploadVars, rivals>>

LoadFails(p) ==
    /\ pc[p] = "load"
    /\ KeyError(p)
    /\ UNCHANGED <<storeVars, cipher, uploadVars, rivals>>

CreateFails(p) ==
    /\ pc[p] = "create"
    /\ Fails(AccountOf(p), p)
    /\ KeyError(p)
    /\ UNCHANGED <<cipher, uploadVars, rivals>>

-----------------------------------------------------------------------------
(* The upload commands, as far as the key goes. *)

(* write_checkpoint, to a path of the command's own; the write may fail,   *)
(* and so may what follows it.                                             *)
SealCheckpoint(p) ==
    /\ command[p] = "stage-upload" /\ pc[p] = "use"
    /\ \/ /\ record' = [record EXCEPT ![p] = cipher[p]]
          /\ Goes(p, "ok") \/ Goes(p, "error")
       \/ UNCHANGED record /\ Goes(p, "error")
    /\ UNCHANGED <<storeVars, cipher, smokeVars, answer, rivals>>

(* resume_checkpoint opens what was sealed with the same key; there may be *)
(* no checkpoint, and later steps of the command may fail.                 *)
OpenCheckpoint(p) ==
    /\ command[p] = "resume-analyze" /\ pc[p] = "use"
    /\ \/ \E s \in Processes :
            /\ record[s] # None
            /\ \/ record[s] = cipher[p] /\ (Goes(p, "ok") \/ Goes(p, "error"))
                  /\ answer' = [answer EXCEPT ![p] = "opened"]
               \/ record[s] # cipher[p] /\ Goes(p, "error")
                  /\ answer' = [answer EXCEPT ![p] = "refused"]
       \/ Goes(p, "error") /\ UNCHANGED answer
    /\ UNCHANGED <<storeVars, cipher, smokeVars, record, rivals>>

-----------------------------------------------------------------------------
(* keyring_smoke *)

SetSecret(p) ==
    /\ pc[p] = "set"
    /\ \/ Succeeds(p, p) /\ Goes(p, "get") /\ UNCHANGED failed
       \/ /\ Fails(p, p) /\ Goes(p, "delete")
          /\ failed' = [failed EXCEPT ![p] = TRUE]
    /\ UNCHANGED <<cipher, unclean, armed, proof, uploadVars, rivals>>

(* Read back and compare. *)
GetSecret(p) ==
    /\ pc[p] = "get"
    /\ \/ keyring[p] = p /\ UNCHANGED failed
       \/ failed' = [failed EXCEPT ![p] = TRUE]
    /\ Goes(p, "delete")
    /\ UNCHANGED <<storeVars, cipher, unclean, armed, proof, uploadVars, rivals>>

(* checkpoint_smoke: seal, open, and refuse what was tampered with.        *)
TryCipher(p) ==
    /\ command[p] = "checkpoint" /\ pc[p] = "use"
    /\ Goes(p, "delete")
    /\ UNCHANGED <<storeVars, cipher, smokeVars, uploadVars, rivals>>

(* The cleanup that both share: delete, then confirm with a get.           *)
DeleteSecret(p) ==
    /\ pc[p] = "delete"
    /\ \/ Succeeds(p, None) /\ Goes(p, "confirm") /\ UNCHANGED unclean
       \/ /\ Fails(p, None) /\ Goes(p, "report")
          /\ unclean' = [unclean EXCEPT ![p] = TRUE]
    /\ UNCHANGED <<cipher, failed, armed, proof, uploadVars, rivals>>

(* Variant: the store is taken at its word. *)
ConfirmTrusting(p) ==
    /\ pc[p] = "confirm"
    /\ armed' = [armed EXCEPT ![p] = FALSE]
    /\ Goes(p, "report")
    /\ UNCHANGED <<storeVars, cipher, failed, unclean, proof, uploadVars, rivals>>

Confirm(p) ==
    /\ pc[p] = "confirm"
    /\ \/ /\ keyring[p] = None
          /\ armed' = [armed EXCEPT ![p] = FALSE] /\ UNCHANGED unclean
       \/ unclean' = [unclean EXCEPT ![p] = TRUE] /\ UNCHANGED armed
    /\ Goes(p, "report")
    /\ UNCHANGED <<storeVars, cipher, failed, proof, uploadVars, rivals>>

Passed(p) == ~failed[p] /\ ~unclean[p]

(* write_evidence_atomic may fail, before or after the file is in place;   *)
(* the command then ends at once.                                          *)
ReportSmoke(p) ==
    /\ pc[p] = "report"
    /\ \/ UNCHANGED proof
       \/ proof' = [proof EXCEPT ![p] =
                       IF Passed(p) THEN "accepted" ELSE "rejected"]
    /\ \/ armed[p] /\ Goes(p, "drop")
       \/ ~armed[p] /\ Goes(p, "error")
       \/ Passed(p) /\ proof'[p] = "accepted" /\ Goes(p, "ok")
    /\ UNCHANGED <<storeVars, cipher, failed, unclean, armed, uploadVars, rivals>>

(* The guard's last attempt, whose result is ignored. *)
DropGuard(p) ==
    /\ pc[p] = "drop"
    /\ Succeeds(p, None) \/ Fails(p, None)
    /\ Goes(p, "error")
    /\ UNCHANGED <<cipher, smokeVars, uploadVars, rivals>>

-----------------------------------------------------------------------------
Over(p) == pc[p] \in Ends

Dies(p) ==
    /\ ~Over(p)
    /\ Goes(p, "crashed")
    /\ UNCHANGED <<storeVars, cipher, smokeVars, uploadVars, rivals>>

Step(p) ==
    \/ LoadKey(p) \/ FindNoKey(p) \/ CreateKey(p)
    \/ LoadFails(p) \/ CreateFails(p)
    \/ SealCheckpoint(p) \/ OpenCheckpoint(p)
    \/ SetSecret(p) \/ GetSecret(p) \/ TryCipher(p)
    \/ DeleteSecret(p) \/ Confirm(p) \/ ReportSmoke(p) \/ DropGuard(p)
    \/ Dies(p)

Next == (\E p \in Processes : Step(p)) /\ UNCHANGED command

Spec == Init /\ [][Next]_vars

-----------------------------------------------------------------------------
(* Properties *)

(* A checkpoint that the stored key does not open was sealed by one of two *)
(* processes that created the first key at the same time, or the store     *)
(* claimed to have stored a key that it had not: a resume without a key,   *)
(* failing calls, crashes and smoke tests never cost a checkpoint; and     *)
(* resume-analyze is refused one for no other reason.                      *)
CheckpointsOpen ==
    /\ \A s \in Processes :
         record[s] \notin {None, keyring[Upload]} =>
            lied \/ keyring[Upload] \in rivals[record[s]]
    /\ \A r \in Processes :
         answer[r] = "refused" => lied \/ \E p \in Processes : rivals[p] # {}

(* An accepted smoke proof, like a successful exit, means that the         *)
(* credential is gone; one that is left behind by a command that ran to    *)
(* its end was reported.                                                   *)
AcceptedLeavesNothing ==
    \A p \in Smokes :
        /\ proof[p] = "accepted" \/ pc[p] = "ok" =>
             keyring[p] = None /\ proof[p] = "accepted"
        /\ keyring[p] # None /\ Over(p) /\ pc[p] # "crashed" =>
             pc[p] = "error" /\ proof[p] # "accepted"
=============================================================================
