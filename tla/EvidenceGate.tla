---------------------------- MODULE EvidenceGate ----------------------------
(***************************************************************************)
(* The acceptance gate: it lists the evidence directory, lints each file   *)
(* through one handle, judges the bytes it linted, and replaces the        *)
(* report.  Meanwhile the commands that produce proofs replace files of    *)
(* the directory, and whoever collects evidence may remove a file or put a *)
(* symbolic link in its place.                                             *)
(***************************************************************************)
EXTENDS AcceptanceRules

CONSTANTS
    Matrix,     \* the required rows
    Documents,  \* what a file may hold
    Elsewhere,  \* what a link may lead to
    Collected,  \* what the directory holds at first: names to documents
    Listings,   \* what reading a directory may return: sequences of names
    MaxChanges  \* bound on the changes to the directory

Names == DOMAIN Collected

Absent == [inode |-> 0]
OldReport == [status |-> "PASS", inventory |-> <<>>]
Nothing == [kind |-> "nothing"]

ASSUME GateAssumption ==
    /\ MatrixIsCanonical(Matrix)
    /\ \A name \in Names :
         Collected[name] \in Documents \union {Nothing}
    /\ \A d \in Documents : d.kind \in {"proof", "generic", "refused"}
    /\ Elsewhere \subseteq Documents
    /\ Listings \subseteq Seq(Names)
    /\ MaxChanges \in Nat

VARIABLES
    directory,  \* names to files; those of one name differ in their inodes
    changes,    \* how often the directory was changed
    temporary,  \* the write_atomic between its temporary file and its rename
    pc,         \* where the gate is
    todo,       \* names still to lint
    before,     \* the inode that symlink_metadata saw
    opened,     \* the file behind the handle
    sources,    \* files linted so far
    verdict,    \* what `run' decided
    report,     \* the report on disk, at first one that accepted other files
    status      \* how the process ended

diskVars == <<directory, changes, temporary>>
lintVars == <<todo, before, opened, sources>>
endVars == <<verdict, report, status>>
vars == <<diskVars, pc, lintVars, endVars>>

Files == [inode : Nat \ {0}, link : BOOLEAN, document : Documents]
Reports == [status : {"PASS", "NO-GO"}, inventory : Seq(Documents)]

TypeOK ==
    /\ directory \in [Names -> Files \union {Absent}]
    /\ changes \in 0 .. MaxChanges
    /\ temporary \in [name : Names, inode : Nat \ {0},
                       document : Documents]
                      \union {Nothing}
    /\ pc \in {"start", "collect", "look", "open", "read", "confirm",
               "parse", "report", "done"}
    /\ todo \in Seq(Names)
    /\ before \in Nat
    /\ opened \in Files \union {Absent}
    /\ sources \in Seq(Files)
    /\ verdict \in {"none", "PASS", "NO_GO", "FAIL"}
    /\ report \in Reports
    /\ status \in {"running", "accepted", "failed"}

Init ==
    /\ directory = [name \in Names |->
         IF Collected[name] = Nothing THEN Absent
         ELSE [inode |-> 1, link |-> FALSE,
               document |-> Collected[name]]]
    /\ changes = 0 /\ temporary = Nothing
    /\ pc = "start"
    /\ todo = <<>> /\ before = 0 /\ opened = Absent /\ sources = <<>>
    /\ verdict = "none" /\ status = "running"
    /\ report = OldReport

-----------------------------------------------------------------------------
(* Those who change the directory. *)

(* Only files of one name are ever compared. *)
FreshInode == changes + 2

(* Only changes that the gate may notice. *)
Change ==
    /\ pc \in {"collect", "look", "open", "read", "confirm"}
    /\ changes < MaxChanges
    /\ changes' = changes + 1
    /\ UNCHANGED <<pc, lintVars, endVars>>

(* write_atomic: its temporary file has no `.json' name; the process may   *)
(* die before the rename and leave it.                                     *)
StartWrite ==
    /\ Change
    /\ temporary = Nothing
    /\ \E name \in Names, document \in Documents :
         temporary' =
            [name |-> name, inode |-> FreshInode, document |-> document]
    /\ UNCHANGED directory

FinishWrite ==
    /\ temporary # Nothing
    /\ directory' = [directory EXCEPT ![temporary.name] =
         [inode |-> temporary.inode, link |-> FALSE,
          document |-> temporary.document]]
    /\ temporary' = Nothing
    /\ UNCHANGED <<changes, pc, lintVars, endVars>>

RemoveFile ==
    /\ Change
    /\ \E name \in Names : directory' = [directory EXCEPT ![name] = Absent]
    /\ UNCHANGED temporary

(* A link to a document elsewhere; `inode' is that of what it leads to.    *)
PutLink ==
    /\ Change
    /\ \E name \in Names, document \in Elsewhere :
         directory' = [directory EXCEPT ![name] =
            [inode |-> FreshInode, link |-> TRUE, document |-> document]]
    /\ UNCHANGED temporary

-----------------------------------------------------------------------------
(* The gate. *)

Decide(v) ==
    /\ verdict' = v /\ pc' = "report"
    /\ UNCHANGED <<report, status>>

(* A matrix that is not the canonical one is refused before anything else. *)
LoadMatrix ==
    /\ pc = "start"
    /\ \/ pc' = "collect" /\ UNCHANGED endVars
       \/ Decide("FAIL")
    /\ UNCHANGED <<diskVars, lintVars>>

(* A temporary file that is listed is refused in its turn, because of its  *)
(* name or because it is gone; a link is refused at once.                  *)
Collect ==
    /\ pc = "collect"
    /\ IF \/ temporary # Nothing
          \/ \E name \in Names : directory[name] # Absent /\ directory[name].link
       THEN Decide("FAIL") /\ UNCHANGED todo
       ELSE /\ todo' \in Listings
            /\ {todo'[i] : i \in DOMAIN todo'}
                 = {name \in Names : directory[name] # Absent}
            /\ pc' = "look" /\ UNCHANGED endVars
    /\ UNCHANGED <<diskVars, before, opened, sources>>

(* What a step on the next file does when what it sees is in order. *)
OrReject(fine, nextPc) ==
    \/ fine /\ pc' = nextPc /\ UNCHANGED endVars
    \/ ~fine /\ Decide("FAIL")

Entry == directory[Head(todo)]
IsRegular(file) == file # Absent /\ ~file.link

(* Variant: identities are not compared. *)
SameIdentityAlways(left, right) == left \in Nat /\ right \in Nat

SameIdentity(left, right) == left = right

Look ==
    /\ pc = "look" /\ todo # <<>>
    /\ OrReject(IsRegular(Entry), "open")
    /\ before' = Entry.inode
    /\ UNCHANGED <<diskVars, todo, opened, sources>>

(* Opening follows a link. *)
Open ==
    /\ pc = "open"
    /\ OrReject(Entry # Absent, "read")
    /\ opened' = Entry
    /\ UNCHANGED <<diskVars, todo, before, sources>>

StillThere ==
    /\ IsRegular(Entry)
    /\ SameIdentity(before, opened.inode)
    /\ SameIdentity(opened.inode, Entry.inode)

Read ==
    /\ pc = "read"
    /\ OrReject(StillThere, "confirm")
    /\ UNCHANGED <<diskVars, lintVars>>

(* No secret or unsafe text, and a document of one of the two schemas.     *)
PassesLint(document) == document.kind # "refused"

(* The last look at the path, and the lint of what was read.               *)
Confirm ==
    /\ pc = "confirm"
    /\ LET fine == StillThere /\ PassesLint(opened.document)
       IN  /\ OrReject(fine, "look")
           /\ sources' = IF fine THEN Append(sources, opened) ELSE sources
           /\ todo' = IF fine THEN Tail(todo) ELSE todo
    /\ before' = 0 /\ opened' = Absent
    /\ UNCHANGED diskVars

LintEnds ==
    /\ pc = "look" /\ todo = <<>>
    /\ pc' = "parse"
    /\ UNCHANGED <<diskVars, lintVars, endVars>>

Judged == [i \in DOMAIN sources |-> sources[i].document]

(* A generic evidence document passes the lint but is no typed proof.      *)
IsTypedProof(document) == document.kind = "proof"

Judge ==
    /\ pc = "parse"
    /\ IF \E i \in DOMAIN sources : ~IsTypedProof(Judged[i])
       THEN Decide("FAIL")
       ELSE IF EvaluateProofs(Matrix, Judged)
            THEN Decide("PASS")
            ELSE Decide("NO_GO")
    /\ UNCHANGED <<diskVars, lintVars>>

(* The report of a FAIL lists nothing. *)
NewReport ==
    CASE verdict = "PASS" -> [status |-> "PASS", inventory |-> Judged]
      [] verdict = "NO_GO" -> [status |-> "NO-GO", inventory |-> Judged]
      [] verdict = "FAIL" -> [status |-> "NO-GO", inventory |-> <<>>]

(* Variant: the verdict counts, whether or not the report was replaced. *)
WriteReportBestEffort ==
    /\ pc = "report"
    /\ report' \in {report, NewReport}
    /\ status' = IF verdict = "PASS" THEN "accepted" ELSE "failed"
    /\ pc' = "done"
    /\ UNCHANGED <<diskVars, lintVars, verdict>>

(* write_report_atomic replaces the report or fails and leaves it.  It may *)
(* fail after the rename too, when the directory cannot be synced.         *)
WriteReport ==
    /\ pc = "report"
    /\ \/ /\ report' = NewReport
          /\ status' = IF verdict = "PASS" THEN "accepted" ELSE "failed"
       \/ report' \in {report, NewReport} /\ status' = "failed"
    /\ pc' = "done"
    /\ UNCHANGED <<diskVars, lintVars, verdict>>

-----------------------------------------------------------------------------
Gate ==
    \/ LoadMatrix \/ Collect \/ Look \/ Open \/ Read \/ Confirm \/ LintEnds
    \/ Judge \/ WriteReport

Others == StartWrite \/ FinishWrite \/ RemoveFile \/ PutLink

Next == Gate \/ Others

Spec == Init /\ [][Next]_vars

-----------------------------------------------------------------------------
(* Properties *)

(* In whatever order the directory is read and whatever happens to it      *)
(* meanwhile, a PASS means one sound proof for each component of each      *)
(* required row; and, leaving aside proofs of a component their row does   *)
(* not call for (see PassIsExact), the verdict is PASS exactly when what   *)
(* was read holds nothing else and each row's own proofs agree.            *)
VerdictIsReference ==
    /\ verdict = "PASS" => CoversMatrix(Matrix, Judged)
    /\ verdict \in {"PASS", "NO_GO"} /\ NoneForeign(Judged)
         => (verdict = "PASS" <=> Acceptable(Matrix, Judged))

(* "all records must also be valid, exact, and complete" (gate.rs:14): a   *)
(* PASS was given to an acceptable set of proofs.                          *)
PassIsExact == verdict = "PASS" => Acceptable(Matrix, Judged)

(* Every file that is judged was a regular file of the directory, whatever *)
(* its name led to before and after, and passed the lint.                  *)
SourcesAreClean ==
    \A i \in DOMAIN sources :
        ~sources[i].link /\ PassesLint(sources[i].document)

(* The process succeeds only when the report on disk says PASS and lists   *)
(* the proofs that were judged and accepted.  It may fail beside a PASS    *)
(* report: that is the report of an earlier run, or its own, which it      *)
(* renamed into place before the sync of the directory failed              *)
(* (gate.rs:162); its own says what was decided, and its PASS is true.     *)
ReportMatchesOutcome ==
    /\ status = "accepted" => report = NewReport /\ report.status = "PASS"
    /\ report # OldReport =>
         /\ verdict # "none" /\ report = NewReport
         /\ report.status = "PASS" => EvaluateProofs(Matrix, report.inventory)
=============================================================================
