---------------------------- MODULE UploadLedger ----------------------------
(***************************************************************************)
(* What staging and resuming an upload promises about the remote service,  *)
(* with neither processes nor requests in it.  An upload is a one-way      *)
(* journey: a session fills, its file is published, the file is discarded. *)
(* A ticket, the checkpoint on disk, is the only way back to the session,  *)
(* and it is torn up only when the file is gone; a certificate, the proof  *)
(* that the whole journey was made, is written only after that.            *)
(***************************************************************************)
CONSTANTS Sessions, None

VARIABLES
    journey,      \* session -> none, filling, published or discarded
    ticket,       \* the session the checkpoint leads to, or None
    abandoned,    \* sessions whose ticket was replaced by a later one
    certified     \* the session the last record certifies, or None

vars == <<journey, ticket, abandoned, certified>>

TypeOK ==
    /\ journey \in [Sessions -> {"none", "filling", "published", "discarded"}]
    /\ ticket \in Sessions \union {None}
    /\ abandoned \subseteq Sessions
    /\ certified \in Sessions \union {None}

Init ==
    /\ journey = [s \in Sessions |-> "none"]
    /\ ticket = None
    /\ abandoned = {}
    /\ certified = None

Move(s, from, to) ==
    journey[s] = from /\ journey' = [journey EXCEPT ![s] = to]

Begin(s) ==
    /\ Move(s, "none", "filling")
    /\ UNCHANGED <<ticket, abandoned, certified>>

(* A ticket is issued for a session that still fills. *)
Issue(s) ==
    /\ journey[s] = "filling"
    /\ ticket' = s
    /\ abandoned' = abandoned \union ({ticket} \ {None})
    /\ UNCHANGED <<journey, certified>>

(* No file appears that nothing on disk leads to, unless it was replaced. *)
Publish(s) ==
    /\ ticket = s \/ s \in abandoned
    /\ Move(s, "filling", "published")
    /\ UNCHANGED <<ticket, abandoned, certified>>

Discard(s) ==
    /\ Move(s, "published", "discarded")
    /\ UNCHANGED <<ticket, abandoned, certified>>

Redeem ==
    /\ ticket # None
    /\ journey[ticket] = "discarded"
    /\ ticket' = None
    /\ UNCHANGED <<journey, abandoned, certified>>

Certify(s) ==
    /\ journey[s] = "discarded"
    /\ ticket # s
    /\ certified' = s
    /\ UNCHANGED <<journey, ticket, abandoned>>

(* A later run that fails replaces the certificate by a failed record. *)
Revoke ==
    /\ certified' = None
    /\ UNCHANGED <<journey, ticket, abandoned>>

Next ==
    \/ \E s \in Sessions :
           Begin(s) \/ Issue(s) \/ Publish(s) \/ Discard(s) \/ Certify(s)
    \/ Redeem
    \/ Revoke

Spec == Init /\ [][Next]_vars
=============================================================================
