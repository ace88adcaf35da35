--------------------------- MODULE MCEvidenceGate ---------------------------
(* A matrix with the two rows whose proofs must agree, for TLC. *)
EXTENDS EvidenceGate, TLC

Gemini == [spike |-> "gemini", target |-> "t1", backend |-> "none"]
Distribution == [spike |-> "distribution", target |-> "t1", backend |-> "none"]
MCMatrix == {Gemini, Distribution}

Proof(row, component, sound, checkpoint, offset, lock, artifacts) ==
    [kind |-> "proof", row |-> row, component |-> component, sound |-> sound,
     checkpoint |-> checkpoint, offset |-> offset, lock |-> lock,
     artifacts |-> artifacts]

Stage(id, offset) == Proof(Gemini, "gemini_stage", TRUE, id, offset, 0, 0)
Resume(id, offset) == Proof(Gemini, "gemini_resume", TRUE, id, offset, 0, 0)
Ffmpeg(lock) ==
    Proof(Distribution, "distribution_ffmpeg", TRUE, 0, 0, lock, 0)
Package(lock, artifacts) ==
    Proof(Distribution, "distribution_package", TRUE, 0, 0, lock, artifacts)
Update(artifacts) ==
    Proof(Distribution, "distribution_update", TRUE, 0, 0, 0, artifacts)

Unsound == Proof(Gemini, "gemini_resume", FALSE, 1, 1, 0, 0)
Unmatched == Proof([Gemini EXCEPT !.target = "t2"], "gemini_stage", TRUE,
                   1, 1, 0, 0)
Foreign == Proof(Distribution, "gemini_stage", TRUE, 2, 1, 0, 0)

MCDocuments ==
    {Stage(1, 1), Stage(2, 1), Stage(1, 2), Resume(1, 1), Resume(2, 1),
     Ffmpeg(1), Ffmpeg(2), Package(1, 1), Update(1), Update(2),
     Unsound, Unmatched, Foreign,
     [kind |-> "generic"], [kind |-> "refused"]}

MCElsewhere == {Resume(1, 1)}

MCCollected ==
    "a" :> Stage(1, 1) @@ "b" :> Resume(1, 1) @@ "c" :> Ffmpeg(1) @@
    "d" :> Package(1, 1) @@ "e" :> Update(1) @@ "f" :> Nothing

(* Both orders of every pair of names. *)
Orders == {<<"a", "b", "c", "d", "e", "f">>, <<"f", "e", "d", "c", "b", "a">>}
MCListings ==
    {SelectSeq(order, LAMBDA name : name \in present) :
        order \in Orders, present \in SUBSET Names}
=============================================================================
