---------------------------- MODULE MCFileCommands ----------------------------
(***************************************************************************)
(* What the commands leave in files and read from FFmpeg, one of the four  *)
(* at a time: the media commands, the parser of FFmpeg's progress that     *)
(* they believe, prepare-package, and the release commands.  They share no *)
(* state, so a behaviour follows one of them.                              *)
(***************************************************************************)
EXTENDS MCMediaCommands, ProgressParser, PackageStaging, ReleaseSigning

VARIABLES family

Line(key, value, parts, cr) == [key |-> key, value |-> value, parts |-> parts, cr |-> cr]

(* One line is as long as the limit allows, one is longer.                 *)
MCLines ==
    {Line("speed", "1", <<1, 1>>, FALSE), Line("speed", "3", <<1, 1>>, TRUE),
     Line("speed", "-1", <<1, 1>>, FALSE), Line("speed", Garbled, <<1, 1>>, FALSE),
     Line("frame", "N/A", <<1, 1>>, FALSE),
     Line("progress", "continue", <<1, 1>>, FALSE),
     Line("progress", "end", <<1, 1>>, TRUE),
     Line("progress", "maybe", <<1, 1>>, FALSE),
     Line("future", "x", <<Limit \div 2, (Limit - 1) \div 2>>, TRUE),
     Line("future", "x", <<Limit \div 2, Limit \div 2 + 2>>, FALSE)}

MCWorth == [text \in {"1", "3"} |-> IF text = "1" THEN 1 ELSE 3]

(* Of the families that stay at rest, one initial state is enough.         *)
FileInit ==
    /\ family \in {"media", "progress", "staging", "signing"}
    /\ Init /\ ProgressInit /\ StagingInit /\ SigningInit
    /\ family # "progress" => script = <<>>
    /\ family # "staging" => bundle = CHOOSE b \in Bundles : TRUE
    /\ family # "signing" =>
         \A a \in DOMAIN packages : packages[a].build = CHOOSE b \in Builds : TRUE

FileNext ==
    /\ UNCHANGED family
    /\ \/ /\ family = "media" /\ Next
          /\ UNCHANGED <<progressVars, stagingVars, signingVars>>
       \/ /\ family = "progress" /\ ProgressNext
          /\ UNCHANGED <<vars, stagingVars, signingVars>>
       \/ /\ family = "staging" /\ StagingNext
          /\ UNCHANGED <<vars, progressVars, signingVars>>
       \/ /\ family = "signing" /\ SigningNext
          /\ UNCHANGED <<vars, progressVars, stagingVars>>

FileSpec ==
    FileInit /\ [][FileNext]_<<family, vars, progressVars, stagingVars, signingVars>>
=============================================================================
