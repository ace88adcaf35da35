--------------------------- MODULE ProgressParser ---------------------------
(***************************************************************************)
(* drain_progress: FFmpeg's progress protocol is read from a pipe in       *)
(* pieces that end anywhere, each pushed through ProgressParser, and the   *)
(* events of each push are recorded in a ProgressSummary.                  *)
(*                                                                         *)
(* A line is its text in parts, perhaps a carriage return, and a line      *)
(* feed; a piece may end between any two of them.  Only all parts together *)
(* make a line that is understood.                                         *)
(***************************************************************************)
EXTENDS Integers, FiniteSets, SequencesExt

CONSTANTS
    Lines,    \* what FFmpeg may write: a key, a value, the sizes of the parts
    Worth,    \* the texts that are numbers, and what they are worth
    MaxLines, \* bound on the lines that FFmpeg writes
    Limit     \* MAX_PENDING_BYTES

ASSUME ProgressAssumption ==
    /\ \A line \in Lines :
         /\ line \in [key : STRING, value : STRING, parts : Seq(Nat), cr : BOOLEAN]
         /\ line.parts # <<>>
    /\ Worth \in [DOMAIN Worth -> Nat] /\ "N/A" \notin DOMAIN Worth
    /\ MaxLines \in Nat /\ Limit \in Nat

VARIABLES
    script,    \* the lines FFmpeg writes
    taken,     \* how much has been read of them
    pending,   \* ProgressParser::pending
    block,     \* ProgressParser::current: numbers of the block so far
    blockSize, \* ProgressParser::current_bytes
    summary,   \* ProgressSummary
    drained    \* what drain_progress returned, or none

progressVars == <<script, taken, pending, block, blockSize, summary, drained>>

Sum(values) ==
    LET sums[i \in 0..Len(values)] ==
          IF i = 0 THEN 0 ELSE sums[i - 1] + values[i]
    IN  sums[Len(values)]

Text(line, part) == [kind |-> "text", line |-> line, part |-> part]
Return == [kind |-> "return"]
Feed == [kind |-> "feed"]

TextOf(line) == [part \in 1..Len(line.parts) |-> Text(line, part)]

Written(line) ==
    TextOf(line) \o (IF line.cr THEN <<Return, Feed>> ELSE <<Feed>>)

(* The first n lines, and how many lines have ended at a place.            *)
Output(n) ==
    LET lines[i \in 0..n] ==
          IF i = 0 THEN <<>> ELSE lines[i - 1] \o Written(script[i])
    IN  lines[n]

Stream == Output(Len(script))

End(n) == Len(Output(n))

EndedAt(place) == Max({n \in 0..Len(script) : End(n) <= place})

Numbers == {"frame", "out_time_us", "speed"}

ProgressTypeOK ==
    /\ script \in Seq(Lines) /\ Len(script) <= MaxLines
    /\ taken \in 0..Len(Stream)
    /\ DOMAIN block \subseteq Numbers
    /\ blockSize \in Nat
    /\ summary \in [sum : Nat, count : Nat, finished : BOOLEAN]
    /\ drained \in {"none", "summary", "progress error", "io error"}

ProgressInit ==
    /\ script \in UNION {[1..n -> Lines] : n \in 0..MaxLines}
    /\ taken = 0 /\ pending = <<>> /\ block = <<>> /\ blockSize = 0
    /\ summary = [sum |-> 0, count |-> 0, finished |-> FALSE]
    /\ drained = "none"

-----------------------------------------------------------------------------
(* ProgressParser, as a function of its state and of what is pushed.       *)

UnitSize(unit) ==
    IF unit.kind = "text" THEN unit.line.parts[unit.part] ELSE 1

Size(units) == Sum([i \in 1..Len(units) |-> UnitSize(units[i])])

Refused(parser) == [parser EXCEPT !.ok = FALSE]

Understood(units) == \E line \in Lines : units = TextOf(line)

(* parse_number and parse_speed; no number is "N/A".                       *)
Number(parser, key) ==
    IF key \in DOMAIN parser.block THEN parser.block[key] ELSE "N/A"

(* Variant: the next block starts with the numbers of the one before. *)
EmitKeeping(parser, marker) ==
    IF \/ marker \notin {"continue", "end"}
       \/ \E key \in Numbers : Number(parser, key) \notin DOMAIN Worth \union {"N/A"}
    THEN Refused(parser)
    ELSE [parser EXCEPT
            !.size = 0,
            !.events = Append(@, [speed |-> Number(parser, "speed"),
                                  finished |-> marker = "end"])]

Emit(parser, marker) ==
    IF \/ marker \notin {"continue", "end"}
       \/ \E key \in Numbers : Number(parser, key) \notin DOMAIN Worth \union {"N/A"}
    THEN Refused(parser)
    ELSE [parser EXCEPT
            !.block = <<>>, !.size = 0,
            !.events = Append(@, [speed |-> Number(parser, "speed"),
                                  finished |-> marker = "end"])]

Insert(parser, key, value) ==
    [parser EXCEPT
       !.block = [k \in DOMAIN @ \union {key} |-> IF k = key THEN value ELSE @[k]]]

(* A value that is no text is refused at once, not when it is needed.      *)
Garbled == "not UTF-8"

Take(parser, line) ==
    CASE line.key = "progress" -> Emit(parser, line.value)
      [] line.key \in Numbers /\ line.value = Garbled -> Refused(parser)
      [] line.key \in Numbers /\ line.value # Garbled ->
           Insert(parser, line.key, line.value)
      [] OTHER -> parser

ConsumeLine(parser, units) ==
    LET counted == [parser EXCEPT !.size = @ + Size(units) + 1]
    IN  IF counted.size > Limit THEN Refused(counted)
        ELSE IF Understood(units) THEN Take(counted, units[1].line)
        ELSE counted

FinishLine(parser) ==
    LET units == parser.pending
        stripped == IF units # <<>> /\ Last(units) = Return
                    THEN Front(units) ELSE units
    IN  IF Size(units) > Limit THEN Refused(parser)
        ELSE ConsumeLine([parser EXCEPT !.pending = <<>>], stripped)

PushUnit(parser, unit) ==
    CASE ~parser.ok -> parser
      [] parser.ok /\ unit = Feed -> FinishLine(parser)
      [] parser.ok /\ unit # Feed -> [parser EXCEPT !.pending = Append(@, unit)]

(* What is left without a line feed is held to the limit as a whole.       *)
Push(parser, piece) ==
    LET pushed[i \in 0..Len(piece)] ==
          IF i = 0 THEN parser ELSE PushUnit(pushed[i - 1], piece[i])
        last == pushed[Len(piece)]
    IN  IF Size(last.pending) > Limit THEN Refused(last) ELSE last

-----------------------------------------------------------------------------
(* drain_progress *)

Speed(value) == IF value = "N/A" THEN 0 ELSE Worth[value]

Record(sum, events) ==
    [sum |-> sum.sum + Sum([i \in 1..Len(events) |-> Speed(events[i].speed)]),
     count |-> sum.count + Sum([i \in 1..Len(events) |->
                                  IF events[i].speed = "N/A" THEN 0 ELSE 1]),
     finished |-> sum.finished \/ \E i \in 1..Len(events) : events[i].finished]

Parser == [pending |-> pending, block |-> block, size |-> blockSize,
           events |-> <<>>, ok |-> TRUE]

(* The parser of a refused push is dropped with all it held.               *)
ReadPiece ==
    /\ drained = "none"
    /\ LET stream == Stream
       IN  \E n \in taken + 1 .. Len(stream) :
             LET parser == Push(Parser, SubSeq(stream, taken + 1, n))
             IN  /\ taken' = n
                 /\ \/ /\ parser.ok
                       /\ pending' = parser.pending
                       /\ block' = parser.block /\ blockSize' = parser.size
                       /\ summary' = Record(summary, parser.events)
                       /\ UNCHANGED drained
                    \/ /\ ~parser.ok
                       /\ drained' = "progress error"
                       /\ pending' = <<>> /\ block' = <<>> /\ blockSize' = 0
                       /\ UNCHANGED summary
    /\ UNCHANGED script

(* FFmpeg closes the pipe, in the middle of a line if it died there.       *)
EndOfFile ==
    /\ drained = "none"
    /\ drained' = "summary"
    /\ UNCHANGED <<script, taken, pending, block, blockSize, summary>>

(* Reading the pipe fails; whatever was summed up is dropped.              *)
ReadFails ==
    /\ drained = "none"
    /\ drained' = "io error"
    /\ UNCHANGED <<script, taken, pending, block, blockSize, summary>>

ProgressNext == ReadPiece \/ EndOfFile \/ ReadFails

ProgressSpec == ProgressInit /\ [][ProgressNext]_progressVars

-----------------------------------------------------------------------------
(* Properties *)

(* What was read, in lines: how many of them ended, and the one that did   *)
(* not.                                                                    *)
Ended == EndedAt(taken)

Unended == SubSeq(Stream, End(Ended) + 1, taken)

(* A marker ends a block, which starts after the marker before it.         *)
Marker(i) == script[i].key = "progress"

Opening(i) == Max({j \in 1 .. i - 1 : Marker(j)} \union {0}) + 1

LastOf(key, lines) ==
    LET found == {i \in lines : script[i].key = key}
    IN  IF found = {} THEN "N/A" ELSE script[Max(found)].value

BlockSpeed(i) == LastOf("speed", Opening(i) .. i)

(* The size of the first n lines, a line feed each and no carriage return. *)
SizeOf(n) == Sum([i \in 1..n |-> Sum(script[i].parts) + 1])

(* Up to line i its block is not too long, what line i gives is text, and  *)
(* if it ends the block, it does so with a known marker and the last       *)
(* numbers in the block are numbers.                                       *)
SoundLine(i) ==
    /\ SizeOf(i) - SizeOf(Opening(i) - 1) <= Limit
    /\ script[i].key \in Numbers => script[i].value # Garbled
    /\ Marker(i) =>
         /\ script[i].value \in {"continue", "end"}
         /\ \A key \in Numbers :
              LastOf(key, Opening(i) .. i) \in DOMAIN Worth \union {"N/A"}

Sound == Size(Unended) <= Limit /\ \A i \in 1..Ended : SoundLine(i)

Timed(n) == {i \in 1..n : Marker(i) /\ BlockSpeed(i) # "N/A"}

(* The summary of the blocks that are complete after n lines.              *)
SummaryOf(n) ==
    [sum |-> Sum([i \in 1..n |-> IF i \in Timed(n) THEN Speed(BlockSpeed(i)) ELSE 0]),
     count |-> Cardinality(Timed(n)),
     finished |-> \E i \in 1..n : Marker(i) /\ script[i].value = "end"]

(* However the pipe cuts FFmpeg's output, the summary is that of its       *)
(* complete blocks, each counted once with its own last speed, and the     *)
(* output is refused if and only if it is malformed or too long as such.   *)
SummaryIsOfTheStream ==
    /\ drained = "summary" => Sound /\ summary = SummaryOf(Ended)
    /\ drained = "progress error" => ~Sound
=============================================================================
