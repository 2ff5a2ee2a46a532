--------------------------- MODULE MCStreamRequest --------------------------
(* Small instances of StreamRequest, and what a whole response means.        *)
EXTENDS StreamRequest

MCWires ==
  { <<"bom", "data", "text", "cr", "lf", "cr", "lf", "data", "usage", "lf", "lf", "data", "DONE", "lf", "lf">>,
    <<"note", "role", "lf", "data", "text", "cr", "cr", "data", "usage", "cr", "lf", "lf", "data", "DONE">>,
    <<"id", "lead", "wide", "lf", "data", "text", "lf", "lf", "data", "usage", "lf", "lf">>,
    [k \in 1..16 |-> "lf"],
    <<"event", "role", "lf", "lf", "data", "text", "lf", "data", "text", "lf", "lf">>,
    <<"data", "text", "lf", "lf", "data", "DONE", "lf", "lf", "data", "usage", "lf", "lf">>,
    <<"data", "text", "lf", "lf", "data", "miscount", "lf", "lf", "data", "DONE", "lf", "lf">>,
    <<"data", "text", "cr", "lf", "cr", "lf", "lead", "data", "DONE", "lf", "lf">>,
    <<"id", "role", "lf", "id", "role", "role", "role", "lf", "lf", "data", "text", "lf", "lf">>,
    <<"data", "text", "lf", "lf", "data", "text", "text", "text", "text", "text", "lf">> }

(***************************************************************************)
(* The events of a text, told without a parser: it is cut into lines at    *)
(* CR LF, CR and LF, and into blocks at the empty lines; a block with data *)
(* is an event, under the last id so far and the last type of the block.   *)
(***************************************************************************)
WellFormed(bytes) == SubSeq(bytes, 1, CHOOSE n \in 0..Len(bytes) :
  Utf8(SubSeq(bytes, 1, n)) /\ \A m \in (n + 1)..Len(bytes) : ~Utf8(SubSeq(bytes, 1, m)))

Positions(s, Holds(_)) == SelectSeq([k \in DOMAIN s |-> k], Holds)

Text(bytes) ==
  LET kept == Positions(bytes, LAMBDA k :
                /\ bytes[k] # "lead" /\ ~(k = 1 /\ bytes[k] = "bom")
                /\ ~(k > 1 /\ bytes[k - 1] = "cr" /\ bytes[k] = "lf"))
  IN  [k \in DOMAIN kept |-> bytes[kept[k]]]

Pieces(s, IsEnd(_)) ==
  FoldLeft(LAMBDA pieces, c : IF IsEnd(c) THEN Append(pieces, <<>>)
                              ELSE Front(pieces) \o <<Append(Last(pieces), c)>>,
           << <<>> >>, s)

ValuesOf(lines, name) ==
  LET named == SelectSeq(lines, LAMBDA line : line # <<>> /\ Head(line) = name)
  IN  [k \in DOMAIN named |-> Tail(named[k])]

LastOr(s) == IF s = <<>> THEN <<>> ELSE Last(s)

Events(bytes) ==
  LET lines  == Pieces(Text(WellFormed(bytes)), LAMBDA c : c \in {"cr", "lf"})
      blocks == Pieces(lines, LAMBDA line : line = <<>>)
      Before(b) == FlattenSeq(SubSeq(blocks, 1, b))
      event == [b \in DOMAIN blocks |->
                 [data |-> ValuesOf(blocks[b], "data"), event |-> LastOr(ValuesOf(blocks[b], "event")),
                  id |-> LastOr(ValuesOf(Before(b), "id"))]]
  IN  SelectSeq(event, LAMBDA e : e.data # <<>>)

Meant == [w \in Wires |-> Events(w)]

(* However the network cuts the response, run_one is given the events it    *)
(* means, in order: a prefix of them, and all of them when the response was *)
(* read to its end without [DONE].                                          *)
EventsAsSent ==
  LET meant == Meant[server.wire]
  IN  /\ IsPrefix(run.events, meant)
      /\ At("judge") /\ ~run.done => run.events = meant

(* A request counts as completed only when, of what its server sent, an      *)
(* event is [DONE] and what precedes it is a whole answer: no broken event,  *)
(* a first token, and the usage that was asked for, said last.               *)
CompletedIsWhole ==
  run.status = "completed" =>
    LET meant == Meant[server.wire]
    IN  \E d \in DOMAIN meant :
          LET before == [k \in 1..(d - 1) |-> Chunk(meant[k])]
              counts == SelectSeq(before, LAMBDA k : k \in {"usage", "miscount"})
          IN  /\ Chunk(meant[d]) = "DONE"
              /\ {"junk", "DONE"} \cap {before[k] : k \in 1..(d - 1)} = {}
              /\ \E k \in 1..(d - 1) : before[k] = "text"
              /\ counts # <<>> /\ Last(counts) = "usage"

(* What the record of a request says is what happened: completed, timed out  *)
(* and read, each only of a request that was.                                *)
OutcomeHonest == CompletedIsWhole /\ TimeoutIsTheDeadline /\ NothingReadLate
=============================================================================
