------------------------------ MODULE SSEParser -----------------------------
(***************************************************************************)
(* SSEParser of src/openai_stream.py: the incremental parser of a          *)
(* text/event-stream.  The bytes are tokens: a field's name with its colon *)
(* ("data", "event", "id"), "note" for the colon of a comment, "cr", "lf", *)
(* "bom", "lead" and "wide" for the two bytes of one character, and any    *)
(* other token is a piece of a value.                                      *)
(***************************************************************************)
EXTENDS Integers, SequencesExt

CONSTANTS MaxLine, MaxEvent   (* In bytes: one per token.                  *)

\* half: the decoder holds the first byte of a character; line: the characters of
\* the open line; bytes: of the open event; out: the events of this call; bad: it raises.
NewParser ==
  [half |-> FALSE, line |-> <<>>, bytes |-> 0, cr |-> FALSE, start |-> TRUE,
   data |-> <<>>, event |-> <<>>, id |-> <<>>, out |-> <<>>, bad |-> FALSE]

Size(line) == Len(line) + Len(SelectSeq(line, LAMBDA c : c = "wide"))

dispatch_event(p) ==
  IF p.data = <<>>
  THEN [p EXCEPT !.event = <<>>]
  ELSE [p EXCEPT !.out = Append(@, [data |-> p.data, event |-> p.event, id |-> p.id]),
                 !.data = <<>>, !.event = <<>>]

Field(p, name, value) ==
  CASE name = "data"  -> [p EXCEPT !.data = Append(@, value)]
    [] name = "event" -> [p EXCEPT !.event = value]
    [] name = "id"    -> [p EXCEPT !.id = value]
    [] OTHER          -> p

finish_line(p) ==
  LET size == p.bytes + Size(p.line) + 1
      q    == [p EXCEPT !.line = <<>>, !.bytes = size]
  IN  IF p.line = <<>> THEN [dispatch_event(p) EXCEPT !.bytes = 0]
      ELSE IF size > MaxEvent THEN [q EXCEPT !.bad = TRUE]
      ELSE Field(q, Head(p.line), Tail(p.line))

\* Mutant: the LF of a CR LF ends a line of its own.
consume_text_TwoEnds(p, c) ==
  LET q == IF p.cr THEN finish_line([p EXCEPT !.cr = FALSE]) ELSE p
  IN  CASE q.bad    -> q
        [] c = "cr" -> [q EXCEPT !.cr = TRUE]
        [] c = "lf" -> finish_line(q)
        [] OTHER    -> [q EXCEPT !.line = Append(@, c)]

\* One character: a CR ends its line when it is known what follows it.
consume_text(p, c) ==
  LET s    == [p EXCEPT !.start = FALSE]
      q    == IF p.cr THEN finish_line([s EXCEPT !.cr = FALSE]) ELSE s
      line == Append(q.line, c)
  IN  IF q.bad \/ (c = "lf" /\ p.cr) THEN q
      ELSE CASE c = "lf" -> finish_line(q)
             [] c = "cr" -> [q EXCEPT !.cr = TRUE]
             [] c = "bom" /\ p.start -> q
             [] OTHER -> [q EXCEPT !.line = line, !.bad = Size(line) > MaxLine]

\* The incremental decoder: what it holds, and what the chunk adds to it.
Undecoded(p, chunk) == IF p.half THEN <<"lead">> \o chunk ELSE chunk

Utf8(bytes) ==
  \A k \in DOMAIN bytes : bytes[k] # "bad" /\ (bytes[k] = "wide" <=> k > 1 /\ bytes[k - 1] = "lead")

Characters(bytes) == SelectSeq(bytes, LAMBDA c : c # "lead")

close(p) ==
  LET q == [p EXCEPT !.cr = FALSE]
      r == IF p.cr \/ p.line # <<>> THEN finish_line(q) ELSE q
  IN  IF p.half \/ r.bad THEN [q EXCEPT !.bad = TRUE] ELSE dispatch_event(r)
=============================================================================
