---------------------------- MODULE StreamRequest ---------------------------
(***************************************************************************)
(* One request of the trace client: run_one of src/openai_trace_client.py  *)
(* consumes stream_openai of src/openai_stream.py, which reads a response  *)
(* under a timeout for one network operation and a deadline for the whole  *)
(* stream.  The server, the socket and http.client's read are external:    *)
(* read(n) returns when it has n bytes or the response has ended, and the  *)
(* timeout is one for every wait of the socket within it.                  *)
(***************************************************************************)
EXTENDS SSEParser

CONSTANTS
  Wires,         (* What a server may send.                                *)
  Timeout,       (* For one network operation.                             *)
  MaxDuration,   (* For the whole stream.                                  *)
  ReadSize, MaxResponse,
  LastSend       (* Bound: the server falls silent at this time.           *)

VARIABLES
  server,   (* wire: what it sends; sent: how much; ending: of the response *)
  clock,    (* now; heard: when the present wait of the socket began; wait:
               its timeout; limited: the deadline and not Timeout bounds it *)
  client,   (* pc; taken: bytes read; text: what the parser has yet to consume of
               the chunk; parser; pending: events that run_one has yet to consume;
               readAt: when the last read returned; closed: the parser has
               been                                                         *)
  run       (* run_one's variables: events, done, first, usage, status      *)

streamVars == <<server, clock, client, run>>

deadline == MaxDuration

Least(m, n) == IF m < n THEN m ELSE n

StreamInit ==
  /\ \E w \in Wires : server = [wire |-> w, sent |-> 0, ending |-> "open"]
  /\ clock = [now |-> 0, heard |-> 0, wait |-> Least(Timeout, MaxDuration),
              limited |-> MaxDuration <= Timeout]
  /\ client = [pc |-> "open", taken |-> 0, text |-> <<>>,
                parser |-> NewParser, pending |-> <<>>, readAt |-> 0, closed |-> FALSE]
  /\ run = [events |-> <<>>, done |-> FALSE, first |-> -1, usage |-> "none", status |-> "running"]

At(pc) == client.pc = pc

Late == clock.now >= deadline

(***************************************************************************)
(* run_one                                                                 *)
(***************************************************************************)
Finish(status) ==
  /\ client' = [client EXCEPT !.pc = "done", !.pending = <<>>]
  /\ run' = [run EXCEPT !.status = status]
  /\ UNCHANGED <<server, clock>>

\* Mutant: the end of the response is taken for [DONE].
Verdict_NoDone == IF run.first >= 0 /\ run.usage = "usage" THEN "completed" ELSE "error"

\* MissingDoneEvent, MissingGeneratedContent, MissingUsage, a token count mismatch
Verdict ==
  IF run.done /\ run.first >= 0 /\ run.usage = "usage" THEN "completed" ELSE "error"

\* parse_openai_event: one data line with a known object, or else a protocol error.
Chunk(e) ==
  IF e.data \in {<< <<k>> >> : k \in {"DONE", "role", "text", "usage", "miscount"}}
  THEN e.data[1][1] ELSE "junk"

\* [DONE] ends iter_openai_events, which closes the stream.
Consume ==
  /\ At("deliver") /\ client.pending # <<>>
  /\ LET e == Head(client.pending)
         k == Chunk(e)
     IN  /\ run' = [run EXCEPT
              !.events = Append(@, e), !.done = k = "DONE",
              !.first  = IF k = "text" /\ @ < 0 THEN clock.now ELSE @,
              !.usage  = IF k \in {"usage", "miscount"} THEN k ELSE @,
              !.status = IF k = "junk" THEN "error" ELSE @]
         /\ client' = [client EXCEPT
              !.pending = IF k \in {"DONE", "junk"} THEN <<>> ELSE Tail(@),
              !.pc = CASE k = "junk" -> "done" [] k = "DONE" -> "judge" [] OTHER -> @]
  /\ UNCHANGED <<server, clock>>

Judge == At("judge") /\ Finish(Verdict)

(***************************************************************************)
(* stream_sse                                                              *)
(***************************************************************************)
StreamTimeout == Finish("timeout")

\* urlopen, and a status outside 200..299
Opened ==
  /\ At("open")
  /\ client' = [client EXCEPT !.pc = "loop"]
  /\ UNCHANGED <<server, clock, run>>

OpenRefused == At("open") /\ IF Late THEN StreamTimeout ELSE Finish("error")

StartRead ==
  /\ At("loop")
  /\ IF Late THEN StreamTimeout
     ELSE /\ client' = [client EXCEPT !.pc = "read"]
          /\ clock' = [clock EXCEPT !.heard = clock.now,
                         !.wait = Least(Timeout, deadline - clock.now),
                         !.limited = deadline - clock.now <= Timeout]
          /\ UNCHANGED <<server, run>>

Arrived == SubSeq(server.wire, client.taken + 1, server.sent)

ReadLength == Least(ReadSize, MaxResponse + 1 - client.taken)

TooLate == Late

\* A chunk that cannot be decoded adds nothing, not even what precedes the bad byte.
Feed(chunk) ==
  LET bytes == Undecoded(client.parser, chunk)
  IN  IF Utf8(bytes)
      THEN /\ client' = [client EXCEPT
                !.pc = "parse", !.taken = @ + Len(chunk), !.text = Characters(bytes),
                !.parser.half = Last(bytes) = "lead", !.readAt = clock.now]
           /\ UNCHANGED <<server, clock, run>>
      ELSE Finish("error")

ReadReturns ==
  /\ At("read")
  /\ Len(Arrived) >= ReadLength \/ server.ending = "ended"
  /\ LET chunk == SubSeq(Arrived, 1, Least(ReadLength, Len(Arrived)))
     IN  CASE TooLate -> StreamTimeout
           [] ~TooLate /\ chunk = <<>> ->
                /\ client' = [client EXCEPT !.pc = "close", !.readAt = clock.now, !.closed = TRUE]
                /\ UNCHANGED <<server, clock, run>>
           [] ~TooLate /\ client.taken + Len(chunk) > MaxResponse -> Finish("error")
           [] OTHER -> Feed(chunk)

\* An error in the middle of a chunk: the events before it in the chunk are lost.
Parse ==
  /\ client.pc \in {"parse", "close"}
  /\ IF client.parser.bad THEN Finish("error")
     ELSE IF client.text = <<>> /\ At("parse")
     THEN /\ client' = [client EXCEPT !.pc = "deliver", !.pending = client.parser.out, !.parser.out = <<>>]
          /\ UNCHANGED <<server, clock, run>>
     ELSE /\ client' = [client EXCEPT
               !.pc = "parse", !.text = IF At("close") THEN <<>> ELSE Tail(@),
               !.parser = IF At("close") THEN close(@) ELSE consume_text(@, Head(client.text))]
          /\ UNCHANGED <<server, clock, run>>

Delivered ==
  /\ At("deliver") /\ client.pending = <<>>
  /\ client' = [client EXCEPT !.pc = IF client.closed THEN "judge" ELSE "loop"]
  /\ UNCHANGED <<server, clock, run>>

\* Mutant: the timeout is not set on the socket.
Expired_Unset == FALSE

Expired == clock.now >= clock.heard + clock.wait

ByDeadline == clock.limited \/ Late

\* What the read has received so far is lost.
WaitExpires ==
  /\ client.pc \in {"open", "read"} /\ Expired
  /\ IF ByDeadline THEN StreamTimeout ELSE Finish("error")

\* A reset is an OSError; http.client's IncompleteRead is not, and escapes as it is.
ReadFails ==
  /\ At("read")
  /\ \/ server.ending = "reset" /\ IF Late THEN StreamTimeout ELSE Finish("error")
     \/ server.ending = "cut" /\ Finish("error")

(***************************************************************************)
(* The server and the clock                                                *)
(***************************************************************************)
Serving == client.pc \notin {"open", "parse", "close", "done"} /\ server.ending = "open" /\ clock.now <= LastSend

Send ==
  /\ Serving /\ server.sent < Len(server.wire)
  /\ server' = [server EXCEPT !.sent = @ + 1]
  /\ clock' = [clock EXCEPT !.heard = clock.now]
  /\ UNCHANGED <<client, run>>

End ==
  /\ Serving
  /\ \E ending \in {"reset", "cut"} \cup (IF server.sent = Len(server.wire) THEN {"ended"} ELSE {}) :
       server' = [server EXCEPT !.ending = ending]
  /\ UNCHANGED <<clock, client, run>>

\* The socket's timeout is noticed when it expires.
Tick ==
  /\ client.pc \notin {"parse", "close", "done"} /\ (client.pc \in {"open", "read"} => ~Expired)
  /\ clock.now <= LastSend + MaxDuration
  /\ clock' = [clock EXCEPT !.now = @ + 1]
  /\ UNCHANGED <<server, client, run>>

ClientStep ==
  \/ Opened \/ OpenRefused \/ StartRead \/ ReadReturns \/ Parse \/ Delivered \/ WaitExpires \/ ReadFails
  \/ Consume \/ Judge

StreamNext == ClientStep \/ Send \/ End \/ Tick

\* The operating system runs the client, and time passes.  Nothing is asked of the server.
StreamSpec ==
  /\ StreamInit /\ [][StreamNext]_streamVars
  /\ WF_streamVars(ClientStep) /\ WF_streamVars(Tick)

(***************************************************************************)
(* Properties                                                              *)
(***************************************************************************)
\* A timeout is reported only of a request whose deadline has passed: a server that is
\* merely silent for one read's timeout, or a broken connection, is an error.
TimeoutIsTheDeadline == run.status = "timeout" => Late

\* run_one is given no event of a read that returned at or after the deadline.
NothingReadLate == client.pending # <<>> => client.readAt < deadline

\* Whatever the server does, the request ends: no silence outlasts the timeouts.
RequestEnds == <>At("done")
=============================================================================
