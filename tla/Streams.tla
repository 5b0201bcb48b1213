------------------------------ MODULE Streams -------------------------------
(* Bodies and the stream builtins (body.rs, stream.rs): readers of one body  *)
(* attached to a run, each collecting it, decoding it as text, reading a     *)
(* range of it or spilling it, chunk by chunk, under the run's byte pool.    *)
(* A body is a sequence of bytes; a byte is the "a" of ASCII, a lead of two  *)
(* or three bytes, or a continuation "t".  How the producer cuts it into     *)
(* chunks is its choice.                                                     *)
EXTENDS Tallies, Sequences

CONSTANTS Readers,    \* the invocations that read the body
          Bodies,   \* the bodies
          BytePool,       \* the run's byte pool
          SpillLimit, \* least of max-bytes, the grant and the host's ceiling
          Offsets,    \* where a range may start and stop
          MaxChunk    \* bound on the size of a chunk

VARIABLES body,  \* [content, shape, stated]: what is attached; `stated` is its len_hint
          slot,  \* whether the attached body is still there to take
          remaining,  \* the bytes left in the run's pool
          late,  \* the run's deadline has passed
          rd     \* reader -> what it is doing

streamVars == <<body, slot, remaining, late, rd>>

Bytes == {"a", "l", "m", "t"}

StreamsAssumption ==
    /\ IsFiniteSet(Readers)
    /\ Bodies \subseteq Seq(Bytes)
    /\ Offsets \subseteq Nat
    /\ BytePool \in Nat /\ SpillLimit \in Nat /\ MaxChunk \in Nat

Shapes == {"bytes", "seekable", "replay", "once"}
Ops == {[op |-> "collect"], [op |-> "text"], [op |-> "spill"]}
       \cup { [op |-> "range", start |-> s, stop |-> e] : s, e \in Offsets }

Idle == [pc |-> "idle", ask |-> [op |-> "none"], rest |-> << >>, carry |-> << >>,
         out |-> << >>, drawn |-> 0, error |-> "none"]

-----------------------------------------------------------------------------
(* UTF-8.                                                                    *)

Width(byte) == CASE byte = "a" -> 1 [] byte = "l" -> 2 [] byte = "m" -> 3 [] OTHER -> 0

(* Is there a whole sequence at n, and where does it end?                    *)
Whole(s, n) ==
    /\ n < Len(s) /\ Width(s[n + 1]) \in 1 .. Len(s) - n
    /\ \A i \in 2 .. Width(s[n + 1]) : s[n + i] = "t"
After(s, n) == n + Width(s[n + 1])

(* The positions a decoder comes to from n, whole sequence by whole sequence, *)
(* and the one it stops at.                                                  *)
Positions(s, n) ==
    { m \in 0 .. Len(s) :
        \A S \in SUBSET (0 .. Len(s)) :
            n \in S /\ (\A x \in S : Whole(s, x) => After(s, x) \in S) => m \in S }
ValidUpTo(s) == CHOOSE n \in Positions(s, 0) : ~Whole(s, n)

IsText(s) == ValidUpTo(s) = Len(s)

(* The bytes after the valid ones end inside a sequence more could complete  *)
(* (`error_len` is None).                                                    *)
Unfinished(s) ==
    LET tail == SubSeq(s, ValidUpTo(s) + 1, Len(s))
    IN  Len(tail) < Width(tail[1]) /\ \A i \in 2..Len(tail) : tail[i] = "t"

(* Each chunk judged by itself.                                              *)
AdmitAlone(carry, chunk) ==
    IF IsText(chunk) THEN [ok |-> TRUE, valid |-> chunk, carry |-> << >>]
    ELSE [ok |-> FALSE]

(* Utf8Checked::admit: what of carry and chunk passes, and what is held for  *)
(* the next chunk.                                                           *)
Admit(carry, chunk) ==
    LET joined == carry \o chunk
        upTo == ValidUpTo(joined)
    IN  IF upTo = Len(joined) THEN [ok |-> TRUE, valid |-> joined, carry |-> << >>]
        ELSE IF Unfinished(joined)
             THEN [ok |-> TRUE, valid |-> SubSeq(joined, 1, upTo),
                   carry |-> SubSeq(joined, upTo + 1, Len(joined))]
             ELSE [ok |-> FALSE]

-----------------------------------------------------------------------------
StreamsInit ==
    /\ \E c \in Bodies, s \in Shapes, stated \in BOOLEAN :
         /\ s = "bytes" => stated
         /\ s = "once" => ~stated
         /\ body = [content |-> c, shape |-> s, stated |-> stated]
    /\ slot = TRUE
    /\ remaining = BytePool
    /\ late = FALSE
    /\ rd = [r \in Readers |-> Idle]

Length == Len(body.content)

(* The reader ends with an error and forgets what it drew.                   *)
FailKeepingDraw(r, error) ==
    /\ rd' = [rd EXCEPT ![r].pc = "failed", ![r].error = error, ![r].out = << >>,
                        ![r].drawn = 0]
    /\ UNCHANGED remaining

(* The reader ends with an error, and gives back what it drew.               *)
FailWith(r, error) ==
    /\ rd' = [rd EXCEPT ![r].pc = "failed", ![r].error = error, ![r].out = << >>,
                        ![r].drawn = 0]
    /\ remaining' = remaining + rd[r].drawn

Slice(ask) ==
    SubSeq(body.content, ask.start + 1, IF ask.stop < Length THEN ask.stop ELSE Length)

Unsatisfiable(ask) == ask.start > Length \/ (ask.start = Length /\ Length > 0)

(* What is refused before a byte is read, by the kind of the request.        *)
Refusal(ask) ==
    CASE ask.op = "range" ->
            IF ask.stop < ask.start THEN "invalid"
            ELSE IF body.stated /\ Unsatisfiable(ask) THEN "unsatisfiable"
            ELSE IF body.shape \in {"once", "replay"} THEN "unsupported"
            ELSE "none"
      [] ask.op = "spill" ->
            IF body.stated /\ Length > SpillLimit THEN "over" ELSE "none"
      [] ask.op = "text" /\ body.shape = "bytes" ->
            IF IsText(body.content) THEN "none" ELSE "malformed"
      [] OTHER ->
            IF body.shape # "bytes" /\ body.stated /\ Length > remaining THEN "over" ELSE "none"

(* A reader takes the attached body: a handle on one that can be read again, *)
(* or the one-shot itself if no one was first.  A buffer is answered at once *)
(* and draws nothing; a stream is opened, at the offset for a range.         *)
Open(r, ask) ==
    LET answered(result) == rd' = [rd EXCEPT ![r].pc = "done", ![r].ask = ask, ![r].out = result]
        refused(error) == rd' = [rd EXCEPT ![r].pc = "failed", ![r].ask = ask, ![r].error = error]
        opened(rest) == rd' = [rd EXCEPT ![r].pc = "reading", ![r].ask = ask, ![r].rest = rest]
    IN  /\ rd[r].pc = "idle"
        /\ slot' = (slot /\ body.shape # "once")
        /\ \/ ~slot /\ refused("conflict")
           \/ slot /\ Refusal(ask) # "none" /\ refused(Refusal(ask))
           \/ /\ slot /\ Refusal(ask) = "none"
              /\ body.shape = "bytes" /\ ask.op # "spill"
              /\ answered(IF ask.op = "range" THEN Slice(ask) ELSE body.content)
           \/ /\ slot /\ Refusal(ask) = "none"
              /\ body.shape = "bytes" => ask.op = "spill"
              /\ opened(IF ask.op = "range"
                        THEN SubSeq(body.content, ask.start + 1, Length) ELSE body.content)
        /\ UNCHANGED <<body, remaining, late>>

Wanted(r) == rd[r].ask.stop - rd[r].ask.start

(* What a chunk adds to the buffer: in a range, only what is still wanted.   *)
Taken(r, chunk) ==
    IF rd[r].ask.op # "range" \/ Len(chunk) <= Wanted(r) - Len(rd[r].out) THEN chunk
    ELSE SubSeq(chunk, 1, Wanted(r) - Len(rd[r].out))

(* The producer hands the next k bytes to a reader.                          *)
Chunk(r, k) ==
    LET me == rd[r]
        chunk == SubSeq(me.rest, 1, k)
        admitted == IF me.ask.op = "text" THEN Admit(me.carry, chunk)
                    ELSE [ok |-> TRUE, valid |-> Taken(r, chunk), carry |-> << >>]
        draw == IF me.ask.op = "spill" THEN 0 ELSE Len(admitted.valid)
    IN  /\ me.pc = "reading"
        /\ k \in 1..Len(me.rest)
        /\ me.ask.op = "range" => Len(me.out) < Wanted(r)
        /\ \/ late /\ body.shape = "once" /\ FailWith(r, "over")
           \/ /\ late => body.shape # "once"
              /\ ~admitted.ok /\ FailWith(r, "malformed")
           \/ /\ late => body.shape # "once"
              /\ admitted.ok
              /\ draw > remaining \/ (me.ask.op = "spill" /\ Len(me.out) + k > SpillLimit)
              /\ FailWith(r, "over")
           \/ /\ late => body.shape # "once"
              /\ admitted.ok
              /\ draw <= remaining
              /\ me.ask.op = "spill" => Len(me.out) + k <= SpillLimit
              /\ remaining' = remaining - draw
              /\ rd' = [rd EXCEPT ![r].rest = SubSeq(@, k + 1, Len(@)),
                                  ![r].carry = admitted.carry,
                                  ![r].out = @ \o admitted.valid,
                                  ![r].drawn = @ + draw]
        /\ UNCHANGED <<body, slot, late>>

(* The stream ends, or the range has what it wanted: bytes still held by the *)
(* decoder are a sequence cut short; an empty range of a body of unstated    *)
(* length started past its end.                                              *)
EndDroppingCarry(r) ==
    /\ rd[r].pc = "reading"
    /\ rd[r].rest = << >> \/ (rd[r].ask.op = "range" /\ Len(rd[r].out) = Wanted(r))
    /\ rd' = [rd EXCEPT ![r].pc = "done"]
    /\ UNCHANGED <<remaining, body, slot, late>>

End(r) ==
    LET me == rd[r]
        beyond == /\ me.ask.op = "range" /\ me.out = << >> /\ me.ask.start > 0
                  /\ Wanted(r) # 0 /\ ~body.stated
    IN  /\ me.pc = "reading"
        /\ me.rest = << >> \/ (me.ask.op = "range" /\ Len(me.out) = Wanted(r))
        /\ \/ me.carry # << >> /\ FailWith(r, "malformed")
           \/ beyond /\ FailWith(r, "unsatisfiable")
           \/ /\ me.carry = << >> /\ ~beyond
              /\ rd' = [rd EXCEPT ![r].pc = "done"]
              /\ UNCHANGED remaining
        /\ UNCHANGED <<body, slot, late>>

(* The producer fails part-way.                                              *)
Break(r) ==
    /\ rd[r].pc = "reading"
    /\ FailWith(r, "source")
    /\ UNCHANGED <<body, slot, late>>

(* The future that reads is dropped: nothing is handed out, and what it drew *)
(* stays drawn from the run's pool.                                          *)
Abandon(r) ==
    /\ rd[r].pc = "reading"
    /\ rd' = [rd EXCEPT ![r].pc = "dropped", ![r].out = << >>]
    /\ UNCHANGED <<body, slot, remaining, late>>

Expire == ~late /\ late' = TRUE /\ UNCHANGED <<body, slot, remaining, rd>>

StreamsNext ==
    \/ \E r \in Readers :
         \/ \E ask \in Ops : Open(r, ask)
         \/ \E k \in 1..MaxChunk : Chunk(r, k)
         \/ End(r)
         \/ Break(r)
         \/ Abandon(r)
    \/ Expire

StreamsSpec == StreamsInit /\ [][StreamsNext]_streamVars

-----------------------------------------------------------------------------
(* An answer is the whole of what was asked for, however the producer cut it *)
(* into chunks, whatever else ran on the pool: never a shorter body, and a   *)
(* decoded one is well-formed text (Body::collect_within, urn:stream:text,   *)
(* urn:stream:range, urn:stream:spill).                                      *)
NeverShorter ==
    \A r \in Readers : rd[r].pc = "done" =>
        /\ rd[r].ask.op # "range" => rd[r].out = body.content
        /\ rd[r].ask.op = "range" => rd[r].out = Slice(rd[r].ask)
        /\ rd[r].ask.op = "text" => IsText(body.content)
        /\ rd[r].ask.op = "spill" => Length <= SpillLimit

(* A body is refused as malformed only if it is: a sequence split across     *)
(* chunks is no fault of the text (Utf8Checked).                             *)
OnlyMalformedRefused ==
    \A r \in Readers : rd[r].error = "malformed" => ~IsText(body.content)

(* The pool is charged for exactly the streamed bytes that are held: a       *)
(* reader that fails part-way holds nothing and owes nothing, and buffers    *)
(* draw nothing (Body::collect_within, read_range).                          *)
PoolChargedForHeld ==
    /\ remaining + Tally(Readers, [r \in Readers |-> rd[r].drawn]) = BytePool
    /\ \A r \in Readers :
          /\ rd[r].pc = "failed" => rd[r].drawn = 0
          /\ rd[r].pc \in {"reading", "done"} =>
               rd[r].drawn = IF body.shape = "bytes" \/ rd[r].ask.op = "spill"
                             THEN 0 ELSE Len(rd[r].out)

(* A streamed body is answered whole or not at all, refused as malformed only *)
(* if it is, and the pool is charged for what is held (collect_within,       *)
(* Utf8Checked, read_range).                                                 *)
StreamsHold == NeverShorter /\ OnlyMalformedRefused /\ PoolChargedForHeld
=============================================================================
