---------------------------- MODULE RecvMachine ----------------------------
(***************************************************************************)
(* CRecvMachine, the state machine that cuts the byte stream of a          *)
(* connection into messages.  It is fed whatever one receive() returned:   *)
(* a piece of a header, the end of one message and the start of the next,  *)
(* several messages at once.  A message is a header of HeaderSize bytes    *)
(* (the body size first, then the command) followed by the body.           *)
(*                                                                         *)
(* The peer writes messages of the set Messages, given as sequences of     *)
(* bytes, on the connection; TCP keeps the bytes in order and cuts them    *)
(* anywhere.  One pass of the loop of work() is one action.                *)
(***************************************************************************)
EXTENDS Naturals, Sequences, SequencesExt

CONSTANTS
    Messages,       \* the messages a peer may send, each with its header
    MaxMessages,    \* how many messages are sent on one connection
    BufferSize,     \* how many bytes one receive() asks for
    SplitsEmpty     \* TRUE: the header of an empty message may arrive in pieces

HeaderSize == 2
Accepted == 1       \* a command with a processor
Refused == 2        \* a command whose processor refuses the body
                    \* every other command has no processor

SizeOf(h) == h[1]
CommandOf(h) == h[2]

ASSUME MessagesAssumption ==
    /\ \A m \in Messages : m \in Seq(Nat) /\ Len(m) = HeaderSize + SizeOf(m)
    /\ BufferSize \in Nat \ {0} /\ SplitsEmpty \in BOOLEAN

VARIABLES
    written,    \* the messages the peer wrote on this connection
    wire,       \* the bytes that were not received yet
    buffer,     \* next_ctx: the bytes received and not handled yet
    state,      \* _current_recv_state: "header" or "body"
    finished,   \* _finished_size
    header,     \* _header
    broken,     \* work() returned handle_error: the connection is to be closed
    consumed,   \* the bytes handled on this connection
    calls       \* what on_header and on_message accepted, byte by byte

network == <<written, wire>>
vars == <<written, wire, buffer, state, finished, header, broken, consumed, calls>>

Init ==
    /\ written = <<>> /\ wire = <<>> /\ buffer = <<>>
    /\ state = "header" /\ finished = 0
    /\ header = [i \in 1..HeaderSize |-> 0]
    /\ broken = FALSE /\ consumed = <<>> /\ calls = <<>>

-----------------------------------------------------------------------------
(* The peer and the transport *)

Send(m) ==
    /\ ~broken /\ Len(written) < MaxMessages
    /\ written' = Append(written, m)
    /\ wire' = wire \o m
    /\ UNCHANGED <<buffer, state, finished, header, broken, consumed, calls>>

Received == Len(consumed) + Len(buffer)

\* The offsets inside the header of an empty message.
InsideEmpty ==
    UNION {LET start == Len(FlattenSeq(SubSeq(written, 1, k - 1)))
           IN  IF SizeOf(written[k]) = 0 THEN start + 1 .. start + HeaderSize - 1 ELSE {}
           : k \in DOMAIN written}

\* One receive(): between one byte and as many as were asked for.
Receive(n) ==
    /\ ~broken /\ buffer = <<>> /\ n \in 1..Len(wire)
    /\ SplitsEmpty \/ Received + n \notin InsideEmpty
    /\ buffer' = SubSeq(wire, 1, n)
    /\ wire' = SubSeq(wire, n + 1, Len(wire))
    /\ UNCHANGED <<written, state, finished, header, broken, consumed, calls>>

-----------------------------------------------------------------------------
(* The machine *)

set_next_state(next) == state' = next /\ finished' = 0

\* The first n bytes of the buffer are dealt with, the rest is for the next pass.
Take(n) ==
    /\ consumed' = consumed \o SubSeq(buffer, 1, n)
    /\ buffer' = SubSeq(buffer, n + 1, Len(buffer))

\* handle_error: the rest of the buffer is dropped, the machine starts over.
Fail(n) ==
    /\ broken' = TRUE
    /\ consumed' = consumed \o SubSeq(buffer, 1, n)
    /\ buffer' = <<>>
    /\ set_next_state("header")

HeaderCall(h) == <<[header |-> h, at |-> 0, byte |-> "on_header"]>>
EmptyCall(h) == <<[header |-> h, at |-> 0, byte |-> "on_message"]>>
BodyCalls(h, at, bytes) == [i \in DOMAIN bytes |-> [header |-> h, at |-> at + i - 1, byte |-> bytes[i]]]

\* A later piece of the header is copied to its start.
FilledFromStart(n) == [i \in 1..HeaderSize |-> IF i \in 1..n THEN buffer[i] ELSE header[i]]

\* _header with the first n bytes of the buffer copied in at _finished_size.
Filled(n) == [i \in 1..HeaderSize |->
    IF i \in finished + 1 .. finished + n THEN buffer[i - finished] ELSE header[i]]

HeaderPiece ==
    /\ finished + Len(buffer) < HeaderSize
    /\ header' = Filled(Len(buffer))
    /\ finished' = finished + Len(buffer)
    /\ Take(Len(buffer))
    /\ UNCHANGED <<state, broken, calls>>

HeaderComplete ==
    LET need == HeaderSize - finished
        h == Filled(need)
    IN  /\ finished + Len(buffer) >= HeaderSize
        /\ header' = h
        /\ \/ /\ CommandOf(h) \notin {Accepted, Refused}
              /\ Fail(need) /\ UNCHANGED calls
           \/ /\ CommandOf(h) \in {Accepted, Refused} /\ SizeOf(h) > 0
              /\ calls' = calls \o HeaderCall(h)
              /\ Take(need) /\ set_next_state("body") /\ UNCHANGED broken
           \/ /\ CommandOf(h) = Accepted /\ SizeOf(h) = 0
              /\ calls' = calls \o HeaderCall(h) \o EmptyCall(h)
              /\ Take(need) /\ UNCHANGED <<state, finished, broken>>
           \/ /\ CommandOf(h) = Refused /\ SizeOf(h) = 0
              /\ calls' = calls \o HeaderCall(h)
              /\ Fail(need)

handle_header ==
    /\ ~broken /\ buffer # <<>> /\ state = "header"
    /\ HeaderPiece \/ HeaderComplete
    /\ UNCHANGED network

BodyEnds == finished + Len(buffer) >= SizeOf(header)

handle_body ==
    LET n == IF BodyEnds THEN SizeOf(header) - finished ELSE Len(buffer)
    IN  /\ ~broken /\ buffer # <<>> /\ state = "body"
        /\ \/ CommandOf(header) = Refused /\ Fail(n) /\ UNCHANGED calls
           \/ /\ CommandOf(header) = Accepted
              /\ calls' = calls \o BodyCalls(header, finished, SubSeq(buffer, 1, n))
              /\ Take(n) /\ UNCHANGED broken
              /\ IF BodyEnds THEN set_next_state("header") ELSE finished' = finished + n /\ UNCHANGED state
        /\ UNCHANGED <<written, wire, header>>

\* The connection is closed, by its owner after an error or by the peer at any
\* moment between two receive() calls; before_close resets the machine, whose
\* _header keeps its bytes.
reset ==
    /\ buffer = <<>> /\ written # <<>>
    /\ written' = <<>> /\ wire' = <<>> /\ consumed' = <<>> /\ calls' = <<>>
    /\ broken' = FALSE
    /\ set_next_state("header")
    /\ UNCHANGED <<buffer, header>>

Next ==
    \/ \E m \in Messages : Send(m)
    \/ \E n \in 1..BufferSize : Receive(n)
    \/ handle_header
    \/ handle_body
    \/ reset

Spec == Init /\ [][Next]_vars

-----------------------------------------------------------------------------
(* The reference: a stream cut into messages, whatever the pieces were. *)

RECURSIVE Framing(_)
Framing(s) ==
    LET h == SubSeq(s, 1, HeaderSize)
        end == HeaderSize + SizeOf(h)
        body == SubSeq(s, HeaderSize + 1, IF Len(s) < end THEN Len(s) ELSE end)
        rest == Framing(SubSeq(s, end + 1, Len(s)))
    IN  IF Len(s) < HeaderSize
        THEN [calls |-> <<>>, broken |-> FALSE]
        ELSE IF CommandOf(h) \notin {Accepted, Refused}
        THEN [calls |-> <<>>, broken |-> TRUE]
        ELSE IF CommandOf(h) = Refused
        THEN [calls |-> HeaderCall(h), broken |-> SizeOf(h) = 0 \/ body # <<>>]
        ELSE LET own == HeaderCall(h) \o (IF SizeOf(h) = 0 THEN EmptyCall(h) ELSE BodyCalls(h, 0, body))
             IN  IF Len(s) < end
                 THEN [calls |-> own, broken |-> FALSE]
                 ELSE [calls |-> own \o rest.calls, broken |-> rest.broken]

\* Type invariant: between two passes of work() a header in progress is not
\* complete, and a body in progress has a size that is not reached yet
\* (_finished_size counts the bytes of the current state, recv_machine.h:109).
TypeOK ==
    /\ written \in Seq(Messages) /\ wire \in Seq(Nat)
    /\ buffer \in Seq(Nat) /\ Len(buffer) <= BufferSize
    /\ state \in {"header", "body"}
    /\ finished \in Nat
    /\ finished < (IF state = "header" THEN HeaderSize ELSE SizeOf(header))
    /\ header \in [1..HeaderSize -> Nat]
    /\ broken \in BOOLEAN

\* The calls on_header and on_message of the processor, and the error that closes
\* the connection, depend on the bytes of the stream alone and not on how
\* receive() cut them: they are those of cutting the whole stream at once.
Framed ==
    LET f == Framing(consumed) IN calls = f.calls /\ broken = f.broken
=============================================================================
